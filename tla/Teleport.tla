------------------------------ MODULE Teleport ------------------------------
(***************************************************************************)
(* The executers of the prototype (c/executer/executer.c), one per host,   *)
(* and the command line that drives each of them (c/organizer).  An        *)
(* executer has two threads: main serves the command line and starts VMs,  *)
(* the actor comm_actor moves VMs to and from other executers.  A source   *)
(* announces itself with "1", gets a signal, names the VM, gets "2" when   *)
(* the target waits for it, teleports it and sends its metadata.           *)
(*                                                                         *)
(* ZeroMQ and VirtualBox are modelled from how the code uses them: a REP   *)
(* socket that received and did not answer receives nothing more; a poller *)
(* returns the first ready socket of its list (the pipe, the listener, the *)
(* senders by age); a VM is launched once per host, and arrives where an   *)
(* executer waits for it; a machine saved as a teleporter waits to be      *)
(* teleported to when it is launched, at the one port for it of a host.    *)
(***************************************************************************)
EXTENDS Integers, Sequences, FiniteSetsExt

CONSTANTS
  Node,          \* the hosts, each with its executer and its command line
  VM,            \* the virtual machines, known to VirtualBox on every host
  Home,          \* the word "home" typed as a target
  None,          \* nothing typed, no machine, no session
  Startable,     \* the VMs a user may start with the command "start"
  MaxCommands,   \* bound: commands typed in a behaviour
  Careful,       \* users wait for the last command and ask where the VM is
  MayFail        \* VirtualBox may fail a teleport that could succeed

ASSUME TeleportAssumption ==
  /\ Home \notin Node
  /\ None \notin Node \cup VM
  /\ Startable \subseteq VM
  /\ MaxCommands \in Nat
  /\ Careful \in BOOLEAN
  /\ MayFail \in BOOLEAN

VARIABLES
  process,       \* "running", "exiting": _exit waits for the actor, "gone"
  typed,         \* the command the organizer sent and main has not answered
  main,          \* main's step, the VM it starts, its copy of metadatas_len
  pipe,          \* messages of main for the actor
  actor,         \* where the actor is, see ActorStep
  listening,     \* the listener may receive: no request is left unanswered
  vm_name,       \* the actor's variable
  target_ip,     \* the actor's variable
  sender,        \* the actor's variable: the number of a conversation
  session,       \* tp_session at the source: the entry it belongs to
  incoming,      \* the VM launched to be teleported to this host
  conv,          \* the conversations: one per zsock_new_req, in order
  metadatas,     \* the array of each executer
  runs,          \* the hosts each VM executes on
  teleporter,    \* the machines of each host with TeleporterEnabled saved
  commands       \* how many commands were typed

threads == <<process, main, pipe, actor>>
locals == <<listening, vm_name, target_ip, sender, session, incoming, teleporter>>
vars == <<process, typed, main, pipe, actor, listening, vm_name, target_ip,
          sender, session, incoming, conv, metadatas, runs, teleporter, commands>>

-----------------------------------------------------------------------------
(* Messages and records. *)

TeleportCommand == [type : {"teleport"}, vm : VM, target : Node \cup {Home}]
StartCommand == [type : {"start"}, vm : Startable]
Term == [type |-> "$TERM"]

Silent == [type |-> "none"]
Announce == [type |-> "1"]
Name(v) == [type |-> "name", vm |-> v]

(* A variant: the source sends itself as the home. *)
Metadata_HomeIsLast(e) ==
  [type |-> "metadata", home |-> e.history[Len(e.history)], history |-> e.history]

(* A variant: the source sends the history of a VM it just started.        *)
Metadata_Forgets(e) ==
  [type |-> "metadata", home |-> e.home, history |-> <<e.history[Len(e.history)]>>]

Metadata(e) == [type |-> "metadata", home |-> e.home, history |-> e.history]

(* An element of metadatas.  held: its session is not released; freed: its  *)
(* name is memory that was given back.  state and guest are never read.     *)
Entry(v, home, history, freed) ==
  [vm |-> v, home |-> home, history |-> history, held |-> TRUE, freed |-> freed]

EntryType ==
  [vm : VM, home : Node, history : Seq(Node), held : BOOLEAN, freed : BOOLEAN]

ASSUME NoneIsNoEntry == None \notin EntryType
ASSUME NoneIsNoCommand == None \notin TeleportCommand \cup StartCommand

ActorStep ==
  {"poll",       \* in zpoller_wait
   "pipe",       \* in zmsg_recv(pipe), because a socket was not recognised
   "signal",     \* source: in zsock_wait(sender)
   "launch",     \* source: found the VM not up
   "teleport",   \* source: teleporting the VM of session
   "name",       \* target: waiting for the name
   "incoming",   \* target: in IProgress_WaitForCompletion
   "metadata",   \* target: waiting for the metadata
   "halted"}     \* in err_exit, which waits for the actor itself

(* Variants of the search: the first match; the last element left out.      *)
Found_First(md, v) ==
  {i \in 0..Len(md) :
     /\ i > 0 => md[i].freed \/ md[i].vm = v
     /\ \A j \in 1..(IF i = 0 THEN Len(md) ELSE i - 1) : md[j].freed \/ md[j].vm # v}

Found_OffByOne(md, v) ==
  {i \in 0..Len(md) :
     /\ i > 0 => i < Len(md) /\ (md[i].freed \/ md[i].vm = v)
     /\ \A j \in (i + 1)..(Len(md) - 1) : md[j].freed \/ md[j].vm # v}

(* The element of metadatas the search for v ends with, 0 for none: the    *)
(* last match.  Whether a freed name matches is anybody's guess.           *)
Found(md, v) ==
  {i \in 0..Len(md) :
     /\ i > 0 => md[i].freed \/ md[i].vm = v
     /\ \A j \in (i + 1)..Len(md) : md[j].freed \/ md[j].vm # v}

(* Conversations with a request that waits at n, and those of n with an    *)
(* answer that waits.                                                      *)
Waiting(n) == {c \in DOMAIN conv : conv[c].to = n /\ conv[c].request # Silent}
Answered(n) == {c \in DOMAIN conv : conv[c].from = n /\ conv[c].reply # "none"}

(* n's poller returns the listener, or the oldest sender with an answer.    *)
Polls(n) == process[n] # "gone" /\ actor[n] = "poll" /\ pipe[n] = <<>>
ListenerReady(n) == listening[n] /\ Waiting(n) # {}

(* The machine main launched waits to be teleported to, and main for it.   *)
MainWaits(n) == main[n].step = "wait"

(* Launching v on n: VirtualBox refuses a machine that runs or waits there. *)
Launchable(n, v) ==
  /\ n \notin runs[v] /\ incoming[n] # v
  /\ ~(MainWaits(n) /\ main[n].vm = v)

(* _exit: releases VirtualBox and waits for the actor to end.               *)
Exits(n) == process' = [process EXCEPT ![n] = "exiting"]
Crashes(n) == process' = [process EXCEPT ![n] = "gone"]
Halts(n) == Exits(n) /\ actor' = [actor EXCEPT ![n] = "halted"]

-----------------------------------------------------------------------------
(* The command line (c/organizer/organizer.c): one command at a time, the  *)
(* next one after the "ok".                                                *)

Quiet ==
  /\ \A n \in Node :
       /\ typed[n] = None
       /\ process[n] # "gone" =>
            pipe[n] = <<>> /\ actor[n] = "poll" /\ main[n].step = "idle"
  /\ \A c \in DOMAIN conv : conv[c].request = Silent /\ conv[c].reply = "none"

Type(n, command) ==
  /\ typed[n] = None
  /\ commands < MaxCommands
  /\ Careful => Quiet /\ runs[command.vm] \subseteq {n}
  /\ typed' = [typed EXCEPT ![n] = command]
  /\ commands' = commands + 1
  /\ UNCHANGED <<threads, locals, conv, metadatas, runs>>

-----------------------------------------------------------------------------
(* The main thread. *)

MainAt(n, step) == process[n] # "gone" /\ main[n].step = step
MainGoes(n, step) == main' = [main EXCEPT ![n].step = step]

(* main: takes a message, answers "ok", hands a teleport to the actor.      *)
ReceiveTeleport(n) ==
  /\ MainAt(n, "idle")
  /\ typed[n] \in TeleportCommand
  /\ typed' = [typed EXCEPT ![n] = None]
  /\ pipe' = [pipe EXCEPT ![n] = Append(@, typed[n])]
  /\ UNCHANGED <<process, main, actor, locals, conv, metadatas, runs, commands>>

ReceiveStart(n) ==
  /\ MainAt(n, "idle")
  /\ typed[n] \in StartCommand
  /\ typed' = [typed EXCEPT ![n] = None]
  /\ main' = [main EXCEPT ![n] = [step |-> "launch", vm |-> typed[n].vm, len |-> 0]]
  /\ UNCHANGED <<process, pipe, actor, locals, conv, metadatas, runs, commands>>

(* main: finds and starts the VM and waits for it.  A VM that once came to *)
(* the host is still set to be teleported to: it waits, and main with it.  *)
(* The start is refused when the VM, or the port it would wait at, is in   *)
(* use (_exit then sends $TERM and waits for the actor), and VirtualBox is *)
(* a null pointer when the actor exited before.                            *)
StartVM(n) ==
  LET v == main[n].vm
      waits == v \in teleporter[n]
      ready == Launchable(n, v) /\ (waits => incoming[n] = None)
  IN
  /\ MainAt(n, "launch")
  /\ \/ /\ process[n] = "running" /\ ready /\ ~waits
        /\ runs' = [runs EXCEPT ![v] = @ \cup {n}]
        /\ MainGoes(n, "count")
        /\ UNCHANGED <<process, pipe>>
     \/ /\ process[n] = "running" /\ ready /\ waits
        /\ MainGoes(n, "wait")
        /\ UNCHANGED <<process, pipe, runs>>
     \/ /\ process[n] = "running" /\ ~ready
        /\ Exits(n)
        /\ MainGoes(n, "exiting")
        /\ pipe' = [pipe EXCEPT ![n] = Append(@, Term)]
        /\ UNCHANGED runs
     \/ /\ process[n] = "exiting"
        /\ Crashes(n)
        /\ UNCHANGED <<main, pipe, runs>>
  /\ UNCHANGED <<typed, actor, locals, conv, metadatas, commands>>

(* add_metadata in main reads metadatas_len ...                             *)
CountMetadata(n) ==
  /\ MainAt(n, "count")
  /\ main' = [main EXCEPT ![n].step = "add", ![n].len = Len(metadatas[n])]
  /\ UNCHANGED <<process, typed, pipe, actor, locals, conv, metadatas, runs, commands>>

(* ... and writes.  When the actor added an element in between, both or    *)
(* one of the two remain.  The name is freed at once.                      *)
AddStarted(n) ==
  LET md == metadatas[n]
      e == Entry(main[n].vm, n, <<n>>, TRUE)
      raced == Len(md) # main[n].len
  IN
  /\ MainAt(n, "add")
  /\ \E new \in {Append(md, e)} \cup
                (IF raced THEN {md, Append(SubSeq(md, 1, main[n].len), e)} ELSE {}) :
       metadatas' = [metadatas EXCEPT ![n] = new]
  /\ MainGoes(n, "idle")
  /\ UNCHANGED <<process, typed, pipe, actor, locals, conv, runs, commands>>

-----------------------------------------------------------------------------
(* The actor: a message of main. *)

(* "home" is the home of the last element that has the name.                *)
Targets(n, command) ==
  IF command.target = Home
  THEN {IF i = 0 THEN Home ELSE metadatas[n][i].home :
          i \in Found(metadatas[n], command.vm)}
  ELSE {command.target}

(* A variant: the flag ok is not tested. *)
Unknown_Ignored(t) == FALSE

(* ok stayed false: no element named the home. *)
Unknown(t) == t = Home

TakesCommand(n) ==
  /\ process[n] # "gone"
  /\ actor[n] \in {"poll", "pipe"}
  /\ pipe[n] # <<>>
  /\ pipe' = [pipe EXCEPT ![n] = Tail(@)]

(* A teleport command: the variables change even when no home is found;     *)
(* else the actor opens a socket, announces itself and waits.              *)
Command(n) ==
  /\ TakesCommand(n)
  /\ Head(pipe[n]) \in TeleportCommand
  /\ vm_name' = [vm_name EXCEPT ![n] = Head(pipe[n]).vm]
  /\ \E t \in Targets(n, Head(pipe[n])) :
       /\ target_ip' = [target_ip EXCEPT ![n] = t]
       /\ IF Unknown(t)
          THEN /\ actor' = [actor EXCEPT ![n] = "poll"]
               /\ UNCHANGED <<sender, conv>>
          ELSE /\ actor' = [actor EXCEPT ![n] = "signal"]
               /\ sender' = [sender EXCEPT ![n] = Len(conv) + 1]
               /\ conv' = Append(conv, [from |-> n, to |-> t,
                                        request |-> Announce, reply |-> "none"])
  /\ UNCHANGED <<process, typed, main, listening, session, incoming,
                 metadatas, runs, teleporter, commands>>

(* $TERM: the actor unpacks it as a command and reads a null pointer.       *)
CommandTerm(n) ==
  /\ TakesCommand(n)
  /\ Head(pipe[n]) = Term
  /\ Crashes(n)
  /\ UNCHANGED <<typed, main, actor, locals, conv, metadatas, runs, commands>>

(* The signal came: the actor names the VM and polls the sender.            *)
SendName(n) ==
  LET c == sender[n] IN
  /\ process[n] # "gone" /\ actor[n] = "signal"
  /\ conv[c].reply = "signal"
  /\ conv' = [conv EXCEPT ![c].reply = "none", ![c].request = Name(vm_name[n])]
  /\ actor' = [actor EXCEPT ![n] = "poll"]
  /\ UNCHANGED <<process, typed, main, pipe, locals, metadatas, runs, commands>>

-----------------------------------------------------------------------------
(* The actor as the target. *)

(* Takes a request that waits at n and answers it, if reply is not "none".  *)
Takes(c, reply) ==
  conv' = [conv EXCEPT ![c].request = Silent, ![c].reply = reply]

HearAnnounce(n) ==
  /\ Polls(n) /\ listening[n]
  /\ \E c \in Waiting(n) : conv[c].request = Announce /\ Takes(c, "signal")
  /\ actor' = [actor EXCEPT ![n] = "name"]
  /\ UNCHANGED <<process, typed, main, pipe, locals, metadatas, runs, commands>>

(* A variant: the machine is started as any other (executer.c 188). *)
Prepares_Started(n, v) ==
  /\ incoming' = [incoming EXCEPT ![n] = v]
  /\ runs' = [runs EXCEPT ![v] = @ \cup {n}]

(* The machine is set to be teleported to and launched: it waits.           *)
Prepares(n, v) == incoming' = [incoming EXCEPT ![n] = v] /\ UNCHANGED runs

(* No machine has the name "1".                                             *)
Known(r) == r.type = "name"

(* The next request, whosever it is, is the name: the VM is saved as a     *)
(* teleporter, launched to wait, and its source told "2".  One in use is   *)
(* not launched, nor any while main's machine has the port.                *)
HearName(n) ==
  /\ process[n] # "gone" /\ actor[n] = "name"
  /\ \E c \in Waiting(n) :
       LET r == conv[c].request
           ready == Known(r) /\ Launchable(n, r.vm) /\ ~MainWaits(n)
       IN
       \/ /\ process[n] = "running" /\ ready
          /\ Takes(c, "2")
          /\ Prepares(n, r.vm)
          /\ teleporter' = [teleporter EXCEPT ![n] = @ \cup {r.vm}]
          /\ actor' = [actor EXCEPT ![n] = "incoming"]
          /\ UNCHANGED process
       \/ /\ process[n] = "running" /\ ~ready
          /\ Takes(c, "none")
          /\ Halts(n)
          /\ UNCHANGED <<incoming, runs, teleporter>>
       \/ /\ process[n] = "exiting"
          /\ Takes(c, "none")
          /\ Crashes(n)
          /\ UNCHANGED <<incoming, runs, teleporter, actor>>
  /\ UNCHANGED <<typed, main, pipe, listening, vm_name, target_ip, sender,
                 session, metadatas, commands>>

(* The array of n hops moved when it grew to n: glibc keeps three pointers *)
(* in the smallest block and two more in every next one.                   *)
Moves(n) == n > 3 /\ n % 2 = 0

(* The next request is the metadata, and is never answered.  Unpacking an  *)
(* announcement yields a null pointer.  After the element is added the     *)
(* history is printed through the pointer realloc may have freed.          *)
HearMetadata(n) ==
  /\ process[n] # "gone" /\ actor[n] = "metadata"
  /\ \E c \in Waiting(n) :
       LET r == conv[c].request IN
       /\ Takes(c, "none")
       /\ \/ /\ r.type = "metadata"
             /\ metadatas' = [metadatas EXCEPT ![n] = Append(@,
                  Entry(incoming[n], r.home, Append(r.history, n), FALSE))]
             /\ \/ UNCHANGED process
                \/ Moves(Len(r.history) + 1) /\ Crashes(n)
          \/ /\ r.type # "metadata"
             /\ Crashes(n)
             /\ UNCHANGED metadatas
  /\ listening' = [listening EXCEPT ![n] = FALSE]
  /\ incoming' = [incoming EXCEPT ![n] = None]
  /\ actor' = [actor EXCEPT ![n] = "poll"]
  /\ UNCHANGED <<typed, main, pipe, vm_name, target_ip, sender, session, runs,
                 teleporter, commands>>

-----------------------------------------------------------------------------
(* The actor as the source. *)

HearsSender(n) == Polls(n) /\ ~ListenerReady(n) /\ Answered(n) # {}

(* An answer on a socket that is not sender: the actor waits for main.      *)
HearOld(n) ==
  /\ HearsSender(n) /\ Min(Answered(n)) # sender[n]
  /\ actor' = [actor EXCEPT ![n] = "pipe"]
  /\ UNCHANGED <<process, typed, main, pipe, locals, conv, metadatas, runs, commands>>

(* "2": the actor looks the VM up in metadatas.                             *)
HearGo(n) ==
  LET c == sender[n] IN
  /\ HearsSender(n) /\ Min(Answered(n)) = c
  /\ conv' = [conv EXCEPT ![c].reply = "none"]
  /\ \E i \in Found(metadatas[n], vm_name[n]) :
       IF i = 0
       THEN actor' = [actor EXCEPT ![n] = "launch"] /\ UNCHANGED session
       ELSE /\ actor' = [actor EXCEPT ![n] = "teleport"]
            /\ session' = [session EXCEPT ![n] = metadatas[n][i]]
  /\ UNCHANGED <<process, typed, main, pipe, listening, vm_name, target_ip,
                 sender, incoming, metadatas, runs, teleporter, commands>>

(* Not up: the actor starts the VM, as no teleporter any more, and records *)
(* it.  A launch that fails is logged and its progress, never set, is read.*)
LaunchVM(n) ==
  LET v == vm_name[n]
      e == Entry(v, n, <<n>>, FALSE)
      ready == process[n] = "running" /\ Launchable(n, v)
  IN
  /\ process[n] # "gone" /\ actor[n] = "launch"
  /\ \/ /\ ready
        /\ runs' = [runs EXCEPT ![v] = @ \cup {n}]
        /\ metadatas' = [metadatas EXCEPT ![n] = Append(@, e)]
        /\ session' = [session EXCEPT ![n] = e]
        /\ teleporter' = [teleporter EXCEPT ![n] = @ \ {v}]
        /\ actor' = [actor EXCEPT ![n] = "teleport"]
        /\ UNCHANGED process
     \/ /\ ~ready
        /\ Crashes(n)
        /\ UNCHANGED <<runs, metadatas, session, teleporter, actor>>
  /\ UNCHANGED <<typed, main, pipe, listening, vm_name, target_ip, sender,
                 incoming, conv, commands>>

(* The host the actor teleports to waits for the VM it teleports.           *)
Expected(n) ==
  /\ target_ip[n] \in Node \ {n}
  /\ process[target_ip[n]] # "gone"
  /\ actor[target_ip[n]] = "incoming"
  /\ incoming[target_ip[n]] = session[n].vm
  /\ n \in runs[session[n].vm]

(* A variant: the session is kept. *)
Release_Dropped(md, e) == md

(* The session of e is released. *)
Release(md, e) ==
  [i \in DOMAIN md |-> IF md[i] = e THEN [e EXCEPT !.held = FALSE] ELSE md[i]]

(* VirtualBox moves the VM, both executers see the end, the source sends   *)
(* the metadata on sender and releases the session.                        *)
Arrive(n) ==
  LET t == target_ip[n]
      e == session[n]
  IN
  /\ process[n] # "gone" /\ actor[n] = "teleport" /\ e.held
  /\ Expected(n)
  /\ runs' = [runs EXCEPT ![e.vm] = (@ \ {n}) \cup {t}]
  /\ actor' = [actor EXCEPT ![n] = "poll", ![t] = "metadata"]
  /\ conv' = [conv EXCEPT ![sender[n]].request = Metadata(e)]
  /\ metadatas' = [metadatas EXCEPT ![n] = Release(@, e)]
  /\ session' = [session EXCEPT ![n] = None]
  /\ UNCHANGED <<process, typed, main, pipe, listening, vm_name, target_ip,
                 sender, incoming, teleporter, commands>>

(* The teleport fails on its way: the source exits, and the target too if  *)
(* it saw it.                                                              *)
Fail(n) ==
  /\ process[n] # "gone" /\ actor[n] = "teleport" /\ session[n].held
  /\ MayFail \/ ~Expected(n)
  /\ \E failed \in {{n}, {n} \cup ({target_ip[n]} \cap {m \in Node : actor[m] = "incoming"})} :
       /\ actor' = [m \in Node |-> IF m \in failed THEN "halted" ELSE actor[m]]
       /\ process' = [m \in Node |->
            IF m \in failed /\ process[m] # "gone" THEN "exiting" ELSE process[m]]
  /\ UNCHANGED <<typed, main, pipe, locals, conv, metadatas, runs, commands>>

(* The teleport fails at once, which is logged only, and its progress,     *)
(* never set, is read; or the session of the element was released, and its *)
(* console is read anyway.                                                 *)
FailAtOnce(n) ==
  /\ process[n] # "gone" /\ actor[n] = "teleport"
  /\ ~session[n].held \/ MayFail \/ ~Expected(n)
  /\ Crashes(n)
  /\ UNCHANGED <<typed, main, pipe, actor, locals, conv, metadatas, runs, commands>>

-----------------------------------------------------------------------------
Init ==
  /\ process = [n \in Node |-> "running"]
  /\ typed = [n \in Node |-> None]
  /\ main = [n \in Node |-> [step |-> "idle", vm |-> None, len |-> 0]]
  /\ pipe = [n \in Node |-> <<>>]
  /\ actor = [n \in Node |-> "poll"]
  /\ listening = [n \in Node |-> TRUE]
  /\ vm_name = [n \in Node |-> None]
  /\ target_ip = [n \in Node |-> None]
  /\ sender = [n \in Node |-> 0]
  /\ session = [n \in Node |-> None]
  /\ incoming = [n \in Node |-> None]
  /\ conv = <<>>
  /\ metadatas = [n \in Node |-> <<>>]
  /\ runs = [v \in VM |-> {}]
  /\ teleporter = [n \in Node |-> {}]
  /\ commands = 0

MainThread(n) ==
  ReceiveTeleport(n) \/ ReceiveStart(n) \/ StartVM(n) \/ CountMetadata(n) \/ AddStarted(n)

ActorThread(n) ==
  \/ Command(n) \/ CommandTerm(n) \/ SendName(n)
  \/ HearAnnounce(n) \/ HearName(n) \/ HearMetadata(n)
  \/ HearOld(n) \/ HearGo(n) \/ LaunchVM(n)
  \/ Arrive(n) \/ Fail(n) \/ FailAtOnce(n)

Next ==
  \E n \in Node :
    \/ \E command \in TeleportCommand \cup StartCommand : Type(n, command)
    \/ MainThread(n)
    \/ ActorThread(n)

(* Each thread that can go on does; the sleeps and the launches end.        *)
Fairness == \A n \in Node : WF_vars(MainThread(n)) /\ WF_vars(ActorThread(n))

Spec == Init /\ [][Next]_vars
FairSpec == Spec /\ Fairness

-----------------------------------------------------------------------------
(* Properties. *)

RequestType ==
  {Silent, Announce} \cup [type : {"name"}, vm : VM]
    \cup [type : {"metadata"}, home : Node, history : Seq(Node)]

(* Type invariant: every variable has a value the program can give it, the *)
(* sender of an actor is a conversation it opened, and the reads of        *)
(* uninitialised variables the steps would make do not happen.             *)
TypeOK ==
  /\ process \in [Node -> {"running", "exiting", "gone"}]
  /\ typed \in [Node -> TeleportCommand \cup StartCommand \cup {None}]
  /\ main \in [Node -> [step : {"idle", "launch", "wait", "count", "add", "exiting"},
                        vm : VM \cup {None}, len : Nat]]
  /\ pipe \in [Node -> Seq(TeleportCommand \cup {Term})]
  /\ actor \in [Node -> ActorStep]
  /\ listening \in [Node -> BOOLEAN]
  /\ vm_name \in [Node -> VM \cup {None}]
  /\ target_ip \in [Node -> Node \cup {Home, None}]
  /\ sender \in [Node -> 0..Len(conv)]
  /\ session \in [Node -> EntryType \cup {None}]
  /\ incoming \in [Node -> VM \cup {None}]
  /\ conv \in Seq([from : Node, to : Node, request : RequestType,
                   reply : {"none", "signal", "2"}])
  /\ metadatas \in [Node -> Seq(EntryType)]
  /\ runs \in [VM -> SUBSET Node]
  /\ teleporter \in [Node -> SUBSET VM]
  /\ commands \in 0..MaxCommands
  /\ \A n \in Node :
       /\ actor[n] = "teleport" => session[n] # None
       /\ actor[n] \in {"signal", "launch", "teleport"} =>
            sender[n] > 0 /\ conv[sender[n]].from = n /\ vm_name[n] # None
       /\ actor[n] \in {"incoming", "metadata"} => incoming[n] # None

(* Main has started no VM: its add_metadata never raced with the actor's,  *)
(* and no name was freed.                                                  *)
NoneStarted(n) == main[n].vm = None

(* The metadata of a VM is the trace of its journey: its history starts at *)
(* its home and ends at the executer that has the record, and the executer *)
(* before that one has the record of the same journey less the last hop    *)
(* (executer.c 248-255, 376-399), whatever users type and VirtualBox does, *)
(* unless a VM was started by main beside the actor there.                 *)
HistoryIsJourney ==
  \A n \in Node : \A i \in DOMAIN metadatas[n] :
    LET e == metadatas[n][i]
        last == Len(e.history)
    IN
    /\ e.history[1] = e.home /\ e.history[last] = n
    /\ last > 1 =>
         LET p == e.history[last - 1] IN
         NoneStarted(p) => \E j \in DOMAIN metadatas[p] :
           /\ metadatas[p][j].vm = e.vm
           /\ metadatas[p][j].home = e.home
           /\ metadatas[p][j].history = SubSeq(e.history, 1, last - 1)

(* An executer that holds a session of a VM has that VM running, and holds *)
(* one session of it (executer.c 96-114, 303-329, 403): no element of      *)
(* metadatas says more than is true.                                       *)
HeldRuns ==
  \A n \in Node : \A i \in DOMAIN metadatas[n] :
    metadatas[n][i].held =>
      /\ n \in runs[metadatas[n][i].vm]
      /\ \A j \in DOMAIN metadatas[n] :
           metadatas[n][j].held /\ metadatas[n][j].vm = metadatas[n][i].vm => j = i

(* The search of an executer for a VM that runs on its host, once the      *)
(* metadata has come, ends at the element with the live session, though    *)
(* stale elements of earlier stays are left in the array (executer.c       *)
(* 271-281), unless main has started a VM there.                           *)
RunningIsFound ==
  \A n \in Node, v \in VM :
    NoneStarted(n) /\ n \in runs[v] /\ process[n] = "running" /\ actor[n] # "metadata" =>
      \A i \in Found(metadatas[n], v) : i > 0 /\ metadatas[n][i].held

(* The check "is the VM already up" (executer.c 270) says no only of a VM  *)
(* that does not run on this host: the launch is not refused, unless main  *)
(* has started a VM there.                                                 *)
NotUpIsStopped ==
  \A n \in Node : NoneStarted(n) /\ process[n] # "gone" /\ actor[n] = "launch" => n \notin runs[vm_name[n]]

(* The check "is the VM already up" (executer.c 270) says yes only of a VM *)
(* that runs on this host: the session the source teleports is alive,      *)
(* unless main has started a VM there.                                     *)
UpIsRunning ==
  \A n \in Node :
    NoneStarted(n) /\ process[n] # "gone" /\ actor[n] = "teleport" =>
      session[n].held /\ n \in runs[session[n].vm]

(* A VM runs on one host at a time: neither the launch at the source nor   *)
(* the machine that waits at the target makes a second copy (executer.c    *)
(* 180-205, 283-329).                                                      *)
OneHost == \A v \in VM : Cardinality(runs[v]) <= 1

(* The elements of n with a live session of v, and the conversations that  *)
(* bring n the metadata of a machine that has come.                        *)
Live(n, v) == {i \in DOMAIN metadatas[n] : metadatas[n][i].held /\ metadatas[n][i].vm = v}
Bringing(n) == {c \in DOMAIN conv : conv[c].to = n /\ conv[c].request.type = "metadata"}

(* The journey of v as the executer of its host knows it: the history of   *)
(* its live session, which main is about to record where it started v, and *)
(* which is still on its way where v has just come.                        *)
KnownJourney(v, n) ==
  CASE Live(n, v) # {} -> metadatas[n][CHOOSE i \in Live(n, v) : TRUE].history
    [] Live(n, v) = {} /\ main[n].step \in {"count", "add"} /\ main[n].vm = v -> <<n>>
    [] OTHER -> Append(conv[CHOOSE c \in Bringing(n) : TRUE].request.history, n)

JourneyOf(v) ==
  IF runs[v] = {} THEN <<>> ELSE KnownJourney(v, CHOOSE n \in runs[v] : TRUE)

Abstract == INSTANCE Journeys WITH journey <- [v \in VM |-> JourneyOf(v)]

(* For careful users the conversation of two executers is one move of the  *)
(* VM: no step loses it, doubles it or forges a hop, and the metadata the  *)
(* last executer has is the whole way it went (executer.c 96-114, 375-401, *)
(* 241-255).                                                               *)
ImplementsJourneys == Abstract!Spec

(* "Not shared variable to allow for multiple incoming" (executer.c 151):  *)
(* an actor that polls can receive the next announcement.                  *)
AllowsMultipleIncoming ==
  \A n \in Node : process[n] = "running" /\ actor[n] = "poll" => listening[n]

Recorded(n, v) ==
  \E i \in DOMAIN metadatas[n] : metadatas[n][i].vm = v /\ metadatas[n][i].held

(* The target can take part: it runs, has not received a VM before and is  *)
(* not the source.                                                         *)
CanReceive(n, t) ==
  t \in Node \ {n} /\ process[n] = "running" /\ process[t] = "running" /\ listening[t]

(* A command to teleport a VM to a host that can receive it ends with the  *)
(* VM running there and recorded there (executer.c 128-459).               *)
TeleportCompletes ==
  \A n \in Node, v \in VM, t \in Node :
    (typed[n] = [type |-> "teleport", vm |-> v, target |-> t] /\ CanReceive(n, t))
      ~> (runs[v] = {t} /\ Recorded(t, v))

(* A command to teleport a VM home ends with the VM running and recorded   *)
(* on the host its journey began at (executer.c 430-440).                  *)
HomeIsReached ==
  \A n \in Node, v \in VM, h \in Node :
    (/\ typed[n] = [type |-> "teleport", vm |-> v, target |-> Home]
     /\ CanReceive(n, h)
     /\ \E i \in DOMAIN metadatas[n] :
          /\ metadatas[n][i].vm = v /\ metadatas[n][i].held
          /\ metadatas[n][i].history[1] = h)
      ~> (runs[v] = {h} /\ Recorded(h, v))
=============================================================================
