------------------------------- MODULE Monitor -------------------------------
(***************************************************************************)
(* The monitor of the prototype: a daemon per host (c/monitor/monitor.c)   *)
(* that reports the machine running there, the server (server.c) that      *)
(* lists the hosts and their machines, and clients (interface.c) that ask  *)
(* it for a machine.  Machines move from host to host meanwhile.           *)
(*                                                                         *)
(* A report is the address of the host and the machine found on it; a      *)
(* request is an address.  No number travels: each is an optional field,   *)
(* and nobody sets the has_ flag without which it is not packed.  That     *)
(* includes is_host, so that every request is one for a machine.           *)
(*                                                                         *)
(* ZeroMQ is modelled from how the code uses it: a daemon closes its       *)
(* socket right behind the send, so a report may be lost; a REP socket     *)
(* that received and did not answer receives nothing more.                 *)
(***************************************************************************)
EXTENDS Integers, Sequences, FiniteSets

CONSTANTS
    Node,    \* the hosts
    VM,      \* the machines
    Client,  \* the programs that call getMetricPackedMessageFromServer
    None,    \* no machine
    NoReport, \* nothing under way
    MaxMoves, \* bound: teleports in a behaviour
    MaxJunk  \* bound: machines appended to the array of a host

ASSUME MonitorAssumption ==
    /\ None \notin VM /\ NoReport \notin VM \cup {None}
    /\ MaxMoves \in Nat
    /\ MaxJunk \in Nat

VARIABLES
    at,      \* the host each machine runs on
    moves,   \* how many teleports there were
    daemon,  \* where the daemon of each host is
    sample,  \* the machines its last query found
    report,  \* its report under way
    hosts,   \* the list of the server: hosts in order of their first report
    machine, \* of a listed host, the machine its first report brought
    junk,    \* of a listed host, machines appended since, name and ip unset
    server,  \* "polling" or "dead"
    api,     \* its REP socket: "free", or "unanswered" for ever
    client,  \* what each client is at
    told,    \* history: the machines answers have named
    first,     \* history: the first report each daemon sent
    disturbed  \* history: a daemon sent something else than before, or a
               \* client asked for what was not listed then

daemonVars == <<at, moves, daemon, sample>>
listVars == <<hosts, machine, junk>>
apiVars == <<api, client, told>>
history == <<first, disturbed>>
vars == <<daemonVars, report, listVars, server, apiVars, history>>

(* Every daemon gives every machine the address 127.0.0.1.  A client asks  *)
(* for that one or for another, such as the address of a host.             *)
Request == {"127.0.0.1", "other"}

(* A report is the machine found: none or one.                             *)
Report == VM \cup {None}

MonitorTypeOK ==
    /\ at \in [VM -> Node]
    /\ moves \in 0 .. MaxMoves
    /\ daemon \in [Node -> {"querying", "sleeping", "dead"}]
    /\ sample \in [Node -> SUBSET VM]
    /\ report \in [Node -> Report \cup {NoReport}]
    /\ hosts \in Seq(Node)
    /\ machine \in [Node -> VM \cup {None}]
    /\ junk \in [Node -> 0 .. MaxJunk]
    /\ server \in {"polling", "dead"}
    /\ api \in {"free", "unanswered"}
    /\ client \in [Client -> {"idle"} \cup Request]
    /\ told \subseteq VM
    /\ first \in [Node -> Report \cup {NoReport}]
    /\ disturbed \in BOOLEAN

Init ==
    /\ at \in [VM -> Node]
    /\ moves = 0
    /\ daemon = [h \in Node |-> "querying"]
    /\ sample = [h \in Node |-> {}]
    /\ report = [h \in Node |-> NoReport]
    /\ hosts = <<>>
    /\ machine = [h \in Node |-> None]
    /\ junk = [h \in Node |-> 0]
    /\ server = "polling"
    /\ api = "free"
    /\ client = [c \in Client |-> "idle"]
    /\ told = {}
    /\ first = [h \in Node |-> NoReport]
    /\ disturbed = FALSE

-----------------------------------------------------------------------------
(* The daemons                                                             *)

(* An executer teleports a machine.                                        *)
Move(v, h) ==
    /\ at[v] # h /\ moves < MaxMoves
    /\ moves' = moves + 1
    /\ at' = [at EXCEPT ![v] = h]
    /\ UNCHANGED <<daemon, sample, report, listVars, server, apiVars, history>>

(* _setup_query_metrics, and the sleep of six seconds behind it.           *)
Query(h) ==
    /\ daemon[h] = "querying"
    /\ daemon' = [daemon EXCEPT ![h] = "sleeping"]
    /\ sample' = [sample EXCEPT ![h] = {v \in VM : at[v] = h}]
    /\ UNCHANGED <<at, moves, report, listVars, server, apiVars, history>>

(* _get_metrics: a second machine resets the first one (line 300), and     *)
(* the next metric compares with the name it has no more.                  *)
Crowded(machines) == Cardinality(machines) > 1

MachineOf(machines) == IF machines = {} THEN None ELSE CHOOSE v \in machines : TRUE

(* _send_host_metrics sends what was true six seconds ago.  The report     *)
(* before this one was taken or lost.                                      *)
Send(h) ==
    /\ daemon[h] = "sleeping" /\ report[h] = NoReport
    /\ sample' = [sample EXCEPT ![h] = {}]
    /\ IF Crowded(sample[h])
       THEN /\ daemon' = [daemon EXCEPT ![h] = "dead"]
            /\ UNCHANGED <<report, history>>
       ELSE LET m == MachineOf(sample[h]) IN
            /\ daemon' = [daemon EXCEPT ![h] = "querying"]
            /\ report' = [report EXCEPT ![h] = m]
            /\ first' = [first EXCEPT ![h] = IF @ = NoReport THEN m ELSE @]
            /\ disturbed' = (disturbed \/ first[h] \notin {NoReport, m})
    /\ UNCHANGED <<at, moves, listVars, server, apiVars>>

Lose(h) ==
    /\ report[h] # NoReport
    /\ report' = [report EXCEPT ![h] = NoReport]
    /\ UNCHANGED <<daemonVars, listVars, server, apiVars, history>>

-----------------------------------------------------------------------------
(* The server takes a report                                               *)

Listed(h) == \E i \in DOMAIN hosts : hosts[i] = h

Takes(h) ==
    /\ server = "polling" /\ report[h] # NoReport
    /\ report' = [report EXCEPT ![h] = NoReport]
    /\ UNCHANGED <<daemonVars, apiVars, history>>

ListHost_First(h) ==
    /\ Takes(h) /\ ~Listed(h)
    /\ hosts' = IF hosts = <<>> THEN <<h>> ELSE hosts
    /\ machine' = [machine EXCEPT ![h] = report[h]]
    /\ UNCHANGED <<junk, server>>

(* A new host goes to the end of the list, with the machine it reports.    *)
ListHost(h) ==
    /\ Takes(h) /\ ~Listed(h)
    /\ hosts' = Append(hosts, h)
    /\ machine' = [machine EXCEPT ![h] = report[h]]
    /\ UNCHANGED <<junk, server>>

IsNew_Always(h) == report[h] # None

(* No machine of a listed host has the reported name.                      *)
IsNew(h) == report[h] \notin {None, machine[h]}

(* Nothing the report names is new: only numbers are averaged.             *)
RefreshHost(h) ==
    /\ Takes(h) /\ Listed(h) /\ ~IsNew(h)
    /\ UNCHANGED <<listVars, server>>

(* The array of the host is extended in a copy, which is dropped, and the  *)
(* new machine stored behind the old array (lines 182-186).  A host listed *)
(* without a machine has no array.  Machines appended before have no name  *)
(* to compare with (and the block has room for two of them only), so that  *)
(* the server may end there.                                               *)
AppendMachine(h) ==
    /\ Takes(h) /\ Listed(h) /\ IsNew(h)
    /\ \/ /\ machine[h] # None /\ junk[h] < MaxJunk
          /\ junk' = [junk EXCEPT ![h] = @ + 1]
          /\ UNCHANGED server
       \/ /\ machine[h] = None \/ junk[h] > 0
          /\ server' = "dead"
          /\ UNCHANGED junk
    /\ UNCHANGED <<hosts, machine>>

-----------------------------------------------------------------------------
(* The clients, and response_to_api                                        *)

HasMachine(i) == machine[hosts[i]] # None

SomeMachineListed == \E i \in DOMAIN hosts : HasMachine(i)

(* A client sends an address and waits for the answer as long as it takes. *)
Ask(c, ip) ==
    /\ client[c] = "idle"
    /\ client' = [client EXCEPT ![c] = ip]
    /\ disturbed' = (disturbed \/ ip = "other" \/ ~SomeMachineListed)
    /\ UNCHANGED <<daemonVars, report, listVars, server, api, told, first>>

Hears_AfterReports(c) ==
    /\ server = "polling" /\ api = "free" /\ client[c] \in Request
    /\ \A h \in Node : report[h] = NoReport
    /\ UNCHANGED <<daemonVars, report, listVars, history>>

(* The request reaches the server: its socket is ready to receive.         *)
Hears(c) ==
    /\ server = "polling" /\ api = "free" /\ client[c] \in Request
    /\ UNCHANGED <<daemonVars, report, listVars, history>>

Returns(c) == client' = [client EXCEPT ![c] = "idle"]

FoundFirst_LastHost(i) == \A k \in DOMAIN hosts : HasMachine(k) => k <= i

(* find_machine: every machine has the address, so the first one is found. *)
FoundFirst(i) == \A k \in DOMAIN hosts : HasMachine(k) => i <= k

AnswerMachine(c) ==
    /\ Hears(c) /\ client[c] = "127.0.0.1"
    /\ \E i \in DOMAIN hosts :
          /\ HasMachine(i) /\ FoundFirst(i)
          /\ told' = told \cup {machine[hosts[i]]}
    /\ Returns(c)
    /\ UNCHANGED <<server, api>>

(* Not found: the reply is sent without being initialised.  ZeroMQ refuses *)
(* it, so that nothing is sent, or sends or reads whatever it points to.   *)
MissMachine(c) ==
    /\ Hears(c)
    /\ client[c] = "other" \/ ~SomeMachineListed
    /\ \/ api' = "unanswered" /\ UNCHANGED <<server, client>>
       \/ Returns(c) /\ UNCHANGED <<server, api>>
       \/ server' = "dead" /\ UNCHANGED <<api, client>>
    /\ UNCHANGED told

-----------------------------------------------------------------------------
TakeReport(h) == ListHost(h) \/ RefreshHost(h) \/ AppendMachine(h)

TakeRequest(c) == AnswerMachine(c) \/ MissMachine(c)

Next ==
    \/ \E v \in VM, h \in Node : Move(v, h)
    \/ \E h \in Node : Query(h) \/ Send(h) \/ Lose(h) \/ TakeReport(h)
    \/ \E c \in Client : (\E ip \in Request : Ask(c, ip)) \/ TakeRequest(c)

Spec == Init /\ [][Next]_vars

(* Daemons go round their loop, the loop of the server serves whichever    *)
(* socket is ready, each of its requests in turn, and a host that goes on  *)
(* reporting gets a report through.                                        *)
Fairness ==
    /\ \A h \in Node : WF_vars(Query(h)) /\ WF_vars(Send(h)) /\ SF_vars(TakeReport(h))
    /\ \A c \in Client : WF_vars(TakeRequest(c))

FairSpec == Spec /\ Fairness

-----------------------------------------------------------------------------
(* Properties                                                              *)

(* Whatever is lost or late, the server stays alive and its answering      *)
(* socket usable as long as no host reports another machine than before,   *)
(* or one after none, and nobody asks for an address not listed yet.       *)
UndisturbedServes == ~disturbed => server = "polling" /\ api = "free"

(* The list never forgets: machines that left a host stay listed for it    *)
(* and answer for it, and those that came are not found by any request.    *)
ListedStays ==
    [][/\ \A i \in DOMAIN hosts : i \in DOMAIN hosts' /\ hosts'[i] = hosts[i]
       /\ \A h \in Node : Listed(h) => machine'[h] = machine[h]]_vars

(* All machines have one address, and the list never forgets: all clients  *)
(* are told of one and the same machine, wherever machines are by now.     *)
AnswersAgree == \A v, w \in told : v = w

(* A host whose daemon lives gets listed, although reports are lost.       *)
HostsGetListed ==
    \A h \in Node : <>(Listed(h) \/ daemon[h] = "dead" \/ server = "dead")

(* A client that asks for the address of a listed machine is answered,     *)
(* unless the server is lost to a disturbance before.                      *)
ClientsAreAnswered ==
    \A c \in Client :
        (client[c] = "127.0.0.1" /\ SomeMachineListed)
            ~> (client[c] = "idle" \/ server = "dead" \/ api = "unanswered")
==============================================================================
