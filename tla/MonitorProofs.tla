---------------------------- MODULE MonitorProofs ----------------------------
(***************************************************************************)
(* Proofs, for any hosts, machines and clients, about the monitor: its     *)
(* list never forgets, all its answers name one machine, and without a     *)
(* disturbance neither the server nor its answering socket is lost.        *)
(***************************************************************************)
EXTENDS Monitor, TLAPS

(* What was listed and what is under way was sent before.                  *)
SentBefore ==
    \A h \in Node : /\ Listed(h) => first[h] # NoReport
                    /\ report[h] # NoReport => first[h] # NoReport

(* What answers named is the first machine of the list.                    *)
ToldFirst ==
    \A v \in told : \E i \in DOMAIN hosts :
        HasMachine(i) /\ FoundFirst(i) /\ machine[hosts[i]] = v

(* Until a disturbance, every daemon says the same all the time, so that   *)
(* nothing is ever new, and clients find what they ask for.                *)
UndisturbedKept ==
    ~disturbed =>
        /\ server = "polling" /\ api = "free"
        /\ \A h \in Node : /\ report[h] \in {NoReport, first[h]}
                           /\ Listed(h) => machine[h] = first[h]
        /\ \A c \in Client : client[c] \in Request =>
                                client[c] = "127.0.0.1" /\ SomeMachineListed

(* The inductive invariant.                                                *)
MonitorInv == MonitorTypeOK /\ SentBefore /\ ToldFirst /\ UndisturbedKept

-----------------------------------------------------------------------------
(* What a step does to the list: nothing, or a new host at its end.        *)
ListGrows ==
    \/ UNCHANGED <<hosts, machine>>
    \/ \E h \in Node : /\ ~Listed(h) /\ report[h] # NoReport
                       /\ hosts' = Append(hosts, h)
                       /\ machine' = [machine EXCEPT ![h] = report[h]]

LEMMA StepOfList == [Next]_vars => ListGrows
<1>. SUFFICES ASSUME [Next]_vars PROVE ListGrows
  OBVIOUS
<1>1. ASSUME NEW h \in Node, ListHost(h) PROVE ListGrows
  BY <1>1 DEF ListHost, Takes, ListGrows
<1>2. CASE UNCHANGED <<hosts, machine>>
  BY <1>2 DEF ListGrows
<1>. QED  BY <1>1, <1>2 DEF Next, Move, Query, Send, Lose, TakeReport,
          RefreshHost, AppendMachine, Ask, TakeRequest, AnswerMachine,
          MissMachine, Hears, listVars, vars

(* What is listed stays where and as it is.                                *)
LEMMA ListKept ==
    ASSUME MonitorTypeOK, ListGrows
    PROVE  /\ \A i \in DOMAIN hosts : i \in DOMAIN hosts' /\ hosts'[i] = hosts[i]
           /\ \A h \in Node : Listed(h) => machine'[h] = machine[h]
           /\ \A i \in DOMAIN hosts : machine'[hosts'[i]] = machine[hosts[i]]
           /\ \A k \in DOMAIN hosts' : k \notin DOMAIN hosts =>
                 \A i \in DOMAIN hosts : i <= k
<1>1. hosts \in Seq(Node) /\ machine \in [Node -> VM \cup {None}]
  BY DEF MonitorTypeOK
<1>2. CASE UNCHANGED <<hosts, machine>>
  BY <1>2
<1>3. ASSUME NEW h \in Node, ~Listed(h), hosts' = Append(hosts, h),
             machine' = [machine EXCEPT ![h] = report[h]]
      PROVE  /\ \A i \in DOMAIN hosts : i \in DOMAIN hosts' /\ hosts'[i] = hosts[i]
             /\ \A g \in Node : Listed(g) => machine'[g] = machine[g]
             /\ \A i \in DOMAIN hosts : machine'[hosts'[i]] = machine[hosts[i]]
             /\ \A k \in DOMAIN hosts' : k \notin DOMAIN hosts =>
                   \A i \in DOMAIN hosts : i <= k
  <2>1. /\ \A i \in DOMAIN hosts : i \in DOMAIN hosts' /\ hosts'[i] = hosts[i]
        /\ \A i \in DOMAIN hosts : hosts[i] \in Node
        /\ \A k \in DOMAIN hosts' : k \notin DOMAIN hosts =>
              \A i \in DOMAIN hosts : i <= k
    BY <1>1, <1>3
  <2>2. \A g \in Node : g # h => machine'[g] = machine[g]
    BY <1>1, <1>3
  <2>3. \A i \in DOMAIN hosts : hosts[i] # h
    BY <1>3 DEF Listed
  <2>4. \A g \in Node : Listed(g) => machine'[g] = machine[g]
    BY <1>3, <2>2
  <2>5. \A i \in DOMAIN hosts : machine'[hosts'[i]] = machine[hosts[i]]
    BY <2>1, <2>2, <2>3
  <2>. QED  BY <2>1, <2>4, <2>5
<1>. QED  BY <1>2, <1>3 DEF ListGrows

(* So a machine once listed is always, and the first one stays the first.  *)
LEMMA FirstKept ==
    ASSUME MonitorTypeOK, ListGrows
    PROVE  /\ SomeMachineListed => SomeMachineListed'
           /\ \A i \in DOMAIN hosts : HasMachine(i) /\ FoundFirst(i) =>
                 /\ i \in DOMAIN hosts'
                 /\ HasMachine(i)' /\ FoundFirst(i)'
                 /\ machine'[hosts'[i]] = machine[hosts[i]]
<1>1. /\ \A i \in DOMAIN hosts : i \in DOMAIN hosts'
      /\ \A i \in DOMAIN hosts : machine'[hosts'[i]] = machine[hosts[i]]
      /\ \A k \in DOMAIN hosts' : k \notin DOMAIN hosts =>
            \A i \in DOMAIN hosts : i <= k
  BY ListKept
<1>2. SomeMachineListed => SomeMachineListed'
  BY <1>1 DEF SomeMachineListed, HasMachine
<1>3. ASSUME NEW i \in DOMAIN hosts, HasMachine(i), FoundFirst(i)
      PROVE  HasMachine(i)' /\ FoundFirst(i)'
  BY <1>1, <1>3 DEF HasMachine, FoundFirst
<1>. QED  BY <1>1, <1>2, <1>3

-----------------------------------------------------------------------------
(* The invariant                                                           *)

(* It holds before the first report.                                       *)
LEMMA MonitorInitially == Init => MonitorInv
<1>. SUFFICES ASSUME Init PROVE MonitorInv
  OBVIOUS
<1>1. MonitorTypeOK
  <2>1. 0 \in 0 .. MaxMoves /\ 0 \in 0 .. MaxJunk
    BY MonitorAssumption
  <2>2. <<>> \in Seq(Node)
    OBVIOUS
  <2>3. /\ hosts \in Seq(Node) /\ moves \in 0 .. MaxMoves
        /\ junk \in [Node -> 0 .. MaxJunk]
    BY <2>1, <2>2 DEF Init
  <2>. QED  BY <2>3 DEF Init, MonitorTypeOK
<1>2. SentBefore /\ ToldFirst /\ UndisturbedKept
  BY DEF Init, SentBefore, ToldFirst, UndisturbedKept, Listed, Request
<1>. QED  BY <1>1, <1>2 DEF MonitorInv

(* Every variable keeps its type.                                          *)
LEMMA MonitorTypesKept ==
    ASSUME MonitorTypeOK, [Next]_vars PROVE MonitorTypeOK'
<1>. USE DEF MonitorTypeOK
<1>1. ASSUME NEW v \in VM, NEW h \in Node, Move(v, h) PROVE MonitorTypeOK'
  BY <1>1, MonitorAssumption DEF Move, listVars, apiVars, history
<1>2. ASSUME NEW h \in Node, Query(h) PROVE MonitorTypeOK'
  BY <1>2 DEF Query, listVars, apiVars, history
<1>3. ASSUME NEW h \in Node, Send(h) PROVE MonitorTypeOK'
  <2>1. MachineOf(sample[h]) \in Report
    BY DEF MachineOf, Report
  <2>2. CASE Crowded(sample[h])
    BY <1>3, <2>2 DEF Send, listVars, apiVars, history
  <2>3. CASE ~Crowded(sample[h])
    BY <1>3, <2>1, <2>3 DEF Send, listVars, apiVars
  <2>. QED  BY <2>2, <2>3
<1>4. ASSUME NEW h \in Node, Lose(h) PROVE MonitorTypeOK'
  BY <1>4 DEF Lose, daemonVars, listVars, apiVars, history
<1>5. ASSUME NEW h \in Node, TakeReport(h) PROVE MonitorTypeOK'
  <2>1. report[h] \in VM \cup {None} /\ report' \in [Node -> Report \cup {NoReport}]
    <3>1. report[h] # NoReport /\ report' = [report EXCEPT ![h] = NoReport]
      BY <1>5 DEF TakeReport, ListHost, RefreshHost, AppendMachine, Takes
    <3>2. report \in [Node -> VM \cup {None} \cup {NoReport}]
      BY DEF Report
    <3>3. report' \in [Node -> VM \cup {None} \cup {NoReport}]
      BY <3>1, <3>2
    <3>. QED  BY <3>1, <3>2, <3>3 DEF Report
  <2>2. UNCHANGED <<daemonVars, apiVars, history>>
    BY <1>5 DEF TakeReport, ListHost, RefreshHost, AppendMachine, Takes
  <2>3. CASE ListHost(h)
    BY <2>1, <2>2, <2>3 DEF ListHost, daemonVars, apiVars, history
  <2>4. CASE RefreshHost(h)
    BY <2>1, <2>2, <2>4 DEF RefreshHost, daemonVars, listVars, apiVars, history
  <2>5. CASE AppendMachine(h)
    <3>1. junk' \in [Node -> 0 .. MaxJunk]
      <4>1. junk[h] \in 0 .. MaxJunk
        OBVIOUS
      <4>2. CASE junk' = junk
        BY <4>2
      <4>3. CASE junk[h] < MaxJunk /\ junk' = [junk EXCEPT ![h] = @ + 1]
        <5>1. junk[h] + 1 \in 0 .. MaxJunk
          BY <4>1, <4>3, MonitorAssumption
        <5>. QED  BY <4>3, <5>1
      <4>. QED  BY <2>5, <4>2, <4>3 DEF AppendMachine
    <3>2. server' \in {"polling", "dead"} /\ UNCHANGED <<hosts, machine>>
      BY <2>5 DEF AppendMachine
    <3>. QED  BY <2>1, <2>2, <3>1, <3>2 DEF daemonVars, apiVars, history
  <2>. QED  BY <1>5, <2>3, <2>4, <2>5 DEF TakeReport
<1>6. ASSUME NEW c \in Client, NEW ip \in Request, Ask(c, ip) PROVE MonitorTypeOK'
  BY <1>6 DEF Ask, daemonVars, listVars
<1>7. ASSUME NEW c \in Client, TakeRequest(c) PROVE MonitorTypeOK'
  <2>1. CASE AnswerMachine(c)
    <3>1. \A i \in DOMAIN hosts : HasMachine(i) => machine[hosts[i]] \in VM
      BY DEF HasMachine
    <3>2. told' \subseteq VM
      BY <2>1, <3>1 DEF AnswerMachine
    <3>. QED  BY <2>1, <3>2 DEF AnswerMachine, Hears, Returns, daemonVars,
              listVars, history
  <2>2. CASE MissMachine(c)
    BY <2>2 DEF MissMachine, Hears, Returns, daemonVars, listVars, history
  <2>. QED  BY <1>7, <2>1, <2>2 DEF TakeRequest
<1>8. CASE UNCHANGED vars
  BY <1>8 DEF vars, daemonVars, listVars, apiVars, history
<1>. QED  BY <1>1, <1>2, <1>3, <1>4, <1>5, <1>6, <1>7, <1>8 DEF Next

(* SentBefore, by what a step does to first, report and the list.          *)
LEMMA SentBeforeKept ==
    ASSUME MonitorInv, [Next]_vars PROVE SentBefore'
<1>. USE DEF MonitorInv, MonitorTypeOK
<1>1. ASSUME NEW h \in Node, Send(h) PROVE SentBefore'
  <2>1. CASE Crowded(sample[h])
    BY <1>1, <2>1 DEF Send, SentBefore, Listed, listVars, history
  <2>2. CASE ~Crowded(sample[h])
    <3>1. MachineOf(sample[h]) # NoReport
      BY MonitorAssumption DEF MachineOf
    <3>2. /\ hosts' = hosts
          /\ \A g \in Node : g # h => report'[g] = report[g] /\ first'[g] = first[g]
      BY <1>1, <2>2 DEF Send, listVars
    <3>3. first'[h] # NoReport
      BY <1>1, <2>2, <3>1 DEF Send
    <3>4. ASSUME NEW g \in Node
          PROVE  /\ Listed(g)' => first'[g] # NoReport
                 /\ report'[g] # NoReport => first'[g] # NoReport
      <4>1. CASE g = h
        BY <3>3, <4>1
      <4>2. CASE g # h
        <5>1. /\ Listed(g) => first[g] # NoReport
              /\ report[g] # NoReport => first[g] # NoReport
          BY DEF SentBefore
        <5>2. report'[g] = report[g] /\ first'[g] = first[g]
          BY <3>2, <4>2
        <5>. QED  BY <3>2, <5>1, <5>2 DEF Listed
      <4>. QED  BY <4>1, <4>2
    <3>. QED  BY <3>4 DEF SentBefore
  <2>. QED  BY <2>1, <2>2
<1>2. ASSUME NEW h \in Node, ListHost(h) PROVE SentBefore'
  <2>1. /\ report[h] # NoReport /\ report' = [report EXCEPT ![h] = NoReport]
        /\ first' = first /\ hosts' = Append(hosts, h)
    BY <1>2 DEF ListHost, Takes, history
  <2>2. \A g \in Node : Listed(g)' => Listed(g) \/ g = h
    BY <2>1 DEF Listed
  <2>. QED  BY <2>1, <2>2 DEF SentBefore
<1>3. ASSUME NEW h \in Node, Lose(h) \/ RefreshHost(h) \/ AppendMachine(h)
      PROVE  SentBefore'
  <2>1. /\ report' = [report EXCEPT ![h] = NoReport]
        /\ first' = first /\ hosts' = hosts
    BY <1>3 DEF Lose, RefreshHost, AppendMachine, Takes, listVars, history
  <2>. QED  BY <2>1 DEF SentBefore, Listed
<1>4. CASE UNCHANGED <<report, first, hosts>>
  BY <1>4 DEF SentBefore, Listed
<1>. QED  BY <1>1, <1>2, <1>3, <1>4 DEF Next, Move, Query, TakeReport, Ask,
          TakeRequest, AnswerMachine, MissMachine, Hears, listVars, history, vars

(* ToldFirst: answers name the first machine, and it stays the first.      *)
LEMMA ToldFirstKept ==
    ASSUME MonitorInv, [Next]_vars PROVE ToldFirst'
<1>0. MonitorTypeOK /\ ToldFirst /\ ListGrows
  BY StepOfList DEF MonitorInv
<1>1. ASSUME NEW v \in told'
      PROVE  \E i \in DOMAIN hosts :
                HasMachine(i) /\ FoundFirst(i) /\ machine[hosts[i]] = v
  <2>1. CASE v \in told
    BY <1>0, <2>1 DEF ToldFirst
  <2>2. ASSUME NEW c \in Client, AnswerMachine(c), v \notin told
        PROVE  \E i \in DOMAIN hosts :
                  HasMachine(i) /\ FoundFirst(i) /\ machine[hosts[i]] = v
    <3>1. PICK i \in DOMAIN hosts : /\ HasMachine(i) /\ FoundFirst(i)
                                    /\ told' = told \cup {machine[hosts[i]]}
      BY <2>2 DEF AnswerMachine
    <3>. QED  BY <1>1, <2>2, <3>1
  <2>3. told' = told \/ \E c \in Client : AnswerMachine(c)
    BY DEF Next, Move, Query, Send, Lose, TakeReport, ListHost, RefreshHost,
       AppendMachine, Takes, Ask, TakeRequest, MissMachine, apiVars, vars
  <2>. QED  BY <1>1, <2>1, <2>2, <2>3
<1>2. ASSUME NEW v \in told'
      PROVE  \E i \in DOMAIN hosts' :
                HasMachine(i)' /\ FoundFirst(i)' /\ machine'[hosts'[i]] = v
  <2>1. PICK i \in DOMAIN hosts :
            HasMachine(i) /\ FoundFirst(i) /\ machine[hosts[i]] = v
    BY <1>1
  <2>2. /\ i \in DOMAIN hosts' /\ HasMachine(i)' /\ FoundFirst(i)'
        /\ machine'[hosts'[i]] = v
    BY <1>0, <2>1, FirstKept
  <2>. QED  BY <2>2
<1>. QED  BY <1>2 DEF ToldFirst

(* A disturbance stays one.                                                *)
LEMMA DisturbanceStays == MonitorTypeOK /\ [Next]_vars => (disturbed => disturbed')
  BY DEF MonitorTypeOK, Next, Move, Query, Send, Lose, TakeReport, ListHost,
     RefreshHost, AppendMachine, Takes, Ask, TakeRequest, AnswerMachine,
     MissMachine, Hears, history, vars

(* Until a disturbance nothing new is reported, and every request hits.    *)
LEMMA UndisturbedStep ==
    ASSUME MonitorInv, [Next]_vars PROVE UndisturbedKept'
<1>. SUFFICES ASSUME ~disturbed'
              PROVE  /\ server' = "polling" /\ api' = "free"
                     /\ \A h \in Node : /\ report'[h] \in {NoReport, first'[h]}
                                        /\ Listed(h)' => machine'[h] = first'[h]
                     /\ \A c \in Client : client'[c] \in Request =>
                            client'[c] = "127.0.0.1" /\ SomeMachineListed'
  BY DEF UndisturbedKept, Request
<1>. DEFINE Kept == /\ server' = "polling" /\ api' = "free"
                    /\ \A h \in Node : /\ report'[h] \in {NoReport, first'[h]}
                                       /\ Listed(h)' => machine'[h] = first'[h]
                    /\ \A c \in Client : client'[c] \in Request =>
                           client'[c] = "127.0.0.1" /\ SomeMachineListed'
<1>0. /\ MonitorTypeOK /\ SentBefore /\ ListGrows
      /\ ~disturbed
      /\ server = "polling" /\ api = "free"
      /\ \A h \in Node : /\ report[h] \in {NoReport, first[h]}
                         /\ Listed(h) => machine[h] = first[h]
      /\ \A c \in Client : client[c] \in Request =>
             client[c] = "127.0.0.1" /\ SomeMachineListed
  BY StepOfList, DisturbanceStays DEF MonitorInv, UndisturbedKept
<1>1. SomeMachineListed => SomeMachineListed'
  BY <1>0, FirstKept
<1>2. ASSUME NEW h \in Node, Send(h) PROVE Kept
  <2>1. /\ UNCHANGED <<hosts, machine, client, server, api>>
        /\ \A g \in Node : Listed(g)' <=> Listed(g)
    BY <1>2 DEF Send, Listed, listVars, apiVars
  <2>2. \A g \in Node : g # h => report'[g] = report[g] /\ first'[g] = first[g]
    BY <1>0, <1>2 DEF Send, MonitorTypeOK, history
  <2>3. /\ report'[h] \in {NoReport, first'[h]}
        /\ first[h] # NoReport => first'[h] = first[h]
    <3>1. CASE Crowded(sample[h])
      BY <1>0, <1>2, <3>1 DEF Send, history
    <3>2. CASE ~Crowded(sample[h])
      <4>1. first[h] \in {NoReport, MachineOf(sample[h])}
        BY <1>2, <3>2 DEF Send
      <4>2. /\ report'[h] = MachineOf(sample[h])
            /\ first'[h] = IF first[h] = NoReport THEN MachineOf(sample[h]) ELSE first[h]
        BY <1>0, <1>2, <3>2 DEF Send, MonitorTypeOK
      <4>. QED  BY <4>1, <4>2
    <3>. QED  BY <3>1, <3>2
  <2>4. \A g \in Node : Listed(g) => first[g] # NoReport
    BY <1>0 DEF SentBefore
  <2>. QED  BY <1>0, <1>1, <2>1, <2>2, <2>3, <2>4
<1>3. ASSUME NEW h \in Node, TakeReport(h) PROVE Kept
  <2>1. /\ report[h] = first[h] /\ report[h] # NoReport
        /\ \A g \in Node : report'[g] \in {NoReport, report[g]}
        /\ UNCHANGED <<first, client, api>>
    BY <1>0, <1>3 DEF TakeReport, ListHost, RefreshHost, AppendMachine, Takes,
       apiVars, history, MonitorTypeOK
  <2>2. CASE ListHost(h)
    <3>1. /\ hosts' = Append(hosts, h) /\ server' = server
          /\ machine' = [machine EXCEPT ![h] = report[h]]
      BY <2>2 DEF ListHost
    <3>2. \A g \in Node : Listed(g)' => Listed(g) \/ g = h
      BY <1>0, <3>1 DEF Listed, MonitorTypeOK
    <3>3. \A g \in Node : machine'[g] = IF g = h THEN report[h] ELSE machine[g]
      BY <1>0, <3>1 DEF MonitorTypeOK
    <3>. QED  BY <1>0, <1>1, <2>1, <3>1, <3>2, <3>3
  <2>3. CASE RefreshHost(h)
    <3>1. UNCHANGED <<hosts, machine, server>>
      BY <2>3 DEF RefreshHost, listVars
    <3>. QED  BY <1>0, <1>1, <2>1, <3>1 DEF Listed
  <2>4. CASE AppendMachine(h)
    BY <1>0, <2>1, <2>4 DEF AppendMachine, IsNew
  <2>. QED  BY <1>3, <2>2, <2>3, <2>4 DEF TakeReport
<1>4. ASSUME NEW h \in Node, Lose(h) PROVE Kept
  <2>1. /\ \A g \in Node : report'[g] \in {NoReport, report[g]}
        /\ UNCHANGED <<hosts, machine, first, client, server, api>>
    BY <1>0, <1>4 DEF Lose, listVars, apiVars, history, MonitorTypeOK
  <2>. QED  BY <1>0, <1>1, <2>1 DEF Listed
<1>5. ASSUME NEW c \in Client, NEW ip \in Request, Ask(c, ip) PROVE Kept
  <2>1. /\ ip = "127.0.0.1" /\ SomeMachineListed
        /\ \A d \in Client : client'[d] = IF d = c THEN ip ELSE client[d]
        /\ UNCHANGED <<hosts, machine, report, first, server, api>>
    BY <1>0, <1>5 DEF Ask, listVars, Request, MonitorTypeOK
  <2>. QED  BY <1>0, <1>1, <2>1 DEF Listed
<1>6. ASSUME NEW c \in Client, TakeRequest(c) PROVE Kept
  <2>1. AnswerMachine(c)
    BY <1>0, <1>6 DEF TakeRequest, MissMachine, Hears
  <2>2. /\ \A d \in Client : client'[d] = IF d = c THEN "idle" ELSE client[d]
        /\ UNCHANGED <<hosts, machine, report, first, server, api>>
    BY <1>0, <2>1 DEF AnswerMachine, Hears, Returns, listVars, history,
       MonitorTypeOK
  <2>. QED  BY <1>0, <1>1, <2>2 DEF Listed, Request
<1>7. CASE UNCHANGED <<report, listVars, server, apiVars, first>>
  BY <1>0, <1>1, <1>7 DEF Listed, listVars, apiVars
<1>. QED  BY <1>2, <1>3, <1>4, <1>5, <1>6, <1>7 DEF Next, Move, Query, history, vars

(* So every step of the monitor keeps the invariant.                       *)
LEMMA MonitorInvInductive == MonitorInv /\ [Next]_vars => MonitorInv'
  BY MonitorTypesKept, SentBeforeKept, ToldFirstKept, UndisturbedStep DEF MonitorInv

-----------------------------------------------------------------------------
(* Theorems                                                                *)

(* The invariant of the monitor, from which the rest follows.              *)
THEOREM MonitorInvariant == Spec => []MonitorInv
  BY MonitorInitially, MonitorInvInductive, PTL DEF Spec

(* The variables of the monitor keep their types.                          *)
THEOREM MonitorTypeCorrect == Spec => []MonitorTypeOK
<1>1. MonitorInv => MonitorTypeOK
  BY DEF MonitorInv
<1>. QED  BY <1>1, MonitorInvariant, PTL

(* Without a disturbance the server and its answering socket survive every *)
(* loss and delay.                                                         *)
THEOREM UndisturbedServesAlways == Spec => []UndisturbedServes
<1>1. MonitorInv => UndisturbedServes
  BY DEF MonitorInv, UndisturbedKept, UndisturbedServes
<1>. QED  BY <1>1, MonitorInvariant, PTL

(* All clients are told of one and the same machine.                       *)
THEOREM AnswersAgreeAlways == Spec => []AnswersAgree
<1>1. MonitorInv => AnswersAgree
  <2>. SUFFICES ASSUME MonitorInv, NEW v \in told, NEW w \in told
                PROVE  v = w
    BY DEF AnswersAgree
  <2>1. PICK i \in DOMAIN hosts :
            HasMachine(i) /\ FoundFirst(i) /\ machine[hosts[i]] = v
    BY DEF MonitorInv, ToldFirst
  <2>2. PICK j \in DOMAIN hosts :
            HasMachine(j) /\ FoundFirst(j) /\ machine[hosts[j]] = w
    BY DEF MonitorInv, ToldFirst
  <2>3. i <= j /\ j <= i
    BY <2>1, <2>2 DEF FoundFirst
  <2>4. hosts \in Seq(Node)
    BY DEF MonitorInv, MonitorTypeOK
  <2>5. i = j
    BY <2>3, <2>4
  <2>. QED  BY <2>1, <2>2, <2>5
<1>. QED  BY <1>1, MonitorInvariant, PTL

(* The list only grows: the host at a place and the machine of a listed    *)
(* host stay as they are, wherever machines go.                            *)
THEOREM ListStays == Spec => ListedStays
<1>1. MonitorInv /\ [Next]_vars =>
          [/\ \A i \in DOMAIN hosts : i \in DOMAIN hosts' /\ hosts'[i] = hosts[i]
           /\ \A h \in Node : Listed(h) => machine'[h] = machine[h]]_vars
  BY StepOfList, ListKept DEF MonitorInv
<1>. QED  BY <1>1, MonitorInvariant, PTL DEF Spec, ListedStays
==============================================================================
