---------------------------- MODULE TeleportProofs ----------------------------
(***************************************************************************)
(* Proofs, for any hosts, machines, users and failures, about the executer *)
(* protocol: no step reads what was never set, the history of a machine is *)
(* the trace of its journey, and what an executer holds of a machine is    *)
(* true of the machines that run on its host.  And when commands are given *)
(* carefully, that a machine runs on one host at a time, is up whenever it *)
(* is recorded, and that the protocol implements the abstract journeys.    *)
(***************************************************************************)
EXTENDS Teleport, FiniteSetTheorems, TLAPS, WellFoundedInduction

Conversation == [from : Node, to : Node, request : RequestType,
                 reply : {"none", "signal", "2"}]

(* The values of the variables, one by one.                                *)
ThreadTypes ==
    /\ process \in [Node -> {"running", "exiting", "gone"}]
    /\ typed \in [Node -> TeleportCommand \cup StartCommand \cup {None}]
    /\ main \in [Node -> [step : {"idle", "launch", "wait", "count", "add", "exiting"},
                          vm : VM \cup {None}, len : Nat]]
    /\ pipe \in [Node -> Seq(TeleportCommand \cup {Term})]
    /\ actor \in [Node -> ActorStep]
    /\ commands \in 0 .. MaxCommands

LocalTypes ==
    /\ listening \in [Node -> BOOLEAN]
    /\ vm_name \in [Node -> VM \cup {None}]
    /\ target_ip \in [Node -> Node \cup {Home, None}]
    /\ sender \in [Node -> 0 .. Len(conv)]
    /\ session \in [Node -> EntryType \cup {None}]
    /\ incoming \in [Node -> VM \cup {None}]
    /\ teleporter \in [Node -> SUBSET VM]

RecordTypes ==
    /\ conv \in Seq(Conversation)
    /\ metadatas \in [Node -> Seq(EntryType)]
    /\ runs \in [VM -> SUBSET Node]

(* What an actor is about to use was set: its conversation, the name, the  *)
(* session, the machine that waits; main, the machine it starts and a      *)
(* length metadatas had.                                                   *)
UsesSet(n) ==
    /\ actor[n] = "teleport" => session[n] # None
    /\ actor[n] \in {"signal", "launch", "teleport"} => sender[n] > 0 /\ vm_name[n] # None
    /\ actor[n] \in {"incoming", "metadata"} => incoming[n] # None
    /\ main[n].step # "idle" => main[n].vm # None
    /\ main[n].step = "add" => main[n].len <= Len(metadatas[n])

UsesWhatIsSet == \A n \in Node : UsesSet(n)

(* A conversation an actor opened goes to the host it teleports to, unless *)
(* a command for an unknown home replaced that.                            *)
SenderKept ==
    \A n \in Node : sender[n] > 0 =>
        /\ conv[sender[n]].from = n
        /\ vm_name[n] # None
        /\ target_ip[n] \in {conv[sender[n]].to, Home}

(* The inductive invariant below the type invariant.                       *)
ProtocolInv ==
    ThreadTypes /\ LocalTypes /\ RecordTypes /\ UsesWhatIsSet /\ SenderKept

-----------------------------------------------------------------------------
(* A history that starts at the home and ends at n.                        *)
Journey(n, home, history) ==
    /\ Len(history) > 0
    /\ history[1] = home /\ history[Len(history)] = n

(* The array has an element of the machine with this history; n has one,   *)
(* unless main started a machine there.                                    *)
HasRecord(md, v, home, history) ==
    \E k \in DOMAIN md : md[k].vm = v /\ md[k].home = home /\ md[k].history = history

RecordedAt(n, v, home, history) ==
    NoneStarted(n) => HasRecord(metadatas[n], v, home, history)

(* What every element of metadatas says ...                                *)
Traced(n, e) ==
    /\ Journey(n, e.home, e.history)
    /\ Len(e.history) > 1 =>
          RecordedAt(e.history[Len(e.history) - 1], e.vm, e.home,
                     SubSeq(e.history, 1, Len(e.history) - 1))

ElementsKept == \A n \in Node : \A k \in DOMAIN metadatas[n] : Traced(n, metadatas[n][k])

(* ... the element a source is about to send ...                           *)
SessionKept ==
    \A n \in Node : actor[n] = "teleport" =>
        /\ Journey(n, session[n].home, session[n].history)
        /\ RecordedAt(n, session[n].vm, session[n].home, session[n].history)

(* ... and the one that is under way: its target waits for it, with the    *)
(* machine it is about, and for no other, unless it crashed.               *)
IsMetadata(c) == conv[c].request.type = "metadata"

MetadataKept ==
    \A c \in DOMAIN conv : IsMetadata(c) /\ process[conv[c].to] # "gone" =>
        /\ actor[conv[c].to] = "metadata"
        /\ Journey(conv[c].from, conv[c].request.home, conv[c].request.history)
        /\ RecordedAt(conv[c].from, incoming[conv[c].to],
                      conv[c].request.home, conv[c].request.history)
        /\ \A d \in DOMAIN conv : IsMetadata(d) /\ conv[d].to = conv[c].to => d = c

(* The inductive invariant.                                                *)
TeleportInv == ProtocolInv /\ ElementsKept /\ SessionKept /\ MetadataKept

-----------------------------------------------------------------------------
LEMMA TypesFromProtocol == ProtocolInv => TypeOK
<1>. QED  BY DEF ProtocolInv, ThreadTypes, LocalTypes, RecordTypes, UsesWhatIsSet, UsesSet,
          SenderKept, TypeOK, Conversation

LEMMA ProtocolInitially == Init => ProtocolInv
<1>. SUFFICES ASSUME Init PROVE ProtocolInv
  OBVIOUS
<1>1. ThreadTypes
  <2>1. 0 \in 0 .. MaxCommands /\ <<>> \in Seq(TeleportCommand \cup {Term})
    BY TeleportAssumption
  <2>. QED  BY <2>1 DEF Init, ThreadTypes, ActorStep
<1>2. LocalTypes
  <2>1. 0 \in 0 .. Len(conv)
    BY DEF Init
  <2>. QED  BY <2>1 DEF Init, LocalTypes
<1>3. RecordTypes
  BY DEF Init, RecordTypes
<1>4. UsesWhatIsSet /\ SenderKept
  BY DEF Init, UsesWhatIsSet, UsesSet, SenderKept
<1>. QED  BY <1>1, <1>2, <1>3, <1>4 DEF ProtocolInv

(* The commands and messages an executer may get.                          *)
LEMMA MessageKinds ==
    /\ \A r \in RequestType : r.type = "name" => r.vm \in VM
    /\ \A r \in RequestType : r.type = "metadata" =>
          r.home \in Node /\ r.history \in Seq(Node)
    /\ Silent \in RequestType /\ Announce \in RequestType
    /\ \A v \in VM : Name(v) \in RequestType
    /\ \A e \in EntryType : Metadata(e) \in RequestType
    /\ \A e \in EntryType : Metadata(e).home = e.home /\ Metadata(e).history = e.history
    /\ Silent.type # "metadata" /\ Announce.type # "metadata"
    /\ \A v : Name(v).type # "metadata"
<1>. QED  BY DEF RequestType, Silent, Announce, Name, Metadata, EntryType

LEMMA CommandKinds ==
    /\ \A x \in TeleportCommand : x.vm \in VM /\ x.target \in Node \cup {Home}
    /\ \A x \in StartCommand : x.vm \in VM
    /\ Term \notin TeleportCommand
<1>. QED  BY TeleportAssumption DEF TeleportCommand, StartCommand, Term

LEMMA EntryTypes ==
    ASSUME NEW v \in VM, NEW home \in Node, NEW history \in Seq(Node), NEW freed \in BOOLEAN
    PROVE  Entry(v, home, history, freed) \in EntryType
<1>. QED  BY DEF Entry, EntryType

(* What the search finds is an element, or nothing.                        *)
LEMMA FoundIsElement ==
    ASSUME NEW md \in Seq(EntryType), NEW v, NEW k \in Found(md, v)
    PROVE  k \in 0 .. Len(md) /\ (k # 0 => md[k] \in EntryType)
<1>. QED  BY DEF Found

(* A home that is found is a host.                                         *)
LEMMA TargetTypes ==
    ASSUME NEW n \in Node, metadatas \in [Node -> Seq(EntryType)],
           NEW x \in TeleportCommand, NEW t \in Targets(n, x)
    PROVE  t \in Node \cup {Home}
<1>1. CASE x.target = Home
  <2>1. PICK k \in Found(metadatas[n], x.vm) :
            t = IF k = 0 THEN Home ELSE metadatas[n][k].home
    BY <1>1 DEF Targets
  <2>2. k # 0 => metadatas[n][k] \in EntryType
    BY FoundIsElement
  <2>. QED  BY <2>1, <2>2 DEF EntryType
<1>2. CASE x.target # Home
  BY <1>2, CommandKinds DEF Targets
<1>. QED  BY <1>1, <1>2

(* What a conversation holds.                                              *)
LEMMA ConvTypes ==
    ASSUME conv \in Seq(Conversation), NEW c \in DOMAIN conv
    PROVE  /\ conv[c] \in Conversation /\ conv[c].request \in RequestType
           /\ conv[c].from \in Node /\ conv[c].to \in Node
<1>1. conv[c] \in Conversation
  OBVIOUS
<1>. QED  BY <1>1 DEF Conversation

(* Writing to a conversation changes neither the others nor who talks.     *)
LEMMA ConvUpdated ==
    ASSUME conv \in Seq(Conversation), NEW c \in DOMAIN conv,
           NEW q \in RequestType, NEW a \in {"none", "signal", "2"},
           \/ conv' = [conv EXCEPT ![c].request = q, ![c].reply = a]
           \/ conv' = [conv EXCEPT ![c].reply = a, ![c].request = q]
           \/ conv' = [conv EXCEPT ![c].request = q] /\ a = conv[c].reply
           \/ conv' = [conv EXCEPT ![c].reply = a] /\ q = conv[c].request
    PROVE  /\ conv' \in Seq(Conversation) /\ Len(conv') = Len(conv)
           /\ DOMAIN conv' = DOMAIN conv
           /\ \A d \in DOMAIN conv :
                 /\ conv'[d].from = conv[d].from /\ conv'[d].to = conv[d].to
                 /\ d # c => conv'[d] = conv[d]
           /\ conv'[c].request = q
<1>. DEFINE x == [conv[c] EXCEPT !.request = q, !.reply = a]
<1>1. conv[c] \in Conversation
  OBVIOUS
<1>2. /\ x \in Conversation /\ x.request = q
      /\ x.from = conv[c].from /\ x.to = conv[c].to
  BY <1>1 DEF Conversation
<1>3. conv' = [conv EXCEPT ![c] = x]
  <2>1. /\ [conv[c] EXCEPT !.reply = a, !.request = q] = x
        /\ a = conv[c].reply => [conv[c] EXCEPT !.request = q] = x
        /\ q = conv[c].request => [conv[c] EXCEPT !.reply = a] = x
    BY <1>1 DEF Conversation
  <2>. QED  BY <2>1
<1>. HIDE DEF x
<1>. QED  BY <1>2, <1>3

(* So a conversation of an actor stays its own.                            *)
LEMMA SenderUntouched ==
    ASSUME ProtocolInv, UNCHANGED <<sender, vm_name, target_ip>>,
           Len(conv') >= Len(conv),
           \A d \in DOMAIN conv : conv'[d].from = conv[d].from /\ conv'[d].to = conv[d].to
    PROVE  SenderKept'
<1>1. SenderKept /\ conv \in Seq(Conversation) /\ \A n \in Node : sender[n] \in 0 .. Len(conv)
  BY DEF ProtocolInv, LocalTypes, RecordTypes
<1>. SUFFICES ASSUME NEW n \in Node, sender[n] > 0
              PROVE  /\ conv'[sender[n]].from = n /\ vm_name[n] # None
                     /\ target_ip[n] \in {conv'[sender[n]].to, Home}
  BY DEF SenderKept
<1>2. sender[n] \in DOMAIN conv
  BY <1>1
<1>. QED  BY <1>1, <1>2 DEF SenderKept

(* The least of some conversations is one of them.                         *)
LEMMA MinIsElement ==
    ASSUME NEW S \in SUBSET Nat, S # {}
    PROVE  Min(S) \in S
<1>1. PICK x \in S : \A y \in S : <<y, x>> \notin OpToRel(<, Nat)
  BY NatLessThanWellFounded, WFMin
<1>2. \A y \in S : x <= y
  <2>1. ASSUME NEW y \in S PROVE ~(y < x)
    BY <1>1 DEF OpToRel
  <2>. QED  BY <2>1
<1>. QED  BY <1>2 DEF Min

(* An element stays what it is when its session is released.               *)
LEMMA ReleaseKeeps ==
    ASSUME NEW md \in Seq(EntryType), NEW e \in EntryType
    PROVE  /\ Release(md, e) \in Seq(EntryType)
           /\ DOMAIN Release(md, e) = DOMAIN md /\ Len(Release(md, e)) = Len(md)
           /\ \A k \in DOMAIN md : /\ Release(md, e)[k].vm = md[k].vm
                                   /\ Release(md, e)[k].home = md[k].home
                                   /\ Release(md, e)[k].history = md[k].history
<1>. DEFINE r == [e EXCEPT !.held = FALSE]
<1>1. r \in EntryType /\ r.vm = e.vm /\ r.home = e.home /\ r.history = e.history
  BY DEF EntryType
<1>2. Release(md, e) = [k \in DOMAIN md |-> IF md[k] = e THEN r ELSE md[k]]
  BY DEF Release
<1>. HIDE DEF r
<1>3. \A k \in DOMAIN md : md[k] \in EntryType
  OBVIOUS
<1>. QED  BY <1>1, <1>2, <1>3

(* Main only goes on to another step.                                      *)
LEMMA MainWent ==
    ASSUME ThreadTypes, NEW n \in Node,
           NEW x \in {"idle", "launch", "wait", "count", "add", "exiting"},
           MainGoes(n, x)
    PROVE  /\ main' \in [Node -> [step : {"idle", "launch", "wait", "count", "add", "exiting"},
                                 vm : VM \cup {None}, len : Nat]]
           /\ \A m \in Node : /\ main'[m].step = IF m = n THEN x ELSE main[m].step
                              /\ main'[m].vm = main[m].vm /\ main'[m].len = main[m].len
<1>1. main[n] \in [step : {"idle", "launch", "wait", "count", "add", "exiting"},
                   vm : VM \cup {None}, len : Nat]
  BY DEF ThreadTypes
<1>. DEFINE y == [main[n] EXCEPT !.step = x]
<1>2. /\ y \in [step : {"idle", "launch", "wait", "count", "add", "exiting"},
                vm : VM \cup {None}, len : Nat]
      /\ y.step = x /\ y.vm = main[n].vm /\ y.len = main[n].len
  BY <1>1
<1>3. main' = [main EXCEPT ![n] = y]
  BY DEF MainGoes
<1>. HIDE DEF y
<1>. QED  BY <1>2, <1>3 DEF ThreadTypes

LEMMA TypeKeepsTypes ==
    ASSUME ProtocolInv, NEW n \in Node, NEW command \in TeleportCommand \cup StartCommand,
           Type(n, command)
    PROVE  ProtocolInv'
<1>. USE DEF ProtocolInv, threads, locals
<1>1. ThreadTypes'
  <2>1. commands' \in 0 .. MaxCommands
    BY TeleportAssumption DEF Type, ThreadTypes
  <2>2. typed' \in [Node -> TeleportCommand \cup StartCommand \cup {None}]
    BY DEF Type, ThreadTypes
  <2>. QED  BY <2>1, <2>2 DEF Type, ThreadTypes
<1>2. LocalTypes'
  BY DEF Type, LocalTypes
<1>3. RecordTypes'
  BY DEF Type, RecordTypes
<1>4. UsesWhatIsSet'
  BY DEF Type, UsesWhatIsSet, UsesSet, ThreadTypes, LocalTypes, RecordTypes
<1>5. SenderKept'
  BY DEF Type, SenderKept, LocalTypes, RecordTypes
<1>. QED  BY <1>1, <1>2, <1>3, <1>4, <1>5

LEMMA ReceiveTeleportKeepsTypes ==
    ASSUME ProtocolInv, NEW n \in Node, ReceiveTeleport(n)
    PROVE  ProtocolInv'
<1>. USE DEF ProtocolInv, threads, locals
<1>1. ThreadTypes'
  BY DEF ReceiveTeleport, ThreadTypes
<1>2. LocalTypes'
  BY DEF ReceiveTeleport, LocalTypes
<1>3. RecordTypes'
  BY DEF ReceiveTeleport, RecordTypes
<1>4. UsesWhatIsSet'
  BY DEF ReceiveTeleport, UsesWhatIsSet, UsesSet, ThreadTypes, LocalTypes, RecordTypes
<1>5. SenderKept'
  BY DEF ReceiveTeleport, SenderKept, LocalTypes, RecordTypes
<1>. QED  BY <1>1, <1>2, <1>3, <1>4, <1>5

LEMMA ReceiveStartKeepsTypes ==
    ASSUME ProtocolInv, NEW n \in Node, ReceiveStart(n)
    PROVE  ProtocolInv'
<1>. USE DEF ProtocolInv, threads, locals
<1>1. ThreadTypes'
  <2>1. typed[n].vm \in VM
    BY CommandKinds DEF ReceiveStart
  <2>2. [step |-> "launch", vm |-> typed[n].vm, len |-> 0] \in
            [step : {"idle", "launch", "wait", "count", "add", "exiting"},
             vm : VM \cup {None}, len : Nat]
    BY <2>1
  <2>. QED  BY <2>2 DEF ReceiveStart, ThreadTypes
<1>2. LocalTypes'
  BY DEF ReceiveStart, LocalTypes
<1>3. RecordTypes'
  BY DEF ReceiveStart, RecordTypes
<1>4. UsesWhatIsSet'
  <2>1. typed[n].vm \in VM /\ None \notin VM
    BY CommandKinds, TeleportAssumption DEF ReceiveStart
  <2>2. \A m \in Node : main'[m] =
            IF m = n THEN [step |-> "launch", vm |-> typed[n].vm, len |-> 0] ELSE main[m]
    BY DEF ReceiveStart, ThreadTypes
  <2>. QED  BY <2>1, <2>2 DEF ReceiveStart, UsesWhatIsSet, UsesSet
<1>5. SenderKept'
  BY DEF ReceiveStart, SenderKept, LocalTypes, RecordTypes
<1>. QED  BY <1>1, <1>2, <1>3, <1>4, <1>5

LEMMA StartVMKeepsTypes ==
    ASSUME ProtocolInv, NEW n \in Node, StartVM(n)
    PROVE  ProtocolInv'
<1>. USE DEF ProtocolInv, threads, locals
<1>0. \/ main' = main \/ MainGoes(n, "count")
      \/ MainGoes(n, "wait") \/ MainGoes(n, "exiting")
  BY DEF StartVM
<1>a. /\ main' \in [Node -> [step : {"idle", "launch", "wait", "count", "add", "exiting"},
                            vm : VM \cup {None}, len : Nat]]
      /\ \A m \in Node : /\ main'[m].vm = main[m].vm /\ main'[m].len = main[m].len
                         /\ main'[m].step # main[m].step => m = n /\ main'[m].step # "add"
  <2>1. CASE main' = main
    BY <2>1 DEF ThreadTypes
  <2>2. CASE MainGoes(n, "count")
    BY <2>2, MainWent
  <2>3. CASE MainGoes(n, "wait")
    BY <2>3, MainWent
  <2>4. CASE MainGoes(n, "exiting")
    BY <2>4, MainWent
  <2>. QED  BY <1>0, <2>1, <2>2, <2>3, <2>4
<1>1. ThreadTypes'
  <2>1. process' \in [Node -> {"running", "exiting", "gone"}]
    BY DEF StartVM, Exits, Crashes, ThreadTypes
  <2>2. pipe' \in [Node -> Seq(TeleportCommand \cup {Term})]
    <3>1. pipe[n] \in Seq(TeleportCommand \cup {Term})
      BY DEF ThreadTypes
    <3>2. Append(pipe[n], Term) \in Seq(TeleportCommand \cup {Term})
      BY <3>1
    <3>3. pipe' = pipe \/ pipe' = [pipe EXCEPT ![n] = Append(pipe[n], Term)]
      BY DEF StartVM
    <3>. QED  BY <3>2, <3>3 DEF ThreadTypes
  <2>. QED  BY <1>a, <2>1, <2>2 DEF StartVM, ThreadTypes
<1>2. LocalTypes'
  BY DEF StartVM, LocalTypes
<1>3. RecordTypes'
  BY DEF StartVM, RecordTypes
<1>4. UsesWhatIsSet'
  <2>1. main[n].vm # None
    <3>1. main[n].step = "launch"
      BY DEF StartVM, MainAt
    <3>. QED  BY <3>1 DEF UsesWhatIsSet, UsesSet
  <2>. QED  BY <1>a, <2>1 DEF StartVM, UsesWhatIsSet, UsesSet
<1>5. SenderKept'
  BY DEF StartVM, SenderKept, LocalTypes, RecordTypes
<1>. QED  BY <1>1, <1>2, <1>3, <1>4, <1>5

LEMMA CountMetadataKeepsTypes ==
    ASSUME ProtocolInv, NEW n \in Node, CountMetadata(n)
    PROVE  ProtocolInv'
<1>. USE DEF ProtocolInv, threads, locals
<1>0. main[n] \in [step : {"idle", "launch", "wait", "count", "add", "exiting"},
                     vm : VM \cup {None}, len : Nat]
  BY DEF ThreadTypes
<1>a. Len(metadatas[n]) \in Nat
  BY DEF RecordTypes
<1>1. ThreadTypes'
  <2>1. [main[n] EXCEPT !.step = "add", !.len = Len(metadatas[n])] \in
            [step : {"idle", "launch", "wait", "count", "add", "exiting"},
             vm : VM \cup {None}, len : Nat]
    BY <1>0, <1>a
  <2>. QED  BY <2>1 DEF CountMetadata, ThreadTypes
<1>2. LocalTypes'
  BY DEF CountMetadata, LocalTypes
<1>3. RecordTypes'
  BY DEF CountMetadata, RecordTypes
<1>4. UsesWhatIsSet'
  <2>1. main[n].vm # None
    <3>1. main[n].step = "count"
      BY DEF CountMetadata, MainAt
    <3>. QED  BY <3>1 DEF UsesWhatIsSet, UsesSet
  <2>2. \A m \in Node : main'[m] =
          IF m = n THEN [main[n] EXCEPT !.step = "add", !.len = Len(metadatas[n])]
                   ELSE main[m]
    BY DEF CountMetadata, ThreadTypes
  <2>3. main'[n].vm = main[n].vm /\ main'[n].len = Len(metadatas[n])
    BY <1>0, <2>2
  <2>4. Len(metadatas[n]) <= Len(metadatas[n])
    BY <1>a
  <2>. QED  BY <2>1, <2>2, <2>3, <2>4 DEF CountMetadata, UsesWhatIsSet, UsesSet
<1>5. SenderKept'
  BY DEF CountMetadata, SenderKept, LocalTypes, RecordTypes
<1>. QED  BY <1>1, <1>2, <1>3, <1>4, <1>5

LEMMA AddStartedKeepsTypes ==
    ASSUME ProtocolInv, NEW n \in Node, AddStarted(n)
    PROVE  ProtocolInv'
<1>. USE DEF ProtocolInv, threads, locals
<1>0. main[n] \in [step : {"idle", "launch", "wait", "count", "add", "exiting"},
                     vm : VM \cup {None}, len : Nat]
  BY DEF ThreadTypes
<1>a. main[n].vm \in VM /\ main[n].step = "add" /\ main[n].len <= Len(metadatas[n])
  <2>1. main[n].step = "add"
    BY DEF AddStarted, MainAt
  <2>2. main[n].vm # None /\ main[n].len <= Len(metadatas[n])
    BY <2>1 DEF UsesWhatIsSet, UsesSet
  <2>. QED  BY <1>0, <2>1, <2>2
<1>b. MainGoes(n, "idle")
  BY DEF AddStarted
<1>1. ThreadTypes'
  <2>1. main' \in [Node -> [step : {"idle", "launch", "wait", "count", "add", "exiting"},
                           vm : VM \cup {None}, len : Nat]]
    BY <1>0, <1>b DEF MainGoes, ThreadTypes
  <2>. QED  BY <2>1 DEF AddStarted, ThreadTypes
<1>2. LocalTypes'
  BY DEF AddStarted, LocalTypes
<1>3. RecordTypes'
  <2>. DEFINE md == metadatas[n]
              e == Entry(main[n].vm, n, <<n>>, TRUE)
  <2>0. <<n>> \in Seq(Node)
    OBVIOUS
  <2>1. md \in Seq(EntryType) /\ e \in EntryType
    BY <1>a, <2>0, EntryTypes DEF RecordTypes
  <2>2. SubSeq(md, 1, main[n].len) \in Seq(EntryType)
    BY <1>0, <1>a, <2>1
  <2>. HIDE DEF e
  <2>3. /\ Append(md, e) \in Seq(EntryType)
        /\ Append(SubSeq(md, 1, main[n].len), e) \in Seq(EntryType)
    BY <2>1, <2>2
  <2>4. PICK new \in Seq(EntryType) : metadatas' = [metadatas EXCEPT ![n] = new]
    BY <2>1, <2>3 DEF AddStarted, e
  <2>. QED  BY <2>4 DEF AddStarted, RecordTypes
<1>4. UsesWhatIsSet'
  <2>1. \A m \in Node : /\ main'[m].step = IF m = n THEN "idle" ELSE main[m].step
                       /\ main'[m].vm = main[m].vm /\ main'[m].len = main[m].len
    BY <1>b, MainWent
  <2>2. main'[n].step = "idle"
    BY <2>1
  <2>3. \A m \in Node : m # n => metadatas'[m] = metadatas[m]
    BY DEF AddStarted, RecordTypes
  <2>. QED  BY <2>1, <2>2, <2>3 DEF AddStarted, UsesWhatIsSet, UsesSet
<1>5. SenderKept'
  BY DEF AddStarted, SenderKept, LocalTypes, RecordTypes
<1>. QED  BY <1>1, <1>2, <1>3, <1>4, <1>5

LEMMA CommandKeepsTypes ==
    ASSUME ProtocolInv, NEW n \in Node, Command(n)
    PROVE  ProtocolInv'
<1>. USE DEF ProtocolInv, threads, locals
<1>0. /\ Head(pipe[n]) \in TeleportCommand \cup {Term}
      /\ pipe' \in [Node -> Seq(TeleportCommand \cup {Term})]
  BY DEF Command, TakesCommand, ThreadTypes
<1>a. PICK t \in Targets(n, Head(pipe[n])) :
          /\ target_ip' = [target_ip EXCEPT ![n] = t]
          /\ IF Unknown(t)
             THEN /\ actor' = [actor EXCEPT ![n] = "poll"]
                  /\ UNCHANGED <<sender, conv>>
             ELSE /\ actor' = [actor EXCEPT ![n] = "signal"]
                  /\ sender' = [sender EXCEPT ![n] = Len(conv) + 1]
                  /\ conv' = Append(conv, [from |-> n, to |-> t,
                                           request |-> Announce, reply |-> "none"])
  BY DEF Command
<1>b. /\ Head(pipe[n]) \in TeleportCommand /\ Head(pipe[n]).vm \in VM
      /\ vm_name' = [vm_name EXCEPT ![n] = Head(pipe[n]).vm]
      /\ UNCHANGED <<process, typed, main, listening, session, incoming, metadatas,
                     runs, teleporter, commands>>
  BY CommandKinds DEF Command
<1>c. t \in Node \cup {Home} /\ (~Unknown(t) => t \in Node)
  BY <1>b, TargetTypes DEF RecordTypes, Unknown
<1>d. /\ conv \in Seq(Conversation) /\ conv' \in Seq(Conversation)
      /\ Len(conv') >= Len(conv)
      /\ \A d \in DOMAIN conv : conv'[d] = conv[d]
      /\ ~Unknown(t) => /\ Len(conv') = Len(conv) + 1
                        /\ conv'[Len(conv) + 1].from = n
                        /\ conv'[Len(conv) + 1].to = t
  <2>1. ~Unknown(t) => [from |-> n, to |-> t, request |-> Announce, reply |-> "none"]
                          \in Conversation
    BY <1>c, MessageKinds DEF Conversation
  <2>2. conv \in Seq(Conversation)
    BY DEF RecordTypes
  <2>3. CASE Unknown(t)
    <3>1. conv' = conv
      BY <1>a, <2>3
    <3>. QED  BY <2>2, <2>3, <3>1
  <2>4. CASE ~Unknown(t)
    <3>. DEFINE x == [from |-> n, to |-> t, request |-> Announce, reply |-> "none"]
    <3>1. conv' = Append(conv, x) /\ x \in Conversation /\ x.from = n /\ x.to = t
      BY <1>a, <2>1, <2>4
    <3>. HIDE DEF x
    <3>. QED  BY <2>2, <3>1
  <2>. QED  BY <2>3, <2>4
<1>e. None \notin VM
  BY TeleportAssumption
<1>1. ThreadTypes'
  BY <1>0, <1>a, <1>b DEF ThreadTypes, ActorStep
<1>2. LocalTypes'
  <2>1. sender' \in [Node -> 0 .. Len(conv')]
    <3>1. sender \in [Node -> 0 .. Len(conv)] /\ Len(conv) \in Nat /\ Len(conv') \in Nat
      BY <1>d DEF LocalTypes
    <3>2. CASE Unknown(t)
      BY <1>a, <3>1, <3>2
    <3>3. CASE ~Unknown(t)
      <4>1. Len(conv') = Len(conv) + 1 /\ sender' = [sender EXCEPT ![n] = Len(conv) + 1]
        BY <1>a, <1>d, <3>3
      <4>. QED  BY <3>1, <4>1
    <3>. QED  BY <3>2, <3>3
  <2>2. vm_name' \in [Node -> VM \cup {None}] /\ target_ip' \in [Node -> Node \cup {Home, None}]
    BY <1>a, <1>b, <1>c DEF LocalTypes
  <2>. QED  BY <1>b, <2>1, <2>2 DEF LocalTypes
<1>3. RecordTypes'
  BY <1>b, <1>d DEF RecordTypes
<1>4. UsesWhatIsSet'
  <2>1. \A m \in Node : IF m = n THEN vm_name'[m] # None ELSE vm_name'[m] = vm_name[m]
    BY <1>b, <1>e DEF LocalTypes
  <2>2. CASE Unknown(t)
    <3>1. /\ \A m \in Node : actor'[m] = actor[m] \/ actor'[m] = "poll"
          /\ sender' = sender
      BY <1>a, <2>2 DEF ThreadTypes
    <3>. QED  BY <1>b, <2>1, <3>1 DEF UsesWhatIsSet, UsesSet
  <2>3. CASE ~Unknown(t)
    <3>1. /\ \A m \in Node : actor'[m] = IF m = n THEN "signal" ELSE actor[m]
          /\ \A m \in Node : m # n => sender'[m] = sender[m]
          /\ sender'[n] > 0
      BY <1>a, <1>d, <2>3 DEF ThreadTypes, LocalTypes
    <3>. QED  BY <1>b, <2>1, <3>1 DEF UsesWhatIsSet, UsesSet
  <2>. QED  BY <2>2, <2>3
<1>5. SenderKept'
  <2>. SUFFICES ASSUME NEW m \in Node, sender'[m] > 0
                PROVE  /\ conv'[sender'[m]].from = m /\ vm_name'[m] # None
                       /\ target_ip'[m] \in {conv'[sender'[m]].to, Home}
    BY DEF SenderKept
  <2>1. CASE m # n
    <3>1. sender'[m] = sender[m] /\ vm_name'[m] = vm_name[m] /\ target_ip'[m] = target_ip[m]
      BY <1>a, <1>b, <2>1 DEF LocalTypes
    <3>2. sender[m] \in DOMAIN conv
      BY <1>d, <3>1 DEF LocalTypes
    <3>. QED  BY <1>d, <3>1, <3>2 DEF SenderKept
  <2>2. CASE m = n /\ Unknown(t)
    <3>1. sender[n] \in DOMAIN conv /\ sender' = sender
      BY <1>a, <1>d, <2>2 DEF LocalTypes
    <3>2. target_ip'[n] = Home /\ vm_name'[n] # None
      BY <1>a, <1>b, <1>e, <2>2 DEF LocalTypes, Unknown
    <3>. QED  BY <1>d, <2>2, <3>1, <3>2 DEF SenderKept
  <2>3. CASE m = n /\ ~Unknown(t)
    <3>1. sender'[n] = Len(conv) + 1
      BY <1>a, <2>3 DEF LocalTypes
    <3>2. target_ip'[n] = t /\ vm_name'[n] # None
      BY <1>a, <1>b, <1>e DEF LocalTypes
    <3>. QED  BY <1>d, <2>3, <3>1, <3>2
  <2>. QED  BY <2>1, <2>2, <2>3
<1>. QED  BY <1>1, <1>2, <1>3, <1>4, <1>5

LEMMA CommandTermKeepsTypes ==
    ASSUME ProtocolInv, NEW n \in Node, CommandTerm(n)
    PROVE  ProtocolInv'
<1>. USE DEF ProtocolInv, threads, locals
<1>0. /\ Head(pipe[n]) \in TeleportCommand \cup {Term}
      /\ pipe' \in [Node -> Seq(TeleportCommand \cup {Term})]
  BY DEF CommandTerm, TakesCommand, ThreadTypes
<1>1. ThreadTypes'
  BY <1>0 DEF CommandTerm, Crashes, ThreadTypes
<1>2. LocalTypes'
  BY DEF CommandTerm, LocalTypes
<1>3. RecordTypes'
  BY DEF CommandTerm, RecordTypes
<1>4. UsesWhatIsSet'
  BY DEF CommandTerm, UsesWhatIsSet, UsesSet, ThreadTypes, LocalTypes, RecordTypes
<1>5. SenderKept'
  BY DEF CommandTerm, SenderKept, LocalTypes, RecordTypes
<1>. QED  BY <1>1, <1>2, <1>3, <1>4, <1>5

LEMMA SendNameKeepsTypes ==
    ASSUME ProtocolInv, NEW n \in Node, SendName(n)
    PROVE  ProtocolInv'
<1>. USE DEF ProtocolInv, threads, locals
<1>0. /\ sender[n] \in DOMAIN conv
      /\ conv' \in Seq(Conversation) /\ Len(conv') = Len(conv)
      /\ \A d \in DOMAIN conv : conv'[d].from = conv[d].from /\ conv'[d].to = conv[d].to
  <2>1. sender[n] \in DOMAIN conv /\ vm_name[n] # None
    BY DEF SendName, UsesWhatIsSet, UsesSet, LocalTypes, RecordTypes
  <2>2. Name(vm_name[n]) \in RequestType
    BY <2>1, MessageKinds DEF LocalTypes
  <2>. QED  BY <2>1, <2>2, ConvUpdated DEF SendName, RecordTypes
<1>1. ThreadTypes'
  BY DEF SendName, ThreadTypes, ActorStep
<1>2. LocalTypes'
  BY <1>0 DEF SendName, LocalTypes
<1>3. RecordTypes'
  BY <1>0 DEF SendName, RecordTypes
<1>4. UsesWhatIsSet'
  BY DEF SendName, UsesWhatIsSet, UsesSet, ThreadTypes, LocalTypes, RecordTypes
<1>5. SenderKept'
  BY <1>0, SenderUntouched DEF SendName, RecordTypes
<1>. QED  BY <1>1, <1>2, <1>3, <1>4, <1>5

LEMMA HearAnnounceKeepsTypes ==
    ASSUME ProtocolInv, NEW n \in Node, HearAnnounce(n)
    PROVE  ProtocolInv'
<1>. USE DEF ProtocolInv, threads, locals
<1>0. /\ conv' \in Seq(Conversation) /\ Len(conv') = Len(conv)
      /\ \A d \in DOMAIN conv : conv'[d].from = conv[d].from /\ conv'[d].to = conv[d].to
  BY ConvUpdated, MessageKinds DEF HearAnnounce, Waiting, Takes, RecordTypes
<1>1. ThreadTypes'
  BY DEF HearAnnounce, ThreadTypes, ActorStep
<1>2. LocalTypes'
  BY <1>0 DEF HearAnnounce, LocalTypes
<1>3. RecordTypes'
  BY <1>0 DEF HearAnnounce, RecordTypes
<1>4. UsesWhatIsSet'
  BY DEF HearAnnounce, UsesWhatIsSet, UsesSet, ThreadTypes, LocalTypes, RecordTypes
<1>5. SenderKept'
  BY <1>0, SenderUntouched DEF HearAnnounce, RecordTypes
<1>. QED  BY <1>1, <1>2, <1>3, <1>4, <1>5

LEMMA HearNameKeepsTypes ==
    ASSUME ProtocolInv, NEW n \in Node, HearName(n)
    PROVE  ProtocolInv'
<1>. USE DEF ProtocolInv, threads, locals
<1>0. /\ conv' \in Seq(Conversation) /\ Len(conv') = Len(conv)
      /\ \A d \in DOMAIN conv : conv'[d].from = conv[d].from /\ conv'[d].to = conv[d].to
  BY ConvUpdated, MessageKinds DEF HearName, Waiting, Takes, RecordTypes
<1>a. PICK c \in DOMAIN conv :
          \/ /\ conv[c].request.type = "name" /\ conv[c].request \in RequestType
             /\ incoming' = [incoming EXCEPT ![n] = conv[c].request.vm]
             /\ actor' = [actor EXCEPT ![n] = "incoming"]
             /\ UNCHANGED <<process, runs>>
          \/ Halts(n) /\ UNCHANGED <<incoming, runs>>
          \/ Crashes(n) /\ UNCHANGED <<incoming, runs, actor>>
  <2>1. \A c \in DOMAIN conv : conv[c].request \in RequestType
    BY ConvTypes DEF RecordTypes
  <2>. QED  BY <2>1 DEF HearName, Waiting, Prepares, Known
<1>b. \/ /\ \E v \in VM : incoming' = [incoming EXCEPT ![n] = v]
         /\ actor' = [actor EXCEPT ![n] = "incoming"]
         /\ UNCHANGED <<process, runs>>
      \/ Halts(n) /\ UNCHANGED <<incoming, runs>>
      \/ Crashes(n) /\ UNCHANGED <<incoming, runs, actor>>
  BY <1>a, MessageKinds
<1>c. UNCHANGED <<typed, main, pipe, listening, vm_name, target_ip, sender,
                  session, metadatas, commands>>
  BY DEF HearName
<1>d. actor[n] = "name" /\ None \notin VM
  BY TeleportAssumption DEF HearName
<1>1. ThreadTypes'
  BY <1>b, <1>c DEF Halts, Exits, Crashes, ThreadTypes, ActorStep
<1>2. LocalTypes'
  <2>1. incoming' \in [Node -> VM \cup {None}]
    BY <1>b DEF LocalTypes
  <2>2. teleporter' \in [Node -> SUBSET VM]
    <3>1. \/ UNCHANGED teleporter
          \/ \E v \in VM : teleporter' = [teleporter EXCEPT ![n] = @ \cup {v}]
      <4>1. \A d \in DOMAIN conv : conv[d].request \in RequestType
        BY ConvTypes DEF RecordTypes
      <4>. QED  BY <4>1, MessageKinds DEF HearName, Waiting, Known
    <3>2. \A v \in VM : teleporter[n] \cup {v} \in SUBSET VM
      BY DEF LocalTypes
    <3>. QED  BY <3>1, <3>2 DEF LocalTypes
  <2>. QED  BY <1>0, <1>c, <2>1, <2>2 DEF LocalTypes
<1>3. RecordTypes'
  BY <1>0, <1>b, <1>c DEF RecordTypes
<1>4. UsesWhatIsSet'
  <2>1. \A m \in Node : /\ actor'[m] \in {actor[m], "incoming", "halted"}
                        /\ m # n => actor'[m] = actor[m] /\ incoming'[m] = incoming[m]
                        /\ actor'[m] = "incoming" => incoming'[m] # None
                        /\ actor'[m] = "metadata" => incoming'[m] = incoming[m]
    BY <1>b, <1>d DEF Halts, ThreadTypes, LocalTypes, UsesWhatIsSet, UsesSet
  <2>2. /\ main' = main /\ vm_name' = vm_name /\ sender' = sender /\ session' = session
        /\ metadatas' = metadatas
    BY <1>c
  <2>. SUFFICES ASSUME NEW m \in Node PROVE UsesSet(m)'
    BY DEF UsesWhatIsSet
  <2>3. UsesSet(m)
    BY DEF UsesWhatIsSet
  <2>. QED  BY <2>1, <2>2, <2>3 DEF UsesSet
<1>5. SenderKept'
  BY <1>0, <1>c, SenderUntouched DEF RecordTypes
<1>. QED  BY <1>1, <1>2, <1>3, <1>4, <1>5

LEMMA HearMetadataKeepsTypes ==
    ASSUME ProtocolInv, NEW n \in Node, HearMetadata(n)
    PROVE  ProtocolInv'
<1>. USE DEF ProtocolInv, threads, locals
<1>0. PICK c \in DOMAIN conv :
          /\ Takes(c, "none")
          /\ \/ /\ conv[c].request.type = "metadata"
                /\ metadatas' = [metadatas EXCEPT ![n] = Append(@,
                     Entry(incoming[n], conv[c].request.home,
                           Append(conv[c].request.history, n), FALSE))]
             \/ UNCHANGED metadatas
          /\ process' = process \/ Crashes(n)
  BY DEF HearMetadata, Waiting
<1>a. /\ conv' \in Seq(Conversation) /\ Len(conv') = Len(conv)
      /\ \A d \in DOMAIN conv : conv'[d].from = conv[d].from /\ conv'[d].to = conv[d].to
  BY <1>0, ConvUpdated, MessageKinds DEF Takes, RecordTypes
<1>b. /\ actor' = [actor EXCEPT ![n] = "poll"]
      /\ incoming' = [incoming EXCEPT ![n] = None]
      /\ listening' = [listening EXCEPT ![n] = FALSE]
      /\ UNCHANGED <<typed, main, pipe, vm_name, target_ip, sender, session, runs,
                     teleporter, commands>>
  BY DEF HearMetadata
<1>c. \A m \in Node : metadatas'[m] \in Seq(EntryType) /\ Len(metadatas'[m]) >= Len(metadatas[m])
  <2>1. CASE UNCHANGED metadatas
    <3>1. \A m \in Node : Len(metadatas[m]) \in Nat
      BY DEF RecordTypes
    <3>. QED  BY <2>1, <3>1 DEF RecordTypes
  <2>2. CASE ~UNCHANGED metadatas
    <3>1. conv[c].request.type = "metadata" /\ conv[c].request \in RequestType
      BY <1>0, <2>2, ConvTypes DEF RecordTypes
    <3>2. conv[c].request.home \in Node /\ conv[c].request.history \in Seq(Node)
      BY <3>1, MessageKinds
    <3>3. incoming[n] \in VM
      BY DEF HearMetadata, UsesWhatIsSet, UsesSet, LocalTypes
    <3>. DEFINE h == Append(conv[c].request.history, n)
                e == Entry(incoming[n], conv[c].request.home, h, FALSE)
    <3>4. e \in EntryType
      <4>1. h \in Seq(Node)
        BY <3>2
      <4>. QED  BY <3>2, <3>3, <4>1, EntryTypes
    <3>5. metadatas' = [metadatas EXCEPT ![n] = Append(@, e)]
      BY <1>0, <2>2
    <3>. HIDE DEF e
    <3>6. \A m \in Node : metadatas[m] \in Seq(EntryType)
      BY DEF RecordTypes
    <3>7. \A m \in Node : metadatas'[m] = IF m = n THEN Append(metadatas[n], e) ELSE metadatas[m]
      BY <3>5 DEF RecordTypes
    <3>8. Append(metadatas[n], e) \in Seq(EntryType) /\ Len(Append(metadatas[n], e)) >= Len(metadatas[n])
      BY <3>4, <3>6
    <3>9. \A m \in Node : Len(metadatas[m]) \in Nat
      BY <3>6
    <3>. SUFFICES ASSUME NEW m \in Node
                  PROVE  metadatas'[m] \in Seq(EntryType) /\ Len(metadatas'[m]) >= Len(metadatas[m])
      OBVIOUS
    <3>10. CASE m = n
      BY <3>7, <3>8, <3>10
    <3>11. CASE m # n
      <4>1. metadatas'[m] = metadatas[m]
        BY <3>7, <3>11
      <4>. QED  BY <3>6, <3>9, <4>1
    <3>. QED  BY <3>10, <3>11
  <2>. QED  BY <2>1, <2>2
<1>d. \A m \in Node : Len(metadatas[m]) \in Nat /\ Len(metadatas'[m]) \in Nat
  BY <1>c DEF RecordTypes
<1>1. ThreadTypes'
  BY <1>0, <1>b DEF Crashes, ThreadTypes, ActorStep
<1>2. LocalTypes'
  BY <1>a, <1>b DEF LocalTypes
<1>3. RecordTypes'
  <2>1. metadatas' = [m \in Node |-> metadatas'[m]]
    BY <1>0 DEF RecordTypes
  <2>2. metadatas' \in [Node -> Seq(EntryType)]
    BY <1>c, <2>1
  <2>. QED  BY <1>a, <1>b, <2>2 DEF RecordTypes
<1>4. UsesWhatIsSet'
  <2>1. \A m \in Node : /\ actor'[m] = IF m = n THEN "poll" ELSE actor[m]
                        /\ m # n => incoming'[m] = incoming[m]
                        /\ main[m].len \in Nat
    BY <1>b DEF ThreadTypes, LocalTypes
  <2>2. ASSUME NEW m \in Node, main[m].len <= Len(metadatas[m])
        PROVE  main[m].len <= Len(metadatas'[m])
    <3>1. Len(metadatas'[m]) >= Len(metadatas[m])
      BY <1>c
    <3>2. main[m].len \in Nat
      BY <2>1
    <3>. QED  BY <1>d, <2>2, <3>1, <3>2
  <2>. SUFFICES ASSUME NEW m \in Node PROVE UsesSet(m)'
    BY DEF UsesWhatIsSet
  <2>. QED  BY <1>b, <2>1, <2>2 DEF UsesWhatIsSet, UsesSet
<1>5. SenderKept'
  BY <1>a, <1>b, SenderUntouched DEF RecordTypes
<1>. QED  BY <1>1, <1>2, <1>3, <1>4, <1>5

LEMMA HearOldKeepsTypes ==
    ASSUME ProtocolInv, NEW n \in Node, HearOld(n)
    PROVE  ProtocolInv'
<1>. USE DEF ProtocolInv, threads, locals
<1>1. ThreadTypes'
  BY DEF HearOld, ThreadTypes, ActorStep
<1>2. LocalTypes'
  BY DEF HearOld, LocalTypes
<1>3. RecordTypes'
  BY DEF HearOld, RecordTypes
<1>4. UsesWhatIsSet'
  BY DEF HearOld, UsesWhatIsSet, UsesSet, ThreadTypes, LocalTypes, RecordTypes
<1>5. SenderKept'
  BY DEF HearOld, SenderKept, LocalTypes, RecordTypes
<1>. QED  BY <1>1, <1>2, <1>3, <1>4, <1>5

LEMMA HearGoKeepsTypes ==
    ASSUME ProtocolInv, NEW n \in Node, HearGo(n)
    PROVE  ProtocolInv'
<1>. USE DEF ProtocolInv, threads, locals
<1>0. /\ conv' \in Seq(Conversation) /\ Len(conv') = Len(conv)
      /\ \A d \in DOMAIN conv : conv'[d].from = conv[d].from /\ conv'[d].to = conv[d].to
      /\ sender[n] > 0 /\ vm_name[n] # None
  <2>1. /\ Answered(n) # {} /\ sender[n] = Min(Answered(n))
        /\ Answered(n) \subseteq DOMAIN conv /\ Answered(n) \subseteq Nat
    BY DEF HearGo, HearsSender, Answered, RecordTypes
  <2>2. sender[n] \in DOMAIN conv
    BY <2>1, MinIsElement
  <2>3. conv[sender[n]].request \in RequestType
    BY <2>2, ConvTypes DEF RecordTypes
  <2>4. sender[n] > 0
    BY <2>2 DEF RecordTypes
  <2>5. vm_name[n] # None
    BY <2>4 DEF SenderKept
  <2>. QED  BY <2>2, <2>3, <2>4, <2>5, ConvUpdated DEF HearGo, RecordTypes
<1>a. \/ actor' = [actor EXCEPT ![n] = "launch"] /\ UNCHANGED session
      \/ /\ actor' = [actor EXCEPT ![n] = "teleport"]
         /\ \E e \in EntryType : session' = [session EXCEPT ![n] = e]
  <2>1. metadatas[n] \in Seq(EntryType)
    BY DEF RecordTypes
  <2>. QED  BY <2>1, FoundIsElement DEF HearGo
<1>b. UNCHANGED <<process, typed, main, pipe, listening, vm_name, target_ip,
                  sender, incoming, metadatas, runs, teleporter, commands>>
  BY DEF HearGo
<1>1. ThreadTypes'
  BY <1>a, <1>b DEF ThreadTypes, ActorStep
<1>2. LocalTypes'
  BY <1>0, <1>a, <1>b DEF LocalTypes
<1>3. RecordTypes'
  BY <1>0, <1>b DEF RecordTypes
<1>4. UsesWhatIsSet'
  <2>1. \A m \in Node : /\ IF m = n THEN actor'[m] \in {"launch", "teleport"}
                                   ELSE actor'[m] = actor[m]
                        /\ m # n => session'[m] = session[m]
                        /\ actor'[n] = "teleport" => session'[n] # None
    BY <1>a, NoneIsNoEntry DEF ThreadTypes, LocalTypes
  <2>. QED  BY <1>0, <1>b, <2>1 DEF UsesWhatIsSet, UsesSet
<1>5. SenderKept'
  BY <1>0, <1>b, SenderUntouched DEF RecordTypes
<1>. QED  BY <1>1, <1>2, <1>3, <1>4, <1>5

LEMMA LaunchVMKeepsTypes ==
    ASSUME ProtocolInv, NEW n \in Node, LaunchVM(n)
    PROVE  ProtocolInv'
<1>. USE DEF ProtocolInv, threads, locals
<1>. DEFINE e == Entry(vm_name[n], n, <<n>>, FALSE)
<1>0. e \in EntryType /\ vm_name[n] \in VM /\ sender[n] > 0
  <2>1. vm_name[n] \in VM /\ sender[n] > 0
    BY DEF LaunchVM, UsesWhatIsSet, UsesSet, LocalTypes
  <2>2. <<n>> \in Seq(Node)
    OBVIOUS
  <2>. QED  BY <2>1, <2>2, EntryTypes
<1>a. \/ /\ runs' = [runs EXCEPT ![vm_name[n]] = @ \cup {n}]
         /\ metadatas' = [metadatas EXCEPT ![n] = Append(@, e)]
         /\ session' = [session EXCEPT ![n] = e]
         /\ actor' = [actor EXCEPT ![n] = "teleport"]
         /\ UNCHANGED process
      \/ Crashes(n) /\ UNCHANGED <<runs, metadatas, session, actor>>
  BY DEF LaunchVM
<1>b. UNCHANGED <<typed, main, pipe, listening, vm_name, target_ip, sender,
                  incoming, conv, commands>>
  BY DEF LaunchVM
<1>. HIDE DEF e
<1>c. /\ metadatas' \in [Node -> Seq(EntryType)]
      /\ \A m \in Node : Len(metadatas'[m]) >= Len(metadatas[m])
  <2>1. /\ \A m \in Node : metadatas[m] \in Seq(EntryType) /\ Len(metadatas[m]) \in Nat
        /\ Append(metadatas[n], e) \in Seq(EntryType)
        /\ Len(Append(metadatas[n], e)) >= Len(metadatas[n])
    BY <1>0 DEF RecordTypes
  <2>2. \/ metadatas' = metadatas
        \/ metadatas' = [metadatas EXCEPT ![n] = Append(metadatas[n], e)]
    BY <1>a
  <2>3. metadatas \in [Node -> Seq(EntryType)]
    BY DEF RecordTypes
  <2>4. CASE metadatas' = metadatas
    <3>1. \A m \in Node : Len(metadatas[m]) >= Len(metadatas[m])
      BY <2>1
    <3>. QED  BY <2>3, <2>4, <3>1
  <2>5. CASE metadatas' = [metadatas EXCEPT ![n] = Append(metadatas[n], e)]
    <3>1. \A m \in Node : metadatas'[m] = IF m = n THEN Append(metadatas[n], e) ELSE metadatas[m]
      BY <2>3, <2>5
    <3>2. \A m \in Node : Len(metadatas[m]) >= Len(metadatas[m])
      BY <2>1
    <3>3. metadatas' \in [Node -> Seq(EntryType)]
      BY <2>1, <2>3, <2>5
    <3>. QED  BY <2>1, <3>1, <3>2, <3>3
  <2>. QED  BY <2>2, <2>4, <2>5
<1>d. \A m \in Node : /\ Len(metadatas[m]) \in Nat /\ Len(metadatas'[m]) \in Nat
                      /\ main[m].len \in Nat
  BY <1>c DEF RecordTypes, ThreadTypes
<1>1. ThreadTypes'
  BY <1>a, <1>b DEF Crashes, ThreadTypes, ActorStep
<1>2. LocalTypes'
  <2>1. teleporter[n] \ {vm_name[n]} \in SUBSET VM
    BY DEF LocalTypes
  <2>2. teleporter' = teleporter \/ teleporter' = [teleporter EXCEPT ![n] = @ \ {vm_name[n]}]
    BY DEF LaunchVM
  <2>3. teleporter' \in [Node -> SUBSET VM]
    BY <2>1, <2>2 DEF LocalTypes
  <2>. QED  BY <1>0, <1>a, <1>b, <2>3 DEF LocalTypes
<1>3. RecordTypes'
  <2>1. runs' \in [VM -> SUBSET Node]
    <3>1. runs[vm_name[n]] \cup {n} \in SUBSET Node
      BY <1>0 DEF RecordTypes
    <3>. QED  BY <1>a, <3>1 DEF RecordTypes
  <2>. QED  BY <1>b, <1>c, <2>1 DEF RecordTypes
<1>4. UsesWhatIsSet'
  <2>1. \A m \in Node : /\ actor'[m] # actor[m] => m = n /\ actor'[n] = "teleport"
                        /\ actor'[m] = "teleport" => session'[m] # None
    BY <1>0, <1>a, NoneIsNoEntry DEF ThreadTypes, LocalTypes, UsesWhatIsSet, UsesSet
  <2>2. ASSUME NEW m \in Node, main[m].len <= Len(metadatas[m])
        PROVE  main[m].len <= Len(metadatas'[m])
    <3>1. Len(metadatas'[m]) >= Len(metadatas[m])
      BY <1>c
    <3>. QED  BY <1>d, <2>2, <3>1
  <2>3. vm_name[n] # None
    BY <1>0, TeleportAssumption
  <2>. QED  BY <1>0, <1>b, <2>1, <2>2, <2>3 DEF UsesWhatIsSet, UsesSet
<1>5. SenderKept'
  BY <1>b, SenderUntouched DEF RecordTypes
<1>. QED  BY <1>1, <1>2, <1>3, <1>4, <1>5

LEMMA ArriveKeepsTypes ==
    ASSUME ProtocolInv, NEW n \in Node, Arrive(n)
    PROVE  ProtocolInv'
<1>. USE DEF ProtocolInv, threads, locals
<1>. DEFINE e == session[n]
            t == target_ip[n]
<1>0. /\ e \in EntryType /\ sender[n] \in DOMAIN conv /\ t \in Node /\ t # n
      /\ actor[t] = "incoming" /\ e.vm \in VM
  <2>1. e \in EntryType /\ sender[n] \in DOMAIN conv
    BY DEF Arrive, UsesWhatIsSet, UsesSet, LocalTypes, RecordTypes
  <2>. QED  BY <2>1 DEF Arrive, Expected, EntryType
<1>a. /\ runs' = [runs EXCEPT ![e.vm] = (@ \ {n}) \cup {t}]
      /\ actor' = [actor EXCEPT ![n] = "poll", ![t] = "metadata"]
      /\ conv' = [conv EXCEPT ![sender[n]].request = Metadata(e)]
      /\ metadatas' = [metadatas EXCEPT ![n] = Release(@, e)]
      /\ session' = [session EXCEPT ![n] = None]
      /\ UNCHANGED <<process, typed, main, pipe, listening, vm_name, target_ip,
                     sender, incoming, teleporter, commands>>
  BY DEF Arrive
<1>b. /\ conv' \in Seq(Conversation) /\ Len(conv') = Len(conv)
      /\ \A d \in DOMAIN conv : conv'[d].from = conv[d].from /\ conv'[d].to = conv[d].to
  <2>1. Metadata(e) \in RequestType /\ conv[sender[n]] \in Conversation
    BY <1>0, MessageKinds DEF RecordTypes
  <2>2. conv[sender[n]].reply \in {"none", "signal", "2"}
    BY <2>1 DEF Conversation
  <2>. QED  BY <1>0, <1>a, <2>1, <2>2, ConvUpdated DEF RecordTypes
<1>c. /\ metadatas' \in [Node -> Seq(EntryType)]
      /\ \A m \in Node : Len(metadatas'[m]) = Len(metadatas[m])
  BY <1>0, <1>a, ReleaseKeeps DEF RecordTypes
<1>. HIDE DEF e, t
<1>1. ThreadTypes'
  BY <1>0, <1>a DEF ThreadTypes, ActorStep
<1>2. LocalTypes'
  BY <1>a, <1>b DEF LocalTypes
<1>3. RecordTypes'
  BY <1>0, <1>a, <1>b, <1>c DEF RecordTypes
<1>4. UsesWhatIsSet'
  <2>1. \A m \in Node :
            /\ actor'[m] = IF m = t THEN "metadata" ELSE IF m = n THEN "poll" ELSE actor[m]
            /\ m # n => session'[m] = session[m]
    BY <1>0, <1>a DEF ThreadTypes, LocalTypes
  <2>2. incoming[t] # None
    BY <1>0 DEF UsesWhatIsSet, UsesSet
  <2>3. \A m \in Node : main[m].len <= Len(metadatas[m]) => main[m].len <= Len(metadatas'[m])
    BY <1>c
  <2>. SUFFICES ASSUME NEW m \in Node PROVE UsesSet(m)'
    BY DEF UsesWhatIsSet
  <2>4. UsesSet(m)
    BY DEF UsesWhatIsSet
  <2>5. CASE m = t
    <3>1. actor'[m] = "metadata" /\ incoming'[m] # None
      BY <1>a, <2>1, <2>2, <2>5
    <3>. QED  BY <1>a, <2>3, <2>4, <3>1 DEF UsesSet
  <2>7. CASE m = n
    <3>1. actor'[m] = "poll"
      BY <1>0, <2>1, <2>7
    <3>. QED  BY <1>a, <2>3, <2>4, <3>1 DEF UsesSet
  <2>6. CASE m # t /\ m # n
    BY <1>a, <2>1, <2>3, <2>4, <2>6 DEF UsesSet
  <2>. QED  BY <2>5, <2>6, <2>7
<1>5. SenderKept'
  BY <1>a, <1>b, SenderUntouched DEF RecordTypes
<1>. QED  BY <1>1, <1>2, <1>3, <1>4, <1>5

LEMMA FailKeepsTypes ==
    ASSUME ProtocolInv, NEW n \in Node, Fail(n)
    PROVE  ProtocolInv'
<1>. USE DEF ProtocolInv, threads, locals
<1>1. ThreadTypes'
  BY DEF Fail, ThreadTypes, ActorStep
<1>2. LocalTypes'
  BY DEF Fail, LocalTypes
<1>3. RecordTypes'
  BY DEF Fail, RecordTypes
<1>4. UsesWhatIsSet'
  BY DEF Fail, UsesWhatIsSet, UsesSet, ThreadTypes, LocalTypes, RecordTypes
<1>5. SenderKept'
  BY DEF Fail, SenderKept, LocalTypes, RecordTypes
<1>. QED  BY <1>1, <1>2, <1>3, <1>4, <1>5

LEMMA FailAtOnceKeepsTypes ==
    ASSUME ProtocolInv, NEW n \in Node, FailAtOnce(n)
    PROVE  ProtocolInv'
<1>. USE DEF ProtocolInv, threads, locals
<1>1. ThreadTypes'
  BY DEF FailAtOnce, Crashes, ThreadTypes
<1>2. LocalTypes'
  BY DEF FailAtOnce, LocalTypes
<1>3. RecordTypes'
  BY DEF FailAtOnce, RecordTypes
<1>4. UsesWhatIsSet'
  BY DEF FailAtOnce, UsesWhatIsSet, UsesSet, ThreadTypes, LocalTypes, RecordTypes
<1>5. SenderKept'
  BY DEF FailAtOnce, SenderKept, LocalTypes, RecordTypes
<1>. QED  BY <1>1, <1>2, <1>3, <1>4, <1>5

(* Every step.                                                             *)
LEMMA ProtocolStep ==
    ASSUME ProtocolInv, [Next]_vars
    PROVE  ProtocolInv'
<1>1. CASE UNCHANGED vars
  <2>1. ThreadTypes' /\ LocalTypes' /\ RecordTypes'
    BY <1>1 DEF vars, ProtocolInv, ThreadTypes, LocalTypes, RecordTypes
  <2>2. UsesWhatIsSet' /\ SenderKept'
    BY <1>1 DEF vars, ProtocolInv, UsesWhatIsSet, UsesSet, SenderKept
  <2>. QED  BY <2>1, <2>2 DEF ProtocolInv
<1>2. ASSUME NEW n \in Node, NEW command \in TeleportCommand \cup StartCommand,
             Type(n, command)
      PROVE  ProtocolInv'
  BY <1>2, TypeKeepsTypes
<1>3. ASSUME NEW n \in Node, MainThread(n) PROVE ProtocolInv'
  BY <1>3, ReceiveTeleportKeepsTypes, ReceiveStartKeepsTypes, StartVMKeepsTypes,
     CountMetadataKeepsTypes, AddStartedKeepsTypes DEF MainThread
<1>4. ASSUME NEW n \in Node, ActorThread(n) PROVE ProtocolInv'
  BY <1>4, CommandKeepsTypes, CommandTermKeepsTypes, SendNameKeepsTypes,
     HearAnnounceKeepsTypes, HearNameKeepsTypes, HearMetadataKeepsTypes,
     HearOldKeepsTypes, HearGoKeepsTypes, LaunchVMKeepsTypes, ArriveKeepsTypes,
     FailKeepsTypes, FailAtOnceKeepsTypes DEF ActorThread
<1>. QED  BY <1>1, <1>2, <1>3, <1>4 DEF Next

(* No step reads what was never set: every variable has a value of its     *)
(* type (executer.c 128-459).                                              *)
THEOREM ProtocolInvariant == Spec => []ProtocolInv
<1>1. Init => ProtocolInv
  BY ProtocolInitially
<1>2. ProtocolInv /\ [Next]_vars => ProtocolInv'
  BY ProtocolStep
<1>. QED  BY <1>1, <1>2, PTL DEF Spec

(* Every variable of the executers, their commands and conversations keeps *)
(* its type.                                                               *)
THEOREM TeleportTypeCorrect == Spec => []TypeOK
<1>. QED  BY ProtocolInvariant, TypesFromProtocol, PTL

-----------------------------------------------------------------------------
(* Machines that main started stay started.                                *)
LEMMA StartedStays ==
    ASSUME ProtocolInv, [Next]_vars, NEW p \in Node, main'[p].vm = None
    PROVE  NoneStarted(p)
<1>. SUFFICES ASSUME main'[p].vm # main[p].vm PROVE FALSE
  BY DEF NoneStarted
<1>. USE DEF ProtocolInv, threads, locals
<1>1. CASE UNCHANGED vars
  BY <1>1 DEF vars
<1>2. ASSUME NEW n \in Node, NEW command \in TeleportCommand \cup StartCommand,
             Type(n, command)
      PROVE  FALSE
  BY <1>2 DEF Type
<1>3. ASSUME NEW n \in Node, MainThread(n) PROVE FALSE
  <2>1. CASE ReceiveTeleport(n)
    BY <2>1 DEF ReceiveTeleport
  <2>2. CASE ReceiveStart(n)
    <3>1. typed[n].vm \in VM /\ None \notin VM
      BY <2>2, CommandKinds, TeleportAssumption DEF ReceiveStart
    <3>2. main'[p] = IF p = n THEN [step |-> "launch", vm |-> typed[n].vm, len |-> 0]
                              ELSE main[p]
      BY <2>2 DEF ReceiveStart, ThreadTypes
    <3>. QED  BY <3>1, <3>2 DEF NoneStarted
  <2>3. CASE StartVM(n)
    <3>1. \/ main' = main \/ MainGoes(n, "count")
          \/ MainGoes(n, "wait") \/ MainGoes(n, "exiting")
      BY <2>3 DEF StartVM
    <3>. QED  BY <3>1, MainWent
  <2>4. CASE CountMetadata(n)
    <3>1. main[n] \in [step : {"idle", "launch", "wait", "count", "add", "exiting"},
                       vm : VM \cup {None}, len : Nat]
      BY DEF ThreadTypes
    <3>2. main'[p] = IF p = n THEN [main[n] EXCEPT !.step = "add", !.len = Len(metadatas[n])]
                              ELSE main[p]
      BY <2>4 DEF CountMetadata, ThreadTypes
    <3>. QED  BY <3>1, <3>2
  <2>5. CASE AddStarted(n)
    <3>1. MainGoes(n, "idle")
      BY <2>5 DEF AddStarted
    <3>. QED  BY <3>1, MainWent
  <2>. QED  BY <1>3, <2>1, <2>2, <2>3, <2>4, <2>5 DEF MainThread
<1>4. ASSUME NEW n \in Node, ActorThread(n) PROVE FALSE
  <2>1. main' = main
    BY <1>4 DEF ActorThread, Command, CommandTerm, SendName, HearAnnounce, HearName,
       HearMetadata, HearOld, HearGo, LaunchVM, Arrive, Fail, FailAtOnce
  <2>. QED  BY <2>1
<1>. QED  BY <1>1, <1>2, <1>3, <1>4 DEF Next

(* Which steps change metadatas.                                           *)
LEMMA MetadatasChange ==
    ASSUME [Next]_vars
    PROVE  \/ metadatas' = metadatas
           \/ \E n \in Node : AddStarted(n) \/ HearMetadata(n) \/ LaunchVM(n) \/ Arrive(n)
<1>. USE DEF threads, locals
<1>1. CASE UNCHANGED vars
  BY <1>1 DEF vars
<1>2. ASSUME NEW n \in Node, NEW command \in TeleportCommand \cup StartCommand,
             Type(n, command)
      PROVE  metadatas' = metadatas
  BY <1>2 DEF Type
<1>3. ASSUME NEW n \in Node, MainThread(n) PROVE metadatas' = metadatas \/ AddStarted(n)
  BY <1>3 DEF MainThread, ReceiveTeleport, ReceiveStart, StartVM, CountMetadata
<1>4. ASSUME NEW n \in Node, ActorThread(n)
      PROVE  metadatas' = metadatas \/ HearMetadata(n) \/ LaunchVM(n) \/ Arrive(n)
  BY <1>4 DEF ActorThread, Command, CommandTerm, SendName, HearAnnounce, HearName,
     HearOld, HearGo, Fail, FailAtOnce
<1>. QED  BY <1>1, <1>2, <1>3, <1>4 DEF Next

(* The elements the actor adds.                                            *)
LEMMA HeardIsEntry ==
    ASSUME ProtocolInv, NEW n \in Node, HearMetadata(n)
    PROVE  \/ metadatas' = metadatas
           \/ \E c \in DOMAIN conv :
                 /\ process[n] # "gone" /\ IsMetadata(c) /\ conv[c].to = n
                 /\ incoming[n] \in VM /\ conv[c].request.home \in Node
                 /\ conv[c].request.history \in Seq(Node)
                 /\ metadatas' = [metadatas EXCEPT ![n] = Append(@,
                      Entry(incoming[n], conv[c].request.home,
                            Append(conv[c].request.history, n), FALSE))]
<1>1. incoming[n] \in VM
  BY DEF HearMetadata, ProtocolInv, UsesWhatIsSet, UsesSet, LocalTypes
<1>2. \A c \in DOMAIN conv : conv[c].request \in RequestType
  BY ConvTypes DEF ProtocolInv, RecordTypes
<1>. QED  BY <1>1, <1>2, MessageKinds DEF HearMetadata, Waiting, IsMetadata

LEMMA HeardAppends ==
    ASSUME ProtocolInv, NEW n \in Node, HearMetadata(n)
    PROVE  \/ metadatas'[n] = metadatas[n]
           \/ \E e \in EntryType : metadatas'[n] = Append(metadatas[n], e)
<1>1. CASE metadatas' = metadatas
  BY <1>1
<1>2. CASE metadatas' # metadatas
  <2>1. PICK c \in DOMAIN conv :
            /\ incoming[n] \in VM /\ conv[c].request.home \in Node
            /\ conv[c].request.history \in Seq(Node)
            /\ metadatas' = [metadatas EXCEPT ![n] = Append(@,
                 Entry(incoming[n], conv[c].request.home,
                       Append(conv[c].request.history, n), FALSE))]
    BY <1>2, HeardIsEntry
  <2>2. Append(conv[c].request.history, n) \in Seq(Node)
    BY <2>1
  <2>3. Entry(incoming[n], conv[c].request.home, Append(conv[c].request.history, n), FALSE)
          \in EntryType
    BY <2>1, <2>2, EntryTypes
  <2>. QED  BY <2>1, <2>3 DEF ProtocolInv, RecordTypes
<1>. QED  BY <1>1, <1>2

LEMMA LaunchedAppends ==
    ASSUME ProtocolInv, NEW n \in Node, LaunchVM(n)
    PROVE  \/ metadatas'[n] = metadatas[n]
           \/ /\ Entry(vm_name[n], n, <<n>>, FALSE) \in EntryType
              /\ metadatas'[n] = Append(metadatas[n], Entry(vm_name[n], n, <<n>>, FALSE))
<1>1. vm_name[n] \in VM /\ <<n>> \in Seq(Node)
  BY DEF LaunchVM, ProtocolInv, UsesWhatIsSet, UsesSet, LocalTypes
<1>2. Entry(vm_name[n], n, <<n>>, FALSE) \in EntryType
  BY <1>1, EntryTypes
<1>. QED  BY <1>2 DEF LaunchVM, ProtocolInv, RecordTypes

LEMMA AppendKeepsRecords ==
    ASSUME NEW md \in Seq(EntryType), NEW e \in EntryType
    PROVE  /\ \A v, home, history : HasRecord(md, v, home, history)
                                      => HasRecord(Append(md, e), v, home, history)
           /\ HasRecord(Append(md, e), e.vm, e.home, e.history)
           /\ \A k \in DOMAIN Append(md, e) :
                 Append(md, e)[k] = e \/ (k \in DOMAIN md /\ Append(md, e)[k] = md[k])
<1>1. /\ \A k \in DOMAIN md : k \in DOMAIN Append(md, e) /\ Append(md, e)[k] = md[k]
      /\ Len(md) + 1 \in DOMAIN Append(md, e) /\ Append(md, e)[Len(md) + 1] = e
      /\ \A k \in DOMAIN Append(md, e) : k \in DOMAIN md \/ k = Len(md) + 1
  OBVIOUS
<1>. QED  BY <1>1 DEF HasRecord

LEMMA ReleaseKeepsRecords ==
    ASSUME NEW md \in Seq(EntryType), NEW e \in EntryType
    PROVE  \A v, home, history : HasRecord(md, v, home, history)
                                   => HasRecord(Release(md, e), v, home, history)
<1>. QED  BY ReleaseKeeps DEF HasRecord

(* Records stay, wherever main has started no machine.                     *)
LEMMA RecordsKept ==
    ASSUME ProtocolInv, [Next]_vars, NEW p \in Node, main'[p].vm = None
    PROVE  /\ NoneStarted(p)
           /\ \A v, home, history : HasRecord(metadatas[p], v, home, history)
                                      => HasRecord(metadatas'[p], v, home, history)
<1>1. NoneStarted(p)
  BY StartedStays
<1>2. /\ metadatas \in [Node -> Seq(EntryType)]
      /\ metadatas[p] \in Seq(EntryType)
  BY DEF ProtocolInv, RecordTypes
<1>3. CASE metadatas'[p] = metadatas[p]
  BY <1>1, <1>3
<1>4. ASSUME metadatas'[p] # metadatas[p]
      PROVE  AddStarted(p) \/ HearMetadata(p) \/ LaunchVM(p) \/ Arrive(p)
  <2>1. PICK n \in Node : AddStarted(n) \/ HearMetadata(n) \/ LaunchVM(n) \/ Arrive(n)
    BY <1>4, MetadatasChange
  <2>2. n # p => metadatas'[p] = metadatas[p]
    BY <1>2, <2>1 DEF AddStarted, HearMetadata, LaunchVM, Arrive
  <2>. QED  BY <1>4, <2>1, <2>2
<1>5. CASE AddStarted(p)
  <2>1. main[p].step = "add"
    BY <1>5 DEF AddStarted, MainAt
  <2>. QED  BY <1>1, <2>1 DEF ProtocolInv, UsesWhatIsSet, UsesSet, NoneStarted
<1>6. CASE HearMetadata(p) \/ LaunchVM(p)
  <2>1. metadatas'[p] = metadatas[p] \/ \E e \in EntryType : metadatas'[p] = Append(metadatas[p], e)
    BY <1>6, HeardAppends, LaunchedAppends
  <2>. QED  BY <1>1, <1>2, <2>1, AppendKeepsRecords
<1>7. CASE Arrive(p)
  <2>1. session[p] \in EntryType
    BY <1>7 DEF Arrive, ProtocolInv, UsesWhatIsSet, UsesSet, LocalTypes
  <2>2. metadatas'[p] = Release(metadatas[p], session[p])
    BY <1>2, <1>7 DEF Arrive
  <2>. QED  BY <1>1, <1>2, <2>1, <2>2, ReleaseKeepsRecords
<1>. QED  BY <1>3, <1>4, <1>5, <1>6, <1>7

-----------------------------------------------------------------------------
(* What every step does: it keeps the records and makes no process anew.   *)
LEMMA ProcessesOnlyGo ==
    ASSUME ProtocolInv, [Next]_vars, NEW p \in Node, process'[p] # "gone"
    PROVE  process[p] # "gone"
<1>. USE DEF ProtocolInv, ThreadTypes, threads, locals, Exits, Crashes, Halts
<1>1. CASE UNCHANGED vars
  BY <1>1 DEF vars
<1>2. ASSUME NEW n \in Node, NEW command \in TeleportCommand \cup StartCommand,
             Type(n, command)
      PROVE  process[p] # "gone"
  BY <1>2 DEF Type
<1>3. ASSUME NEW n \in Node, MainThread(n) PROVE process[p] # "gone"
  BY <1>3 DEF MainThread, ReceiveTeleport, ReceiveStart, StartVM, CountMetadata, AddStarted
<1>4. ASSUME NEW n \in Node, ActorThread(n) PROVE process[p] # "gone"
  <2>1. process' = process \/ Crashes(n) \/ Fail(n) \/ (process[n] # "gone" /\ Exits(n))
    BY <1>4 DEF ActorThread, Command, CommandTerm, SendName, HearAnnounce, HearName,
       HearMetadata, HearOld, HearGo, LaunchVM, Arrive, FailAtOnce
  <2>2. CASE Fail(n)
    BY <2>2 DEF Fail
  <2>. QED  BY <2>1, <2>2
<1>. QED  BY <1>1, <1>2, <1>3, <1>4 DEF Next

(* What an element says, after the step.                                   *)
TracedNext(n, e) ==
    /\ Journey(n, e.home, e.history)
    /\ Len(e.history) > 1 =>
          LET p == e.history[Len(e.history) - 1] IN
          main'[p].vm = None => HasRecord(metadatas'[p], e.vm, e.home,
                               SubSeq(e.history, 1, Len(e.history) - 1))

LEMMA TracedStays ==
    ASSUME ProtocolInv, [Next]_vars, NEW n \in Node, NEW e \in EntryType, Traced(n, e)
    PROVE  TracedNext(n, e)
<1>1. e.history \in Seq(Node)
  BY DEF EntryType
<1>. DEFINE p == e.history[Len(e.history) - 1]
            h == SubSeq(e.history, 1, Len(e.history) - 1)
<1>2. ASSUME Len(e.history) > 1, main'[p].vm = None
      PROVE  HasRecord(metadatas'[p], e.vm, e.home, h)
  <2>1. p \in Node
    BY <1>1, <1>2
  <2>2. RecordedAt(p, e.vm, e.home, h)
    BY <1>2 DEF Traced
  <2>. HIDE DEF p, h
  <2>. QED  BY <1>2, <2>1, <2>2, RecordsKept DEF RecordedAt, NoneStarted
<1>. QED  BY <1>2 DEF TracedNext, Traced

(* A journey that begins here.                                             *)
LEMMA JourneyBegins ==
    ASSUME NEW n \in Node, NEW v, NEW freed
    PROVE  TracedNext(n, Entry(v, n, <<n>>, freed))
<1>. DEFINE e == Entry(v, n, <<n>>, freed)
<1>1. e.home = n /\ e.history = <<n>>
  BY DEF Entry
<1>. HIDE DEF e
<1>2. Len(e.history) = 1 /\ e.history[1] = n
  BY <1>1
<1>3. TracedNext(n, e)
  BY <1>1, <1>2 DEF TracedNext, Journey
<1>. QED  BY <1>3 DEF e

(* A journey that goes on here.                                            *)
LEMMA JourneyGoesOn ==
    ASSUME NEW n \in Node, NEW p \in Node, NEW v, NEW home, NEW h \in Seq(Node), NEW freed,
           Journey(p, home, h),
           main'[p].vm = None => HasRecord(metadatas'[p], v, home, h)
    PROVE  TracedNext(n, Entry(v, home, Append(h, n), freed))
<1>. DEFINE e == Entry(v, home, Append(h, n), freed)
<1>1. e.vm = v /\ e.home = home /\ e.history = Append(h, n)
  BY DEF Entry
<1>2. /\ Len(h) > 0 /\ h[1] = home /\ h[Len(h)] = p
  BY DEF Journey
<1>3. /\ Len(Append(h, n)) = Len(h) + 1
      /\ Append(h, n)[1] = home /\ Append(h, n)[Len(h) + 1] = n
      /\ Append(h, n)[Len(h)] = p
  BY <1>2
<1>4. SubSeq(Append(h, n), 1, Len(h)) = h
  BY <1>2
<1>. HIDE DEF e
<1>6. Journey(n, e.home, e.history)
  BY <1>1, <1>2, <1>3 DEF Journey
<1>7. Len(e.history) - 1 = Len(h)
  <2>1. Len(e.history) = Len(h) + 1
    BY <1>1, <1>3
  <2>2. Len(h) \in Nat
    OBVIOUS
  <2>. QED  BY <2>1, <2>2
<1>8. /\ e.history[Len(e.history) - 1] = p
      /\ SubSeq(e.history, 1, Len(e.history) - 1) = h
  BY <1>1, <1>3, <1>4, <1>7
<1>9. TracedNext(n, e)
  BY <1>1, <1>6, <1>8 DEF TracedNext
<1>. QED  BY <1>9 DEF e

LEMMA ElementsStep ==
    ASSUME ProtocolInv, ElementsKept, MetadataKept, [Next]_vars
    PROVE  ElementsKept'
<1>. SUFFICES ASSUME NEW n \in Node, NEW k \in DOMAIN metadatas'[n]
              PROVE  TracedNext(n, metadatas'[n][k])
  BY DEF ElementsKept, Traced, TracedNext, RecordedAt, NoneStarted
<1>1. /\ metadatas \in [Node -> Seq(EntryType)]
      /\ metadatas[n] \in Seq(EntryType)
      /\ \A j \in DOMAIN metadatas[n] : metadatas[n][j] \in EntryType
  BY DEF ProtocolInv, RecordTypes
<1>2. \A j \in DOMAIN metadatas[n] : TracedNext(n, metadatas[n][j])
  BY <1>1, TracedStays DEF ElementsKept
<1>3. CASE metadatas'[n] = metadatas[n]
  BY <1>2, <1>3
<1>4. ASSUME metadatas'[n] # metadatas[n]
      PROVE  AddStarted(n) \/ HearMetadata(n) \/ LaunchVM(n) \/ Arrive(n)
  <2>1. PICK m \in Node : AddStarted(m) \/ HearMetadata(m) \/ LaunchVM(m) \/ Arrive(m)
    BY <1>4, MetadatasChange
  <2>2. m # n => metadatas'[n] = metadatas[n]
    BY <1>1, <2>1 DEF AddStarted, HearMetadata, LaunchVM, Arrive
  <2>. QED  BY <1>4, <2>1, <2>2
<1>5. CASE AddStarted(n)
  <2>. DEFINE md == metadatas[n]
              len == main[n].len
              e == Entry(main[n].vm, n, <<n>>, TRUE)
  <2>1. main[n].vm \in VM /\ len \in Nat /\ len <= Len(md)
    <3>1. main[n].step = "add"
      BY <1>5 DEF AddStarted, MainAt
    <3>2. main[n].vm # None /\ len <= Len(md)
      BY <3>1 DEF ProtocolInv, UsesWhatIsSet, UsesSet
    <3>3. main[n] \in [step : {"idle", "launch", "wait", "count", "add", "exiting"},
                       vm : VM \cup {None}, len : Nat]
      BY DEF ProtocolInv, ThreadTypes
    <3>. QED  BY <3>2, <3>3
  <2>2. e \in EntryType
    <3>1. <<n>> \in Seq(Node)
      OBVIOUS
    <3>. QED  BY <2>1, <3>1, EntryTypes
  <2>3. TracedNext(n, e)
    BY JourneyBegins
  <2>4. PICK new \in {Append(md, e), md, Append(SubSeq(md, 1, len), e)} : metadatas'[n] = new
    BY <1>1, <1>5 DEF AddStarted
  <2>. HIDE DEF e
  <2>5. CASE new = Append(md, e)
    BY <1>1, <1>2, <2>2, <2>3, <2>4, <2>5, AppendKeepsRecords
  <2>6. CASE new = Append(SubSeq(md, 1, len), e)
    <3>1. /\ SubSeq(md, 1, len) \in Seq(EntryType)
          /\ DOMAIN SubSeq(md, 1, len) \subseteq DOMAIN md
          /\ \A j \in DOMAIN SubSeq(md, 1, len) : SubSeq(md, 1, len)[j] = md[j]
      BY <1>1, <2>1
    <3>2. \A j \in DOMAIN Append(SubSeq(md, 1, len), e) :
             \/ Append(SubSeq(md, 1, len), e)[j] = e
             \/ /\ j \in DOMAIN SubSeq(md, 1, len)
                /\ Append(SubSeq(md, 1, len), e)[j] = SubSeq(md, 1, len)[j]
      BY <2>2, <3>1, AppendKeepsRecords
    <3>. QED  BY <1>2, <2>3, <2>4, <2>6, <3>1, <3>2
  <2>. QED  BY <1>3, <2>4, <2>5, <2>6
<1>6. CASE HearMetadata(n)
  <2>1. CASE metadatas' = metadatas
    BY <1>3, <2>1
  <2>2. CASE metadatas' # metadatas
    <3>1. PICK c \in DOMAIN conv :
              /\ process[n] # "gone" /\ IsMetadata(c) /\ conv[c].to = n
              /\ incoming[n] \in VM /\ conv[c].request.home \in Node
              /\ conv[c].request.history \in Seq(Node)
              /\ metadatas' = [metadatas EXCEPT ![n] = Append(@,
                   Entry(incoming[n], conv[c].request.home,
                         Append(conv[c].request.history, n), FALSE))]
      BY <1>6, <2>2, HeardIsEntry
    <3>. DEFINE p == conv[c].from
                home == conv[c].request.home
                h == conv[c].request.history
                e == Entry(incoming[n], home, Append(h, n), FALSE)
    <3>2. Journey(p, home, h) /\ RecordedAt(p, incoming[n], home, h)
      BY <3>1 DEF MetadataKept
    <3>3. p \in Node
      BY ConvTypes DEF ProtocolInv, RecordTypes
    <3>4. main'[p].vm = None => HasRecord(metadatas'[p], incoming[n], home, h)
      BY <3>2, <3>3, RecordsKept DEF RecordedAt, NoneStarted
    <3>5. TracedNext(n, e)
      BY <3>1, <3>2, <3>3, <3>4, JourneyGoesOn
    <3>6. e \in EntryType
      <4>1. Append(h, n) \in Seq(Node)
        BY <3>1
      <4>. QED  BY <3>1, <4>1, EntryTypes
    <3>7. metadatas'[n] = Append(metadatas[n], e)
      BY <1>1, <3>1
    <3>. HIDE DEF e
    <3>. QED  BY <1>1, <1>2, <3>5, <3>6, <3>7, AppendKeepsRecords
  <2>. QED  BY <2>1, <2>2
<1>7. CASE LaunchVM(n)
  <2>. DEFINE e == Entry(vm_name[n], n, <<n>>, FALSE)
  <2>1. metadatas'[n] = metadatas[n] \/ (e \in EntryType /\ metadatas'[n] = Append(metadatas[n], e))
    BY <1>7, LaunchedAppends
  <2>2. TracedNext(n, e)
    BY JourneyBegins
  <2>. HIDE DEF e
  <2>. QED  BY <1>1, <1>2, <1>3, <2>1, <2>2, AppendKeepsRecords
<1>8. CASE Arrive(n)
  <2>1. session[n] \in EntryType
    BY <1>8 DEF Arrive, ProtocolInv, UsesWhatIsSet, UsesSet, LocalTypes
  <2>2. metadatas'[n] = Release(metadatas[n], session[n])
    BY <1>1, <1>8 DEF Arrive
  <2>0. k \in DOMAIN metadatas[n]
    BY <1>1, <2>1, <2>2, ReleaseKeeps
  <2>3. /\ metadatas'[n][k].vm = metadatas[n][k].vm
        /\ metadatas'[n][k].home = metadatas[n][k].home
        /\ metadatas'[n][k].history = metadatas[n][k].history
    <3>1. \A j \in DOMAIN metadatas[n] :
             /\ Release(metadatas[n], session[n])[j].vm = metadatas[n][j].vm
             /\ Release(metadatas[n], session[n])[j].home = metadatas[n][j].home
             /\ Release(metadatas[n], session[n])[j].history = metadatas[n][j].history
      BY <1>1, <2>1, ReleaseKeeps
    <3>. QED  BY <2>0, <2>2, <3>1
  <2>4. TracedNext(n, metadatas[n][k])
    BY <1>2, <2>0
  <2>. QED  BY <2>3, <2>4 DEF TracedNext
<1>. QED  BY <1>3, <1>4, <1>5, <1>6, <1>7, <1>8

(* Which actors teleport, and what.                                        *)
LEMMA TeleportsNext ==
    ASSUME ProtocolInv, [Next]_vars, NEW n \in Node, actor'[n] = "teleport"
    PROVE  \/ actor[n] = "teleport" /\ session'[n] = session[n]
           \/ HearGo(n)
           \/ LaunchVM(n) /\ actor[n] # "teleport"
<1>. USE DEF ProtocolInv, ThreadTypes, LocalTypes, threads, locals
<1>1. CASE UNCHANGED vars
  BY <1>1 DEF vars
<1>2. ASSUME NEW m \in Node, NEW command \in TeleportCommand \cup StartCommand,
             Type(m, command)
      PROVE  actor[n] = "teleport" /\ session'[n] = session[n]
  BY <1>2 DEF Type
<1>3. ASSUME NEW m \in Node, MainThread(m)
      PROVE  actor[n] = "teleport" /\ session'[n] = session[n]
  BY <1>3 DEF MainThread, ReceiveTeleport, ReceiveStart, StartVM, CountMetadata, AddStarted
<1>4. ASSUME NEW m \in Node, ActorThread(m)
      PROVE  \/ actor[n] = "teleport" /\ session'[n] = session[n]
             \/ HearGo(n)
             \/ LaunchVM(n) /\ actor[n] # "teleport"
  <2>1. CASE Command(m) \/ CommandTerm(m)
    <3>1. \/ actor' = actor
          \/ actor' = [actor EXCEPT ![m] = "poll"]
          \/ actor' = [actor EXCEPT ![m] = "signal"]
      BY <2>1 DEF Command, CommandTerm
    <3>2. session' = session
      BY <2>1 DEF Command, CommandTerm
    <3>. QED  BY <3>1, <3>2
  <2>2. CASE SendName(m) \/ HearAnnounce(m) \/ HearOld(m) \/ FailAtOnce(m)
    BY <2>2 DEF SendName, HearAnnounce, HearOld, FailAtOnce
  <2>3. CASE HearName(m)
    BY <2>3 DEF HearName, Halts
  <2>4. CASE HearMetadata(m)
    BY <2>4 DEF HearMetadata
  <2>5. CASE HearGo(m)
    BY <2>5 DEF HearGo
  <2>6. CASE LaunchVM(m)
    BY <2>6 DEF LaunchVM
  <2>7. CASE Arrive(m)
    BY <2>7 DEF Arrive
  <2>8. CASE Fail(m)
    BY <2>8 DEF Fail
  <2>. QED  BY <1>4, <2>1, <2>2, <2>3, <2>4, <2>5, <2>6, <2>7, <2>8 DEF ActorThread
<1>. QED  BY <1>1, <1>2, <1>3, <1>4 DEF Next

(* What the poller finds in an actor that teleports, or records first.     *)
LEMMA SessionStep ==
    ASSUME ProtocolInv, ElementsKept, SessionKept, [Next]_vars
    PROVE  SessionKept'
<1>. SUFFICES ASSUME NEW n \in Node, actor'[n] = "teleport"
              PROVE  /\ Journey(n, session'[n].home, session'[n].history)
                     /\ main'[n].vm = None =>
                          HasRecord(metadatas'[n], session'[n].vm,
                                    session'[n].home, session'[n].history)
  BY DEF SessionKept, RecordedAt, NoneStarted
<1>1. CASE actor[n] = "teleport" /\ session'[n] = session[n]
  <2>1. /\ Journey(n, session[n].home, session[n].history)
        /\ RecordedAt(n, session[n].vm, session[n].home, session[n].history)
    BY <1>1 DEF SessionKept
  <2>2. main'[n].vm = None => HasRecord(metadatas'[n], session[n].vm,
                                       session[n].home, session[n].history)
    BY <2>1, RecordsKept DEF RecordedAt, NoneStarted
  <2>. QED  BY <1>1, <2>1, <2>2
<1>2. CASE HearGo(n)
  <2>1. /\ metadatas' = metadatas /\ metadatas[n] \in Seq(EntryType)
        /\ session \in [Node -> EntryType \cup {None}]
        /\ actor \in [Node -> ActorStep]
    BY <1>2 DEF HearGo, ProtocolInv, ThreadTypes, LocalTypes, RecordTypes
  <2>2. PICK k \in Found(metadatas[n], vm_name[n]) :
            IF k = 0 THEN actor' = [actor EXCEPT ![n] = "launch"]
                     ELSE session' = [session EXCEPT ![n] = metadatas[n][k]]
    BY <1>2 DEF HearGo
  <2>3. k # 0 /\ session'[n] = metadatas[n][k]
    BY <2>1, <2>2
  <2>4. k \in DOMAIN metadatas[n]
    BY <2>1, <2>3, FoundIsElement
  <2>5. Journey(n, metadatas[n][k].home, metadatas[n][k].history)
    BY <2>4 DEF ElementsKept, Traced
  <2>6. HasRecord(metadatas[n], metadatas[n][k].vm, metadatas[n][k].home,
                  metadatas[n][k].history)
    BY <2>4 DEF HasRecord
  <2>. QED  BY <2>1, <2>3, <2>5, <2>6
<1>3. CASE LaunchVM(n) /\ actor[n] # "teleport"
  <2>. DEFINE e == Entry(vm_name[n], n, <<n>>, FALSE)
  <2>1. /\ session \in [Node -> EntryType \cup {None}]
        /\ metadatas \in [Node -> Seq(EntryType)]
    BY DEF ProtocolInv, LocalTypes, RecordTypes
  <2>2. /\ session'[n] = e /\ metadatas'[n] = Append(metadatas[n], e)
    BY <1>3, <2>1 DEF LaunchVM
  <2>3. e \in EntryType
    <3>1. vm_name[n] \in VM /\ <<n>> \in Seq(Node)
      BY <1>3 DEF LaunchVM, ProtocolInv, UsesWhatIsSet, UsesSet, LocalTypes
    <3>. QED  BY <3>1, EntryTypes
  <2>4. Journey(n, e.home, e.history)
    BY DEF Journey, Entry
  <2>. HIDE DEF e
  <2>. QED  BY <2>1, <2>2, <2>3, <2>4, AppendKeepsRecords
<1>. QED  BY <1>1, <1>2, <1>3, TeleportsNext

(* A conversation with metadata after the step had it before, but for the  *)
(* one a teleport that ends sends.                                         *)
HadMetadata(c) ==
    conv'[c].request.type = "metadata" =>
        /\ c \in DOMAIN conv /\ conv'[c].request = conv[c].request
        /\ conv'[c].from = conv[c].from /\ conv'[c].to = conv[c].to

LEMMA TakesHadMetadata ==
    ASSUME conv \in Seq(Conversation), NEW c \in DOMAIN conv,
           NEW reply \in {"none", "signal", "2"}, Takes(c, reply)
    PROVE  \A d \in DOMAIN conv' : HadMetadata(d)
<1>1. /\ \A d \in DOMAIN conv : /\ conv'[d].from = conv[d].from /\ conv'[d].to = conv[d].to
                                /\ d # c => conv'[d] = conv[d]
      /\ DOMAIN conv' = DOMAIN conv /\ conv'[c].request = Silent
  BY ConvUpdated, MessageKinds DEF Takes
<1>. QED  BY <1>1, MessageKinds DEF HadMetadata

LEMMA ConvStep ==
    ASSUME ProtocolInv, [Next]_vars
    PROVE  \/ \A c \in DOMAIN conv' : HadMetadata(c)
           \/ \E n \in Node : Arrive(n) /\ \A c \in DOMAIN conv' : c # sender[n] => HadMetadata(c)
<1>. USE DEF threads, locals
<1>0. conv \in Seq(Conversation)
  BY DEF ProtocolInv, RecordTypes
<1>1. conv' = conv => \A c \in DOMAIN conv' : HadMetadata(c)
  BY DEF HadMetadata
<1>2. ASSUME NEW n \in Node, NEW command \in TeleportCommand \cup StartCommand,
             Type(n, command)
      PROVE  conv' = conv
  BY <1>2 DEF Type
<1>3. ASSUME NEW n \in Node, MainThread(n) PROVE conv' = conv
  BY <1>3 DEF MainThread, ReceiveTeleport, ReceiveStart, StartVM, CountMetadata, AddStarted
<1>4. ASSUME NEW n \in Node, ActorThread(n)
      PROVE  \/ \A c \in DOMAIN conv' : HadMetadata(c)
             \/ Arrive(n) /\ \A c \in DOMAIN conv' : c # sender[n] => HadMetadata(c)
  <2>1. CASE Command(n)
    <3>1. conv' = conv \/ \E t : conv' = Append(conv,
              [from |-> n, to |-> t, request |-> Announce, reply |-> "none"])
      BY <2>1 DEF Command
    <3>2. ASSUME NEW t, conv' = Append(conv,
                     [from |-> n, to |-> t, request |-> Announce, reply |-> "none"])
          PROVE  \A c \in DOMAIN conv' : HadMetadata(c)
      <4>. DEFINE x == [from |-> n, to |-> t, request |-> Announce, reply |-> "none"]
      <4>1. x.request.type # "metadata"
        BY MessageKinds
      <4>2. conv' = Append(conv, x)
        BY <3>2
      <4>. HIDE DEF x
      <4>3. \A c \in DOMAIN conv' : conv'[c] = x \/ (c \in DOMAIN conv /\ conv'[c] = conv[c])
        BY <1>0, <4>2
      <4>. QED  BY <4>1, <4>3 DEF HadMetadata
    <3>. QED  BY <1>1, <3>1, <3>2
  <2>2. CASE SendName(n)
    <3>1. sender[n] \in DOMAIN conv /\ vm_name[n] \in VM
      BY <2>2 DEF SendName, ProtocolInv, UsesWhatIsSet, UsesSet, LocalTypes, RecordTypes
    <3>2. Name(vm_name[n]) \in RequestType /\ Name(vm_name[n]).type # "metadata"
      BY <3>1, MessageKinds
    <3>3. /\ \A d \in DOMAIN conv : /\ conv'[d].from = conv[d].from /\ conv'[d].to = conv[d].to
                                    /\ d # sender[n] => conv'[d] = conv[d]
          /\ DOMAIN conv' = DOMAIN conv /\ conv'[sender[n]].request = Name(vm_name[n])
      BY <1>0, <2>2, <3>1, <3>2, ConvUpdated DEF SendName
    <3>. QED  BY <3>2, <3>3 DEF HadMetadata
  <2>3. CASE HearAnnounce(n) \/ HearName(n) \/ HearMetadata(n)
    <3>1. \E c \in DOMAIN conv, reply \in {"none", "signal", "2"} : Takes(c, reply)
      BY <2>3 DEF HearAnnounce, HearName, HearMetadata, Waiting
    <3>. QED  BY <1>0, <3>1, TakesHadMetadata
  <2>4. CASE HearGo(n)
    <3>1. conv' = [conv EXCEPT ![sender[n]].reply = "none"]
      BY <2>4 DEF HearGo
    <3>2. /\ Answered(n) # {} /\ sender[n] = Min(Answered(n))
          /\ Answered(n) \subseteq DOMAIN conv /\ Answered(n) \subseteq Nat
      BY <1>0, <2>4 DEF HearGo, HearsSender, Answered
    <3>3. sender[n] \in DOMAIN conv
      BY <3>2, MinIsElement
    <3>4. conv[sender[n]].request \in RequestType
      BY <1>0, <3>3, ConvTypes
    <3>5. /\ \A d \in DOMAIN conv : /\ conv'[d].from = conv[d].from /\ conv'[d].to = conv[d].to
                                    /\ d # sender[n] => conv'[d] = conv[d]
          /\ DOMAIN conv' = DOMAIN conv
          /\ conv'[sender[n]].request = conv[sender[n]].request
      BY <1>0, <3>1, <3>3, <3>4, ConvUpdated
    <3>. QED  BY <3>5 DEF HadMetadata
  <2>5. CASE Arrive(n)
    <3>1. conv' = [conv EXCEPT ![sender[n]].request = Metadata(session[n])]
      BY <2>5 DEF Arrive
    <3>2. \A c \in DOMAIN conv' : c # sender[n] => c \in DOMAIN conv /\ conv'[c] = conv[c]
      BY <1>0, <3>1
    <3>. QED  BY <2>5, <3>2 DEF HadMetadata
  <2>6. CASE conv' = conv
    BY <1>1, <2>6
  <2>. QED  BY <1>4, <2>1, <2>2, <2>3, <2>4, <2>5, <2>6
            DEF ActorThread, CommandTerm, HearOld, LaunchVM, Fail, FailAtOnce
<1>5. CASE UNCHANGED vars
  BY <1>1, <1>5 DEF vars
<1>. QED  BY <1>1, <1>2, <1>3, <1>4, <1>5 DEF Next

(* A target that waits for metadata waits until it comes.                  *)
LEMMA TargetStep ==
    ASSUME ProtocolInv, [Next]_vars, NEW t \in Node,
           actor[t] = "metadata", process[t] # "gone"
    PROVE  \/ actor'[t] = "metadata" /\ incoming'[t] = incoming[t]
           \/ HearMetadata(t)
<1>. USE DEF ProtocolInv, ThreadTypes, LocalTypes, threads, locals
<1>1. CASE UNCHANGED vars
  BY <1>1 DEF vars
<1>2. ASSUME NEW n \in Node, NEW command \in TeleportCommand \cup StartCommand,
             Type(n, command)
      PROVE  actor'[t] = "metadata" /\ incoming'[t] = incoming[t]
  BY <1>2 DEF Type
<1>3. ASSUME NEW n \in Node, MainThread(n)
      PROVE  actor'[t] = "metadata" /\ incoming'[t] = incoming[t]
  BY <1>3 DEF MainThread, ReceiveTeleport, ReceiveStart, StartVM, CountMetadata, AddStarted
<1>4. ASSUME NEW n \in Node, ActorThread(n)
      PROVE  \/ actor'[t] = "metadata" /\ incoming'[t] = incoming[t]
             \/ HearMetadata(t)
  <2>1. CASE Command(n) \/ CommandTerm(n)
    <3>1. \/ actor' = actor
          \/ actor[n] # "metadata" /\ actor' = [actor EXCEPT ![n] = "poll"]
          \/ actor[n] # "metadata" /\ actor' = [actor EXCEPT ![n] = "signal"]
      BY <2>1 DEF Command, CommandTerm, TakesCommand
    <3>2. incoming' = incoming
      BY <2>1 DEF Command, CommandTerm
    <3>. QED  BY <3>1, <3>2
  <2>2. CASE SendName(n) \/ HearAnnounce(n) \/ HearOld(n) \/ FailAtOnce(n)
    BY <2>2 DEF SendName, HearAnnounce, HearOld, FailAtOnce, HearsSender, Polls
  <2>3. CASE HearName(n)
    <3>1. actor[n] = "name"
      BY <2>3 DEF HearName
    <3>2. \A m \in Node : m # n => actor'[m] = actor[m] /\ incoming'[m] = incoming[m]
      BY <2>3 DEF HearName, Halts, Prepares
    <3>. QED  BY <3>1, <3>2
  <2>4. CASE HearMetadata(n)
    BY <2>4 DEF HearMetadata
  <2>5. CASE HearGo(n)
    BY <2>5 DEF HearGo, HearsSender, Polls
  <2>6. CASE LaunchVM(n)
    BY <2>6 DEF LaunchVM
  <2>7. CASE Arrive(n)
    BY <2>7 DEF Arrive
  <2>8. CASE Fail(n)
    BY <2>8 DEF Fail
  <2>. QED  BY <1>4, <2>1, <2>2, <2>3, <2>4, <2>5, <2>6, <2>7, <2>8 DEF ActorThread
<1>. QED  BY <1>1, <1>2, <1>3, <1>4 DEF Next

LEMMA MetadataStep ==
    ASSUME TeleportInv, [Next]_vars
    PROVE  MetadataKept'
<1>. USE DEF TeleportInv
<1>0. conv \in Seq(Conversation) /\ \A n \in Node : sender[n] \in 0 .. Len(conv)
  BY DEF ProtocolInv, RecordTypes, LocalTypes
<1>. SUFFICES ASSUME NEW c \in DOMAIN conv', IsMetadata(c)', process'[conv'[c].to] # "gone"
              PROVE  /\ actor'[conv'[c].to] = "metadata"
                     /\ Journey(conv'[c].from, conv'[c].request.home, conv'[c].request.history)
                     /\ main'[conv'[c].from].vm = None =>
                          HasRecord(metadatas'[conv'[c].from], incoming'[conv'[c].to],
                                    conv'[c].request.home, conv'[c].request.history)
                     /\ \A d \in DOMAIN conv' :
                           IsMetadata(d)' /\ conv'[d].to = conv'[c].to => d = c
  BY DEF MetadataKept, RecordedAt, NoneStarted
<1>. DEFINE t == conv'[c].to
            p == conv'[c].from
<1>1. p \in Node /\ t \in Node
  <2>1. conv' \in Seq(Conversation)
    BY ProtocolStep DEF ProtocolInv, RecordTypes
  <2>2. conv'[c] \in Conversation
    BY <2>1
  <2>. QED  BY <2>2 DEF Conversation
<1>2. process[t] # "gone"
  BY <1>1, ProcessesOnlyGo
<1>3. ASSUME HadMetadata(c)
      PROVE  /\ c \in DOMAIN conv /\ conv'[c].request = conv[c].request
             /\ conv[c].from = p /\ conv[c].to = t /\ IsMetadata(c)
             /\ actor[t] = "metadata"
             /\ Journey(p, conv[c].request.home, conv[c].request.history)
             /\ RecordedAt(p, incoming[t], conv[c].request.home, conv[c].request.history)
             /\ \A d \in DOMAIN conv : IsMetadata(d) /\ conv[d].to = t => d = c
  BY <1>2, <1>3 DEF HadMetadata, IsMetadata, MetadataKept
<1>4. ASSUME HadMetadata(c), HearMetadata(t) PROVE FALSE
  <2>1. PICK b \in DOMAIN conv :
            conv[b].to = t /\ Takes(b, "none") /\ (IsMetadata(b) \/ Crashes(t))
    BY <1>4 DEF HearMetadata, Waiting, IsMetadata
  <2>2. ~Crashes(t)
    BY <1>1 DEF Crashes, ProtocolInv, ThreadTypes
  <2>3. b = c
    BY <1>3, <1>4, <2>1, <2>2
  <2>4. conv'[c].request = Silent
    BY <1>0, <2>1, <2>3, ConvUpdated, MessageKinds DEF Takes
  <2>. QED  BY <2>4, MessageKinds DEF IsMetadata
<1>5. ASSUME HadMetadata(c)
      PROVE  actor'[t] = "metadata" /\ incoming'[t] = incoming[t]
  BY <1>1, <1>2, <1>3, <1>4, <1>5, TargetStep
<1>6. ASSUME HadMetadata(c)
      PROVE  /\ actor'[t] = "metadata"
             /\ Journey(p, conv'[c].request.home, conv'[c].request.history)
             /\ main'[p].vm = None =>
                  HasRecord(metadatas'[p], incoming'[t],
                            conv'[c].request.home, conv'[c].request.history)
  BY <1>1, <1>3, <1>5, <1>6, RecordsKept DEF RecordedAt, NoneStarted
<1>7. ASSUME NEW d \in DOMAIN conv', IsMetadata(d)', conv'[d].to = t,
             HadMetadata(c), HadMetadata(d)
      PROVE  d = c
  <2>1. d \in DOMAIN conv /\ IsMetadata(d) /\ conv[d].to = t
    BY <1>7 DEF HadMetadata, IsMetadata
  <2>. QED  BY <1>3, <1>7, <2>1
<1>8. CASE \A d \in DOMAIN conv' : HadMetadata(d)
  BY <1>6, <1>7, <1>8
<1>9. ASSUME NEW n \in Node, Arrive(n),
             \A d \in DOMAIN conv' : d # sender[n] => HadMetadata(d)
      PROVE  /\ actor'[t] = "metadata"
             /\ Journey(p, conv'[c].request.home, conv'[c].request.history)
             /\ main'[p].vm = None =>
                  HasRecord(metadatas'[p], incoming'[t],
                            conv'[c].request.home, conv'[c].request.history)
             /\ \A d \in DOMAIN conv' : IsMetadata(d)' /\ conv'[d].to = t => d = c
  <2>. DEFINE s == sender[n]
              u == target_ip[n]
  <2>1. /\ s \in DOMAIN conv /\ u \in Node /\ u # n /\ process[u] # "gone"
        /\ actor[u] = "incoming" /\ incoming[u] = session[n].vm
        /\ session[n] \in EntryType /\ actor[n] = "teleport"
    BY <1>0, <1>9 DEF Arrive, Expected, ProtocolInv, UsesWhatIsSet, UsesSet, LocalTypes
  <2>2. conv[s].from = n /\ conv[s].to = u
    <3>1. s > 0
      BY <1>0, <2>1
    <3>. QED  BY <2>1, <3>1, TeleportAssumption DEF ProtocolInv, SenderKept
  <2>3. /\ conv'[s].from = n /\ conv'[s].to = u
        /\ conv'[s].request = Metadata(session[n]) /\ DOMAIN conv' = DOMAIN conv
    <3>1. conv' = [conv EXCEPT ![s].request = Metadata(session[n])]
      BY <1>9 DEF Arrive
    <3>2. Metadata(session[n]) \in RequestType
      BY <2>1, MessageKinds
    <3>3. conv[s] \in Conversation
      BY <1>0, <2>1
    <3>4. conv[s].reply \in {"none", "signal", "2"}
      BY <3>3 DEF Conversation
    <3>5. /\ conv'[s].from = conv[s].from /\ conv'[s].to = conv[s].to
          /\ conv'[s].request = Metadata(session[n]) /\ DOMAIN conv' = DOMAIN conv
      BY <1>0, <2>1, <3>1, <3>2, <3>4, ConvUpdated
    <3>. QED  BY <2>2, <3>5
  <2>4. \A d \in DOMAIN conv' : HadMetadata(d) /\ IsMetadata(d)' => conv'[d].to # u
    <3>1. ASSUME NEW d \in DOMAIN conv', HadMetadata(d), IsMetadata(d)', conv'[d].to = u
          PROVE  FALSE
      <4>1. d \in DOMAIN conv /\ IsMetadata(d) /\ conv[d].to = u
        BY <3>1 DEF HadMetadata, IsMetadata
      <4>2. actor[u] = "metadata"
        BY <2>1, <4>1 DEF MetadataKept
      <4>. QED  BY <2>1, <4>2
    <3>. QED  BY <3>1
  <2>5. CASE c = s
    <3>1. t = u /\ p = n
      BY <2>3, <2>5
    <3>2. actor'[u] = "metadata" /\ incoming'[u] = session[n].vm
      BY <1>9, <2>1 DEF Arrive, ProtocolInv, ThreadTypes
    <3>3. conv'[c].request.home = session[n].home /\ conv'[c].request.history = session[n].history
      BY <2>1, <2>3, <2>5, MessageKinds
    <3>4. /\ Journey(n, session[n].home, session[n].history)
          /\ RecordedAt(n, session[n].vm, session[n].home, session[n].history)
      BY <2>1 DEF SessionKept
    <3>5. main'[n].vm = None => HasRecord(metadatas'[n], session[n].vm,
                                         session[n].home, session[n].history)
      BY <3>4, RecordsKept DEF RecordedAt, NoneStarted
    <3>6. ASSUME NEW d \in DOMAIN conv', IsMetadata(d)', conv'[d].to = t
          PROVE  d = c
      BY <1>9, <2>4, <2>5, <3>1, <3>6
    <3>. QED  BY <3>1, <3>2, <3>3, <3>4, <3>5, <3>6
  <2>6. CASE c # s
    <3>1. HadMetadata(c)
      BY <1>9, <2>6
    <3>2. t # u
      BY <2>4, <3>1
    <3>3. ASSUME NEW d \in DOMAIN conv', IsMetadata(d)', conv'[d].to = t
          PROVE  d = c
      <4>1. d # s
        BY <2>3, <3>2, <3>3
      <4>. QED  BY <1>7, <1>9, <3>1, <3>3, <4>1
    <3>. QED  BY <1>6, <3>1, <3>3
  <2>. QED  BY <2>5, <2>6
<1>. QED  BY <1>8, <1>9, ConvStep

-----------------------------------------------------------------------------
LEMMA TeleportInitially == Init => TeleportInv
<1>. SUFFICES ASSUME Init PROVE TeleportInv
  OBVIOUS
<1>1. ProtocolInv
  BY ProtocolInitially
<1>2. ElementsKept /\ SessionKept /\ MetadataKept
  BY DEF Init, ElementsKept, SessionKept, MetadataKept
<1>. QED  BY <1>1, <1>2 DEF TeleportInv

LEMMA TeleportStep == TeleportInv /\ [Next]_vars => TeleportInv'
<1>. SUFFICES ASSUME TeleportInv, [Next]_vars PROVE TeleportInv'
  OBVIOUS
<1>1. ProtocolInv /\ ElementsKept /\ SessionKept /\ MetadataKept
  BY DEF TeleportInv
<1>2. ProtocolInv' /\ ElementsKept' /\ SessionKept' /\ MetadataKept'
  BY <1>1, ProtocolStep, ElementsStep, SessionStep, MetadataStep
<1>. QED  BY <1>2 DEF TeleportInv

(* The journeys are part of an inductive invariant.                        *)
THEOREM TeleportInvariant == Spec => []TeleportInv
<1>. QED  BY TeleportInitially, TeleportStep, PTL DEF Spec

(* The history of a machine is the trace of its journey, record by record, *)
(* for any hosts, machines, commands and failures (executer.c 248-255,     *)
(* 376-399).                                                               *)
THEOREM HistoryIsJourneyAlways == Spec => []HistoryIsJourney
<1>1. TeleportInv => HistoryIsJourney
  BY DEF TeleportInv, ElementsKept, Traced, Journey, RecordedAt, HasRecord, HistoryIsJourney
<1>. QED  BY <1>1, TeleportInvariant, PTL
-----------------------------------------------------------------------------
(* What metadatas says of the machines that run                            *)

(* The machines that run on n.                                             *)
On(n) == {v \in VM : n \in runs[v]}

(* An element with a live session of v; the elements with live sessions    *)
(* are of machines in R, one of each; the search for v ends at such one.   *)
HasHeld(md, v) == \E k \in DOMAIN md : md[k].held /\ md[k].vm = v

HeldAreIn(md, R) ==
    \A k \in DOMAIN md : md[k].held =>
        /\ md[k].vm \in R
        /\ \A j \in DOMAIN md : md[j].held /\ md[j].vm = md[k].vm => j = k

EndsHeld(md, v) ==
    \E k \in DOMAIN md :
        /\ md[k].vm = v /\ md[k].held
        /\ \A j \in DOMAIN md : j > k => md[j].vm # v

(* Main has started a machine and not recorded it yet.                     *)
Starting(n) == main[n].step \in {"count", "add"}

StartingKept(n) ==
    Starting(n) => main[n].vm \in On(n) /\ ~HasHeld(metadatas[n], main[n].vm)

(* The source teleports a machine that runs, and has no other session.     *)
SourceKept(n) ==
    actor[n] = "teleport" /\ session[n].held =>
        /\ session[n].vm \in On(n)
        /\ \A k \in DOMAIN metadatas[n] :
              metadatas[n][k].held /\ metadatas[n][k].vm = session[n].vm
                => metadatas[n][k] = session[n]
        /\ Starting(n) => main[n].vm # session[n].vm

(* The target's machine runs when it has arrived, and not before.          *)
TargetKept(n) ==
    /\ actor[n] = "incoming" => incoming[n] \notin On(n)
    /\ actor[n] = "metadata" =>
          incoming[n] \in On(n) /\ ~HasHeld(metadatas[n], incoming[n])
    /\ actor[n] \in {"incoming", "metadata"} /\ Starting(n) => main[n].vm # incoming[n]

(* Where main has started nothing, the search knows all that runs.         *)
SearchKept(n) ==
    NoneStarted(n) =>
        /\ \A k \in DOMAIN metadatas[n] : ~metadatas[n][k].freed
        /\ process[n] # "gone" => \A v \in On(n) :
              \/ actor[n] = "metadata" /\ incoming[n] = v
              \/ EndsHeld(metadatas[n], v)
        /\ actor[n] = "launch" => vm_name[n] \notin On(n)

RunsKept(n) ==
    /\ HeldAreIn(metadatas[n], On(n))
    /\ StartingKept(n) /\ SourceKept(n) /\ TargetKept(n)
    /\ SearchKept(n)

(* The inductive invariant.                                                *)
RunsInv == ProtocolInv /\ \A n \in Node : RunsKept(n)

-----------------------------------------------------------------------------
(* A new element, of a machine that had no live session.                   *)
LEMMA AppendHeld ==
    ASSUME NEW md \in Seq(EntryType), NEW e \in EntryType, e.held,
           ~HasHeld(md, e.vm), NEW R, HeldAreIn(md, R), NEW R2, R \subseteq R2, e.vm \in R2
    PROVE  /\ HeldAreIn(Append(md, e), R2)
           /\ \A v : HasHeld(Append(md, e), v) => v = e.vm \/ HasHeld(md, v)
           /\ EndsHeld(Append(md, e), e.vm)
           /\ \A v : v # e.vm /\ EndsHeld(md, v) => EndsHeld(Append(md, e), v)
           /\ \A k \in DOMAIN Append(md, e) : Append(md, e)[k].freed
                => e.freed \/ \E j \in DOMAIN md : md[j].freed
<1>. DEFINE l == Len(md)
            a == Append(md, e)
<1>1. /\ l \in Nat /\ DOMAIN md = 1 .. l /\ DOMAIN a = 1 .. l + 1
      /\ a[l + 1] = e /\ \A k \in 1 .. l : a[k] = md[k]
  OBVIOUS
<1>2. \A k \in 1 .. l + 1 : k = l + 1 \/ k \in 1 .. l
  BY <1>1
<1>3. l + 1 \in 1 .. l + 1 /\ \A k \in 1 .. l : k \in 1 .. l + 1 /\ k < l + 1 /\ k # l + 1
  BY <1>1
<1>. HIDE DEF l, a
<1>4. HeldAreIn(a, R2)
  BY <1>1, <1>2, <1>3 DEF HeldAreIn, HasHeld
<1>5. \A v : HasHeld(a, v) => v = e.vm \/ HasHeld(md, v)
  BY <1>1, <1>2 DEF HasHeld
<1>6. EndsHeld(a, e.vm)
  <2>1. \A j \in 1 .. l + 1 : ~(j > l + 1)
    BY <1>1
  <2>. QED  BY <1>1, <1>3, <2>1 DEF EndsHeld
<1>7. ASSUME NEW v, v # e.vm, EndsHeld(md, v) PROVE EndsHeld(a, v)
  <2>1. PICK k \in DOMAIN md : /\ md[k].vm = v /\ md[k].held
                               /\ \A j \in DOMAIN md : j > k => md[j].vm # v
    BY <1>7 DEF EndsHeld
  <2>2. k \in DOMAIN a /\ a[k].vm = v /\ a[k].held
    BY <1>1, <1>3, <2>1
  <2>3. \A j \in DOMAIN a : j > k => a[j].vm # v
    BY <1>1, <1>2, <1>7, <2>1
  <2>. QED  BY <2>2, <2>3 DEF EndsHeld
<1>8. \A k \in DOMAIN a : a[k].freed => e.freed \/ \E j \in DOMAIN md : md[j].freed
  BY <1>1, <1>2
<1>. QED  BY <1>4, <1>5, <1>6, <1>7, <1>8 DEF a

(* Elements of a race that are lost take nothing else away.                *)
LEMMA CutHeld ==
    ASSUME NEW md \in Seq(EntryType), NEW l \in Nat, l <= Len(md),
           NEW R, HeldAreIn(md, R)
    PROVE  /\ SubSeq(md, 1, l) \in Seq(EntryType)
           /\ HeldAreIn(SubSeq(md, 1, l), R)
           /\ \A v : HasHeld(SubSeq(md, 1, l), v) => HasHeld(md, v)
<1>. DEFINE c == SubSeq(md, 1, l)
<1>1. /\ c \in Seq(EntryType) /\ \A k \in DOMAIN c : k \in DOMAIN md /\ c[k] = md[k]
  OBVIOUS
<1>. HIDE DEF c
<1>2. HeldAreIn(c, R)
  BY <1>1 DEF HeldAreIn
<1>3. \A v : HasHeld(c, v) => HasHeld(md, v)
  BY <1>1 DEF HasHeld
<1>. QED  BY <1>1, <1>2, <1>3 DEF c

(* The session of the machine that left is released.                       *)
LEMMA ReleaseHeld ==
    ASSUME NEW md \in Seq(EntryType), NEW e \in EntryType,
           NEW R, HeldAreIn(md, R),
           \A k \in DOMAIN md : md[k].held /\ md[k].vm = e.vm => md[k] = e
    PROVE  /\ HeldAreIn(Release(md, e), R \ {e.vm})
           /\ \A v : HasHeld(Release(md, e), v) => HasHeld(md, v)
           /\ \A v : v # e.vm /\ EndsHeld(md, v) => EndsHeld(Release(md, e), v)
           /\ \A k \in DOMAIN Release(md, e) : Release(md, e)[k].freed
                => \E j \in DOMAIN md : md[j].freed
<1>. DEFINE f == [e EXCEPT !.held = FALSE]
            r == Release(md, e)
<1>1. f.vm = e.vm /\ f.freed = e.freed /\ ~f.held
  BY DEF EntryType
<1>2. DOMAIN r = DOMAIN md /\ \A k \in DOMAIN md : r[k] = IF md[k] = e THEN f ELSE md[k]
  BY DEF Release
<1>. HIDE DEF f, r
<1>3. \A k \in DOMAIN md : /\ r[k].vm = md[k].vm /\ r[k].freed = md[k].freed
                           /\ r[k].held => md[k].held /\ md[k].vm # e.vm
                           /\ md[k].vm # e.vm => r[k] = md[k]
  BY <1>1, <1>2
<1>4. HeldAreIn(r, R \ {e.vm})
  BY <1>2, <1>3 DEF HeldAreIn
<1>5. \A v : HasHeld(r, v) => HasHeld(md, v)
  BY <1>2, <1>3 DEF HasHeld
<1>6. \A v : v # e.vm /\ EndsHeld(md, v) => EndsHeld(r, v)
  BY <1>2, <1>3 DEF EndsHeld
<1>7. \A k \in DOMAIN r : r[k].freed => \E j \in DOMAIN md : md[j].freed
  BY <1>2, <1>3
<1>. QED  BY <1>4, <1>5, <1>6, <1>7 DEF r

-----------------------------------------------------------------------------
(* A node that a step passes by.                                           *)
LEMMA NodeUntouched ==
    ASSUME NEW n \in Node, RunsKept(n),
           metadatas'[n] = metadatas[n], On(n)' = On(n), main'[n] = main[n],
           actor'[n] = actor[n], session'[n] = session[n],
           incoming'[n] = incoming[n], vm_name'[n] = vm_name[n],
           process'[n] # "gone" => process[n] # "gone"
    PROVE  RunsKept(n)'
<1>. QED  BY DEF RunsKept, StartingKept, SourceKept, TargetKept, SearchKept,
          Starting, NoneStarted

(* An actor that goes on to a step in which it holds nothing.              *)
LEMMA ActorLetsGo ==
    ASSUME NEW n \in Node, RunsKept(n),
           metadatas'[n] = metadatas[n], On(n)' = On(n), main'[n] = main[n],
           actor'[n] \notin {"teleport", "incoming", "metadata", "launch"},
           process'[n] # "gone" => process[n] # "gone" /\ actor[n] # "metadata"
    PROVE  RunsKept(n)'
<1>. QED  BY DEF RunsKept, StartingKept, SourceKept, TargetKept, SearchKept,
          Starting, NoneStarted

(* A step of another node: only a teleport to n, or its failure, is seen   *)
(* by n.                                                                   *)
LEMMA StepElsewhere ==
    ASSUME RunsInv, NEW n \in Node, NEW m \in Node \ {n}, [Next]_vars,
           \/ \E command \in TeleportCommand \cup StartCommand : Type(m, command)
           \/ MainThread(m) \/ ActorThread(m)
    PROVE  RunsKept(n)'
<1>. USE DEF threads, locals
<1>0. RunsKept(n) /\ ThreadTypes /\ LocalTypes /\ RecordTypes /\ ProtocolInv
  BY DEF RunsInv, ProtocolInv
<1>1. process'[n] # "gone" => process[n] # "gone"
  BY <1>0, ProcessesOnlyGo
<1>2. ASSUME NEW command \in TeleportCommand \cup StartCommand, Type(m, command)
      PROVE  RunsKept(n)'
  BY <1>0, <1>1, <1>2, NodeUntouched DEF Type, On
<1>3. CASE MainThread(m)
  <2>1. /\ UNCHANGED <<actor, session, incoming, vm_name>>
        /\ metadatas'[n] = metadatas[n] /\ main'[n] = main[n]
    BY <1>0, <1>3 DEF MainThread, ReceiveTeleport, ReceiveStart, StartVM,
       CountMetadata, AddStarted, MainGoes, ThreadTypes, RecordTypes
  <2>2. On(n)' = On(n)
    BY <1>0, <1>3 DEF MainThread, ReceiveTeleport, ReceiveStart, StartVM,
       CountMetadata, AddStarted, RecordTypes, On
  <2>. QED  BY <1>0, <1>1, <2>1, <2>2, NodeUntouched
<1>4. CASE Arrive(m)
  <2>. DEFINE t == target_ip[m]
              e == session[m]
  <2>1. /\ t \in Node \ {m} /\ actor[t] = "incoming" /\ incoming[t] = e.vm
        /\ runs' = [runs EXCEPT ![e.vm] = (@ \ {m}) \cup {t}]
        /\ actor' = [actor EXCEPT ![m] = "poll", ![t] = "metadata"]
        /\ UNCHANGED <<process, main, incoming, vm_name>>
        /\ metadatas'[n] = metadatas[n] /\ session'[n] = session[n]
    BY <1>0, <1>4 DEF Arrive, Expected, RecordTypes, LocalTypes
  <2>2. CASE n # t
    <3>1. On(n)' = On(n) /\ actor'[n] = actor[n]
      BY <1>0, <2>1, <2>2 DEF On, RecordTypes, ThreadTypes
    <3>. QED  BY <1>0, <1>1, <2>1, <3>1, NodeUntouched
  <2>3. CASE n = t
    <3>0. e.vm \in VM
      BY <1>0, <2>1, <2>3 DEF ProtocolInv, UsesWhatIsSet, UsesSet, LocalTypes
    <3>1. On(n)' = On(n) \cup {e.vm} /\ actor'[n] = "metadata"
      BY <1>0, <2>1, <2>3, <3>0 DEF On, RecordTypes, ThreadTypes
    <3>2. e.vm \notin On(n) /\ incoming[n] = e.vm /\ actor[n] = "incoming"
      BY <1>0, <2>1, <2>3 DEF RunsKept, TargetKept
    <3>3. ~HasHeld(metadatas[n], e.vm)
      BY <1>0, <3>2 DEF RunsKept, HeldAreIn, HasHeld
    <3>4. HeldAreIn(metadatas[n], On(n)') /\ StartingKept(n)'
      BY <1>0, <2>1, <3>1 DEF RunsKept, HeldAreIn, StartingKept, Starting
    <3>5. SourceKept(n)' /\ TargetKept(n)'
      BY <1>0, <2>1, <3>1, <3>2, <3>3 DEF RunsKept, SourceKept, TargetKept, Starting
    <3>6. SearchKept(n)'
      BY <1>0, <1>1, <2>1, <3>1, <3>2 DEF RunsKept, SearchKept, NoneStarted
    <3>7. HeldAreIn(metadatas[n], On(n))'
      BY <2>1, <3>4
    <3>. QED  BY <3>4, <3>5, <3>6, <3>7 DEF RunsKept
  <2>. QED  BY <2>2, <2>3
<1>5. CASE Fail(m)
  <2>1. /\ UNCHANGED <<metadatas, main, session, incoming, vm_name, runs>>
        /\ \/ actor'[n] = actor[n]
           \/ actor'[n] = "halted" /\ actor[n] = "incoming"
    BY <1>0, <1>5 DEF Fail
  <2>2. On(n)' = On(n)
    BY <2>1 DEF On
  <2>. QED  BY <1>0, <1>1, <2>1, <2>2, NodeUntouched, ActorLetsGo
<1>6. ASSUME /\ main' = main
             /\ metadatas'[n] = metadatas[n] /\ actor'[n] = actor[n]
             /\ session'[n] = session[n] /\ incoming'[n] = incoming[n]
             /\ vm_name'[n] = vm_name[n]
             /\ \A v \in VM : n \in runs'[v] <=> n \in runs[v]
      PROVE  RunsKept(n)'
  BY <1>0, <1>1, <1>6, NodeUntouched DEF On
<1>7. CASE HearName(m)
  <2>1. UNCHANGED <<main, session, vm_name, metadatas>>
    BY <1>7 DEF HearName
  <2>2. actor'[n] = actor[n] /\ incoming'[n] = incoming[n] /\ runs' = runs
    BY <1>0, <1>7 DEF HearName, Prepares, Halts, ThreadTypes, LocalTypes
  <2>. QED  BY <1>6, <2>1, <2>2
<1>8. CASE LaunchVM(m)
  <2>1. /\ \A v \in VM : n \in runs'[v] <=> n \in runs[v]
        /\ metadatas'[n] = metadatas[n]
    <3>1. runs' = runs \/ \E x : runs' = [runs EXCEPT ![x] = @ \cup {m}]
      BY <1>8 DEF LaunchVM
    <3>2. metadatas' = metadatas \/ \E x : metadatas' = [metadatas EXCEPT ![m] = x]
      BY <1>8 DEF LaunchVM
    <3>3. \A v \in VM : n \in runs'[v] <=> n \in runs[v]
      BY <1>0, <3>1 DEF RecordTypes
    <3>. QED  BY <1>0, <3>2, <3>3 DEF RecordTypes
  <2>2. /\ main' = main /\ actor'[n] = actor[n] /\ session'[n] = session[n]
        /\ incoming' = incoming /\ vm_name' = vm_name
    <3>1. UNCHANGED <<main, incoming, vm_name>>
      BY <1>8 DEF LaunchVM
    <3>2. session' = session \/ \E e : session' = [session EXCEPT ![m] = e]
      BY <1>8 DEF LaunchVM
    <3>3. actor'[n] = actor[n]
      BY <1>0, <1>8 DEF LaunchVM, ThreadTypes
    <3>. QED  BY <1>0, <3>1, <3>2, <3>3 DEF LocalTypes
  <2>. QED  BY <1>6, <2>1, <2>2
<1>9. CASE HearGo(m) \/ HearOld(m) \/ HearAnnounce(m)
  BY <1>0, <1>6, <1>9 DEF HearGo, HearOld, HearAnnounce, ThreadTypes, LocalTypes
<1>10. CASE HearMetadata(m)
  BY <1>0, <1>6, <1>10 DEF HearMetadata, ThreadTypes, LocalTypes, RecordTypes
<1>11. CASE Command(m)
  <2>1. UNCHANGED <<main, metadatas, session, incoming, runs>>
    BY <1>11 DEF Command
  <2>2. vm_name'[n] = vm_name[n]
    BY <1>0, <1>11 DEF Command, LocalTypes
  <2>3. actor'[n] = actor[n]
    BY <1>0, <1>11 DEF Command, ThreadTypes
  <2>. QED  BY <1>6, <2>1, <2>2, <2>3
<1>12. CASE SendName(m) \/ FailAtOnce(m)
  BY <1>0, <1>6, <1>12 DEF SendName, FailAtOnce, ThreadTypes
<1>13. CASE CommandTerm(m)
  BY <1>0, <1>6, <1>13 DEF CommandTerm, ThreadTypes, LocalTypes
<1>. QED  BY <1>2, <1>3, <1>4, <1>5, <1>7, <1>8, <1>9, <1>10, <1>11, <1>12, <1>13
          DEF ActorThread

(* Main goes on, and is done with the machine it started or has it still.  *)
LEMMA MainGoesOn ==
    ASSUME NEW n \in Node, RunsKept(n),
           metadatas'[n] = metadatas[n], On(n)' = On(n), actor'[n] = actor[n],
           session'[n] = session[n], incoming'[n] = incoming[n],
           vm_name'[n] = vm_name[n],
           process'[n] # "gone" => process[n] # "gone",
           Starting(n)' => Starting(n) /\ main'[n].vm = main[n].vm,
           NoneStarted(n)' => NoneStarted(n)
    PROVE  RunsKept(n)'
<1>. QED  BY DEF RunsKept, StartingKept, SourceKept, TargetKept, SearchKept

(* The machine main is starting, or has started.                           *)
LEMMA MainHasMachine ==
    ASSUME ProtocolInv, NEW n \in Node, main[n].step # "idle"
    PROVE  main[n].vm \in VM /\ ~NoneStarted(n)
<1>1. main[n].vm # None /\ main[n].vm \in VM \cup {None}
  BY DEF ProtocolInv, UsesWhatIsSet, UsesSet, ThreadTypes
<1>. QED  BY <1>1 DEF NoneStarted

(* Main starts a machine that does not run.                                *)
LEMMA StartVMKeepsRuns ==
    ASSUME RunsInv, [Next]_vars, NEW n \in Node, StartVM(n)
    PROVE  RunsKept(n)'
<1>. DEFINE v == main[n].vm
<1>0. /\ RunsKept(n) /\ ThreadTypes /\ RecordTypes /\ ProtocolInv
      /\ main[n].step = "launch"
      /\ UNCHANGED <<actor, locals, metadatas>>
  BY DEF RunsInv, ProtocolInv, StartVM, MainAt
<1>1. v \in VM /\ ~NoneStarted(n)
  BY <1>0, MainHasMachine
<1>2. process'[n] # "gone" => process[n] # "gone"
  BY <1>0, ProcessesOnlyGo
<1>3. CASE /\ Launchable(n, v) /\ runs' = [runs EXCEPT ![v] = @ \cup {n}]
           /\ MainGoes(n, "count")
  <2>1. main'[n].vm = v
    BY <1>0, <1>3, MainWent
  <2>2. On(n)' = On(n) \cup {v} /\ v \notin On(n) /\ incoming[n] # v
    BY <1>0, <1>1, <1>3 DEF On, Launchable, RecordTypes
  <2>3. ~HasHeld(metadatas[n], v)
    BY <1>0, <2>2 DEF RunsKept, HeldAreIn, HasHeld
  <2>4. HeldAreIn(metadatas[n], On(n)')
    BY <1>0, <2>2 DEF RunsKept, HeldAreIn
  <2>. HIDE DEF v
  <2>5. StartingKept(n)' /\ SourceKept(n)' /\ TargetKept(n)'
    BY <1>0, <2>1, <2>2, <2>3 DEF locals, RunsKept, StartingKept, SourceKept, TargetKept
  <2>6. ~NoneStarted(n)'
    BY <1>1, <2>1, TeleportAssumption DEF NoneStarted
  <2>7. HeldAreIn(metadatas[n], On(n))'
    BY <1>0, <2>4
  <2>. QED  BY <2>5, <2>6, <2>7 DEF RunsKept, SearchKept
<1>4. CASE /\ runs' = runs
           /\ main' = main \/ MainGoes(n, "wait") \/ MainGoes(n, "exiting")
  <2>1. main'[n].step \in {"launch", "wait", "exiting"} /\ main'[n].vm = v
    BY <1>0, <1>4, MainWent
  <2>2. ~Starting(n)' /\ ~NoneStarted(n)' /\ On(n)' = On(n)
    BY <1>1, <1>4, <2>1, TeleportAssumption DEF Starting, NoneStarted, On
  <2>. QED  BY <1>0, <1>2, <2>2, MainGoesOn DEF locals
<1>. QED  BY <1>3, <1>4 DEF StartVM

(* Main records it: whatever a race loses, no live session comes to be     *)
(* where none was.                                                         *)
LEMMA AddStartedKeepsRuns ==
    ASSUME RunsInv, [Next]_vars, NEW n \in Node, AddStarted(n)
    PROVE  RunsKept(n)'
<1>. DEFINE v == main[n].vm
            md == metadatas[n]
            e == Entry(v, n, <<n>>, TRUE)
            R == On(n)
<1>0. /\ RunsKept(n) /\ RecordTypes /\ ThreadTypes /\ ProtocolInv
      /\ main[n].step = "add" /\ Starting(n)
      /\ UNCHANGED <<actor, locals, runs>>
  BY DEF RunsInv, ProtocolInv, AddStarted, MainAt, Starting
<1>1. v \in VM /\ ~NoneStarted(n)
  BY <1>0, MainHasMachine
<1>2. /\ md \in Seq(EntryType) /\ main[n].len \in Nat /\ main[n].len <= Len(md)
  BY <1>0 DEF RecordTypes, ThreadTypes, ProtocolInv, UsesWhatIsSet, UsesSet
<1>3. e \in EntryType /\ e.vm = v /\ e.held
  <2>1. <<n>> \in Seq(Node)
    OBVIOUS
  <2>2. e \in EntryType
    BY <1>1, <2>1, EntryTypes
  <2>. QED  BY <2>2 DEF Entry
<1>4. main'[n].step = "idle" /\ main'[n].vm = v
  BY <1>0, MainWent DEF AddStarted
<1>5. ~Starting(n)' /\ ~NoneStarted(n)' /\ On(n)' = On(n)
  BY <1>0, <1>1, <1>4, TeleportAssumption DEF Starting, NoneStarted, On
<1>6. HeldAreIn(md, R) /\ v \in R /\ ~HasHeld(md, v)
  BY <1>0 DEF RunsKept, StartingKept
<1>. DEFINE Fine(new) == /\ HeldAreIn(new, R)
                         /\ \A w : HasHeld(new, w) => w = v \/ HasHeld(md, w)
                         /\ \A k \in DOMAIN new :
                               new[k] = e \/ \E j \in DOMAIN md : new[k] = md[j]
<1>7. Fine(md)
  BY <1>6
<1>8. ASSUME NEW c \in Seq(EntryType), HeldAreIn(c, R),
             \A w : HasHeld(c, w) => HasHeld(md, w),
             \A k \in DOMAIN c : k \in DOMAIN md /\ c[k] = md[k]
      PROVE  Fine(Append(c, e))
  <2>. HIDE DEF e
  <2>1. \A k \in DOMAIN Append(c, e) :
           Append(c, e)[k] = e \/ \E j \in DOMAIN md : Append(c, e)[k] = md[j]
    BY <1>3, <1>8, AppendKeepsRecords
  <2>2. /\ HeldAreIn(Append(c, e), R)
        /\ \A w : HasHeld(Append(c, e), w) => w = e.vm \/ HasHeld(c, w)
    BY <1>3, <1>6, <1>8, AppendHeld
  <2>. QED  BY <1>3, <1>8, <2>1, <2>2
<1>9. PICK new : /\ new \in {Append(md, e), md, Append(SubSeq(md, 1, main[n].len), e)}
                 /\ metadatas' = [metadatas EXCEPT ![n] = new]
  BY DEF AddStarted
<1>10. metadatas'[n] = new
  BY <1>0, <1>9 DEF RecordTypes
<1>11. Fine(metadatas'[n])
  <2>. DEFINE c == SubSeq(md, 1, main[n].len)
  <2>1. Fine(Append(md, e))
    BY <1>2, <1>6, <1>8
  <2>2. Fine(Append(c, e))
    <3>1. c \in Seq(EntryType) /\ HeldAreIn(c, R) /\ \A w : HasHeld(c, w) => HasHeld(md, w)
      BY <1>2, <1>6, CutHeld
    <3>2. \A k \in DOMAIN c : k \in DOMAIN md /\ c[k] = md[k]
      BY <1>2
    <3>. HIDE DEF c, Fine, e
    <3>. QED  BY <1>8, <3>1, <3>2
  <2>. HIDE DEF Fine, e
  <2>. QED  BY <1>7, <1>9, <1>10, <2>1, <2>2
<1>12. HeldAreIn(metadatas[n], On(n))'
  BY <1>5, <1>11
<1>. HIDE DEF v, e
<1>13. SourceKept(n)'
  <2>. SUFFICES ASSUME actor[n] = "teleport", session[n].held
                PROVE  /\ session[n].vm \in On(n)
                       /\ \A k \in DOMAIN metadatas'[n] :
                             metadatas'[n][k].held /\ metadatas'[n][k].vm = session[n].vm
                               => metadatas'[n][k] = session[n]
    BY <1>0, <1>5 DEF SourceKept, locals
  <2>1. /\ session[n].vm \in On(n) /\ v # session[n].vm
        /\ \A k \in DOMAIN md : md[k].held /\ md[k].vm = session[n].vm => md[k] = session[n]
    BY <1>0 DEF RunsKept, SourceKept, v
  <2>. QED  BY <1>3, <1>11, <2>1
<1>14. TargetKept(n)'
  BY <1>0, <1>5, <1>11 DEF RunsKept, TargetKept, locals, v
<1>. QED  BY <1>5, <1>12, <1>13, <1>14 DEF RunsKept, StartingKept, SearchKept

(* The steps of the main thread, as its own node sees them.                *)
LEMMA MainStep ==
    ASSUME RunsInv, [Next]_vars, NEW n \in Node, MainThread(n)
    PROVE  RunsKept(n)'
<1>0. RunsKept(n) /\ ThreadTypes /\ ProtocolInv
  BY DEF RunsInv, ProtocolInv
<1>1. CASE ReceiveTeleport(n)
  BY <1>0, <1>1, NodeUntouched DEF ReceiveTeleport, locals, On
<1>2. CASE ReceiveStart(n)
  <2>1. /\ UNCHANGED <<process, actor, locals, metadatas, runs>>
        /\ main'[n] = [step |-> "launch", vm |-> typed[n].vm, len |-> 0]
        /\ typed[n].vm \in VM
    BY <1>0, <1>2, CommandKinds DEF ReceiveStart, ThreadTypes
  <2>2. ~Starting(n)' /\ ~NoneStarted(n)' /\ On(n)' = On(n)
    BY <2>1, TeleportAssumption DEF Starting, NoneStarted, On
  <2>. QED  BY <1>0, <2>1, <2>2, MainGoesOn DEF locals
<1>3. CASE StartVM(n)
  BY <1>3, StartVMKeepsRuns
<1>4. CASE CountMetadata(n)
  <2>1. /\ UNCHANGED <<process, actor, locals, metadatas, runs>>
        /\ main[n].step = "count" /\ main'[n].vm = main[n].vm
    BY <1>0, <1>4 DEF CountMetadata, MainAt, ThreadTypes
  <2>2. Starting(n) /\ On(n)' = On(n) /\ (NoneStarted(n)' => NoneStarted(n))
    BY <2>1 DEF Starting, NoneStarted, On
  <2>. QED  BY <1>0, <2>1, <2>2, MainGoesOn DEF locals
<1>5. CASE AddStarted(n)
  BY <1>5, AddStartedKeepsRuns
<1>. QED  BY <1>1, <1>2, <1>3, <1>4, <1>5 DEF MainThread

(* What the search for a machine that runs, or does not, ends with.        *)
LEMMA FoundEndsHeld ==
    ASSUME NEW md \in Seq(EntryType), NEW v, \A k \in DOMAIN md : ~md[k].freed,
           EndsHeld(md, v), NEW k \in Found(md, v)
    PROVE  k > 0 /\ md[k].held
<1>1. PICK l \in DOMAIN md : /\ md[l].vm = v /\ md[l].held
                             /\ \A j \in DOMAIN md : j > l => md[j].vm # v
  BY DEF EndsHeld
<1>2. k \in 0 .. Len(md) /\ l \in 1 .. Len(md) /\ DOMAIN md = 1 .. Len(md)
  BY <1>1, FoundIsElement
<1>3. ~(k < l)
  <2>1. \A j \in (k + 1) .. Len(md) : md[j].freed \/ md[j].vm # v
    BY DEF Found
  <2>2. k < l => l \in (k + 1) .. Len(md)
    BY <1>2
  <2>. QED  BY <1>1, <2>1, <2>2
<1>4. k > 0 /\ k \in DOMAIN md
  BY <1>2, <1>3
<1>5. md[k].vm = v
  BY <1>4 DEF Found
<1>6. ~(k > l)
  BY <1>1, <1>4, <1>5
<1>7. k = l
  BY <1>2, <1>3, <1>6
<1>. QED  BY <1>1, <1>4, <1>7

(* The target launches a machine that neither runs nor is being started.   *)
LEMMA HearNameKeepsRuns ==
    ASSUME RunsInv, [Next]_vars, NEW n \in Node, HearName(n)
    PROVE  RunsKept(n)'
<1>0. /\ RunsKept(n) /\ ThreadTypes /\ LocalTypes /\ ProtocolInv /\ actor[n] = "name"
      /\ UNCHANGED <<main, metadatas, session, vm_name>>
  BY DEF RunsInv, ProtocolInv, HearName
<1>1. process'[n] # "gone" => process[n] # "gone"
  BY <1>0, ProcessesOnlyGo
<1>2. PICK c \in Waiting(n) :
         \/ /\ Launchable(n, conv[c].request.vm)
            /\ Prepares(n, conv[c].request.vm)
            /\ actor' = [actor EXCEPT ![n] = "incoming"]
         \/ Halts(n) /\ UNCHANGED <<incoming, runs>>
         \/ Crashes(n) /\ UNCHANGED <<incoming, runs, actor>>
  BY DEF HearName
<1>3. On(n)' = On(n)
  BY <1>2 DEF On, Prepares
<1>4. CASE /\ Launchable(n, conv[c].request.vm) /\ Prepares(n, conv[c].request.vm)
           /\ actor' = [actor EXCEPT ![n] = "incoming"]
  <2>. DEFINE v == conv[c].request.vm
  <2>1. actor'[n] = "incoming" /\ incoming'[n] = v /\ v \notin On(n)
    BY <1>0, <1>4 DEF Prepares, Launchable, On, ThreadTypes, LocalTypes
  <2>. HIDE DEF v
  <2>2. Starting(n) => main[n].vm # v
    BY <1>0, <2>1 DEF RunsKept, StartingKept
  <2>3. HeldAreIn(metadatas[n], On(n))' /\ StartingKept(n)'
    BY <1>0, <1>3 DEF RunsKept, StartingKept, Starting
  <2>4. SourceKept(n)' /\ TargetKept(n)'
    BY <1>0, <1>3, <2>1, <2>2 DEF SourceKept, TargetKept, Starting
  <2>5. SearchKept(n)'
    BY <1>0, <1>1, <1>3, <2>1 DEF RunsKept, SearchKept, NoneStarted
  <2>. QED  BY <2>3, <2>4, <2>5 DEF RunsKept
<1>5. CASE Halts(n)
  <2>1. actor'[n] = "halted"
    BY <1>0, <1>5 DEF Halts, ThreadTypes
  <2>. QED  BY <1>0, <1>1, <1>3, <2>1, ActorLetsGo
<1>6. CASE Crashes(n) /\ UNCHANGED <<incoming, actor>>
  BY <1>0, <1>1, <1>3, <1>6, NodeUntouched
<1>. QED  BY <1>2, <1>4, <1>5, <1>6

(* The target hears the metadata and adds the element, or crashes.         *)
LEMMA HeardOrCrashed ==
    ASSUME ProtocolInv, NEW n \in Node, HearMetadata(n)
    PROVE  \/ metadatas' = metadatas /\ process'[n] = "gone"
           \/ \E e \in EntryType : /\ e.vm = incoming[n] /\ e.held /\ ~e.freed
                                   /\ metadatas'[n] = Append(metadatas[n], e)
<1>0. incoming[n] \in VM /\ ThreadTypes /\ metadatas \in [Node -> Seq(EntryType)]
  BY DEF HearMetadata, ProtocolInv, UsesWhatIsSet, UsesSet, LocalTypes, RecordTypes
<1>1. PICK c \in Waiting(n) :
         \/ /\ conv[c].request.type = "metadata"
            /\ metadatas' = [metadatas EXCEPT ![n] = Append(@,
                 Entry(incoming[n], conv[c].request.home,
                       Append(conv[c].request.history, n), FALSE))]
         \/ Crashes(n) /\ metadatas' = metadatas
  BY DEF HearMetadata
<1>. DEFINE r == conv[c].request
            e == Entry(incoming[n], r.home, Append(r.history, n), FALSE)
<1>2. CASE /\ r.type = "metadata" /\ metadatas' = [metadatas EXCEPT ![n] = Append(@, e)]
  <2>1. r \in RequestType
    BY ConvTypes DEF ProtocolInv, RecordTypes, Waiting
  <2>2. r.home \in Node /\ Append(r.history, n) \in Seq(Node)
    BY <1>2, <2>1, MessageKinds
  <2>3. e \in EntryType
    BY <1>0, <2>2, EntryTypes
  <2>4. e.vm = incoming[n] /\ e.held /\ ~e.freed
    BY DEF Entry
  <2>. QED  BY <1>0, <1>2, <2>3, <2>4
<1>3. CASE Crashes(n) /\ metadatas' = metadatas
  BY <1>0, <1>3 DEF Crashes, ThreadTypes
<1>. QED  BY <1>1, <1>2, <1>3

(* The target records the machine, which runs by now.                      *)
LEMMA HearMetadataKeepsRuns ==
    ASSUME RunsInv, [Next]_vars, NEW n \in Node, HearMetadata(n)
    PROVE  RunsKept(n)'
<1>. DEFINE v == incoming[n]
            md == metadatas[n]
            R == On(n)
<1>0. /\ RunsKept(n) /\ ThreadTypes /\ RecordTypes /\ ProtocolInv /\ actor[n] = "metadata"
      /\ UNCHANGED <<main, runs, session, vm_name>> /\ actor'[n] = "poll"
  BY DEF RunsInv, ProtocolInv, HearMetadata, ThreadTypes
<1>1. process'[n] # "gone" => process[n] # "gone"
  BY <1>0, ProcessesOnlyGo
<1>2. On(n)' = R
  BY <1>0 DEF On
<1>3. CASE metadatas' = metadatas /\ process'[n] = "gone"
  BY <1>0, <1>2, <1>3, ActorLetsGo
<1>4. ASSUME NEW e \in EntryType, e.vm = v, e.held, ~e.freed, metadatas'[n] = Append(md, e)
      PROVE  RunsKept(n)'
  <2>1. /\ v \in R /\ ~HasHeld(md, v) /\ HeldAreIn(md, R) /\ md \in Seq(EntryType)
        /\ Starting(n) => main[n].vm # v /\ ~HasHeld(md, main[n].vm) /\ main[n].vm \in R
    BY <1>0 DEF RunsKept, TargetKept, StartingKept, RecordTypes
  <2>. DEFINE new == Append(md, e)
  <2>2. /\ HeldAreIn(new, R)
        /\ \A w : HasHeld(new, w) => w = v \/ HasHeld(md, w)
        /\ EndsHeld(new, v)
        /\ \A w : w # v /\ EndsHeld(md, w) => EndsHeld(new, w)
        /\ \A k \in DOMAIN new : new[k].freed => \E j \in DOMAIN md : md[j].freed
    BY <1>4, <2>1, AppendHeld
  <2>. HIDE DEF new
  <2>3. metadatas'[n] = new
    BY <1>4 DEF new
  <2>4. HeldAreIn(metadatas[n], On(n))' /\ StartingKept(n)'
    BY <1>0, <1>2, <2>1, <2>2, <2>3 DEF StartingKept, Starting
  <2>5. SourceKept(n)' /\ TargetKept(n)'
    BY <1>0 DEF SourceKept, TargetKept
  <2>6. SearchKept(n)'
    <3>1. ASSUME NoneStarted(n), process[n] # "gone", NEW w \in R
          PROVE  EndsHeld(new, w)
      <4>1. v = w \/ EndsHeld(md, w)
        BY <1>0, <3>1 DEF RunsKept, SearchKept
      <4>. QED  BY <2>2, <4>1
    <3>2. NoneStarted(n) => \A k \in DOMAIN new : ~new[k].freed
      BY <1>0, <2>2 DEF RunsKept, SearchKept
    <3>. QED  BY <1>0, <1>1, <1>2, <2>3, <3>1, <3>2 DEF SearchKept, NoneStarted
  <2>. QED  BY <2>4, <2>5, <2>6 DEF RunsKept
<1>. QED  BY <1>0, <1>3, <1>4, HeardOrCrashed

(* The source takes the session that is live, or knows the machine is not  *)
(* up.                                                                     *)
LEMMA HearGoKeepsRuns ==
    ASSUME RunsInv, [Next]_vars, NEW n \in Node, HearGo(n)
    PROVE  RunsKept(n)'
<1>. DEFINE v == vm_name[n]
            md == metadatas[n]
            R == On(n)
<1>0. /\ RunsKept(n) /\ ThreadTypes /\ LocalTypes /\ RecordTypes /\ ProtocolInv
      /\ actor[n] = "poll" /\ process[n] # "gone"
      /\ UNCHANGED <<main, runs, metadatas, vm_name, process, incoming>>
  BY DEF RunsInv, ProtocolInv, HearGo, HearsSender, Polls
<1>1. On(n)' = R /\ md \in Seq(EntryType)
  BY <1>0 DEF On, RecordTypes
<1>2. PICK k \in Found(md, v) :
         IF k = 0
         THEN actor' = [actor EXCEPT ![n] = "launch"]
         ELSE /\ actor' = [actor EXCEPT ![n] = "teleport"]
              /\ session' = [session EXCEPT ![n] = md[k]]
  BY DEF HearGo
<1>3. HeldAreIn(md, R)' /\ StartingKept(n)' /\ HeldAreIn(md, R)
  BY <1>0, <1>1 DEF RunsKept, StartingKept, Starting
<1>4. CASE k = 0
  <2>1. actor'[n] = "launch"
    BY <1>0, <1>2, <1>4 DEF ThreadTypes
  <2>2. NoneStarted(n) => v \notin R
    <3>. SUFFICES ASSUME NoneStarted(n), v \in R PROVE FALSE
      OBVIOUS
    <3>1. EndsHeld(md, v) /\ \A j \in DOMAIN md : ~md[j].freed
      BY <1>0 DEF RunsKept, SearchKept
    <3>2. k > 0
      BY <1>1, <3>1, FoundEndsHeld
    <3>. QED  BY <1>4, <3>2
  <2>3. SearchKept(n)'
    BY <1>0, <1>1, <2>1, <2>2 DEF RunsKept, SearchKept, NoneStarted
  <2>4. SourceKept(n)' /\ TargetKept(n)'
    BY <2>1 DEF SourceKept, TargetKept
  <2>. QED  BY <1>0, <1>3, <2>3, <2>4 DEF RunsKept
<1>5. CASE k # 0
  <2>1. actor'[n] = "teleport" /\ session'[n] = md[k]
    BY <1>0, <1>2, <1>5 DEF ThreadTypes, LocalTypes
  <2>2. k \in DOMAIN md
    BY <1>1, <1>5, FoundIsElement
  <2>3. md[k].held => /\ md[k].vm \in R
                      /\ \A j \in DOMAIN md : md[j].held /\ md[j].vm = md[k].vm => md[j] = md[k]
                      /\ Starting(n) => main[n].vm # md[k].vm
    BY <1>0, <1>3, <2>2 DEF HeldAreIn, RunsKept, StartingKept, HasHeld
  <2>4. SourceKept(n)' /\ TargetKept(n)'
    BY <1>0, <1>1, <2>1, <2>3 DEF SourceKept, TargetKept, Starting
  <2>5. SearchKept(n)'
    BY <1>0, <1>1, <2>1 DEF RunsKept, SearchKept, NoneStarted
  <2>. QED  BY <1>0, <1>3, <2>4, <2>5 DEF RunsKept
<1>. QED  BY <1>4, <1>5

(* The source starts a machine that does not run, and records it.          *)
LEMMA LaunchVMKeepsRuns ==
    ASSUME RunsInv, [Next]_vars, NEW n \in Node, LaunchVM(n)
    PROVE  RunsKept(n)'
<1>. DEFINE v == vm_name[n]
            md == metadatas[n]
            e == Entry(v, n, <<n>>, FALSE)
            R == On(n)
<1>0. /\ RunsKept(n) /\ ThreadTypes /\ LocalTypes /\ RecordTypes /\ ProtocolInv
      /\ actor[n] = "launch" /\ process[n] # "gone"
      /\ UNCHANGED <<main, vm_name, incoming>>
  BY DEF RunsInv, ProtocolInv, LaunchVM
<1>1. v \in VM /\ md \in Seq(EntryType)
  BY <1>0 DEF ProtocolInv, UsesWhatIsSet, UsesSet, LocalTypes, RecordTypes
<1>2. e \in EntryType /\ e.vm = v /\ e.held /\ ~e.freed
  <2>1. <<n>> \in Seq(Node)
    OBVIOUS
  <2>2. e \in EntryType
    BY <1>1, <2>1, EntryTypes
  <2>. QED  BY <2>2 DEF Entry
<1>3. CASE Crashes(n) /\ UNCHANGED <<runs, metadatas, session, actor>>
  <2>1. process'[n] = "gone" /\ On(n)' = On(n)
    BY <1>0, <1>3 DEF Crashes, ThreadTypes, On
  <2>. QED  BY <1>0, <1>3, <2>1, NodeUntouched
<1>4. CASE /\ Launchable(n, v) /\ process' = process
           /\ runs' = [runs EXCEPT ![v] = @ \cup {n}]
           /\ metadatas' = [metadatas EXCEPT ![n] = Append(@, e)]
           /\ session' = [session EXCEPT ![n] = e]
           /\ actor' = [actor EXCEPT ![n] = "teleport"]
  <2>1. On(n)' = R \cup {v} /\ v \notin R
    BY <1>0, <1>1, <1>4 DEF On, Launchable, RecordTypes
  <2>2. metadatas'[n] = Append(md, e) /\ session'[n] = e /\ actor'[n] = "teleport"
    BY <1>0, <1>4 DEF ThreadTypes, LocalTypes, RecordTypes
  <2>3. /\ HeldAreIn(md, R) /\ ~HasHeld(md, v)
        /\ Starting(n) => main[n].vm \in R /\ ~HasHeld(md, main[n].vm)
    BY <1>0, <2>1 DEF RunsKept, HeldAreIn, HasHeld, StartingKept
  <2>. DEFINE new == Append(md, e)
              R2 == On(n)'
  <2>. HIDE DEF e
  <2>4. /\ HeldAreIn(new, R2)
        /\ \A w : HasHeld(new, w) => w = v \/ HasHeld(md, w)
        /\ EndsHeld(new, v)
        /\ \A w : w # v /\ EndsHeld(md, w) => EndsHeld(new, w)
        /\ \A k \in DOMAIN new : new[k].freed => \E j \in DOMAIN md : md[j].freed
    BY <1>1, <1>2, <2>1, <2>3, AppendHeld
  <2>5. \A k \in DOMAIN new : new[k] = e \/ (k \in DOMAIN md /\ new[k] = md[k])
    BY <1>1, <1>2, AppendKeepsRecords
  <2>. HIDE DEF new
  <2>6. metadatas'[n] = new
    BY <2>2 DEF new
  <2>7. HeldAreIn(metadatas[n], On(n))'
    BY <2>4, <2>6
  <2>8. Starting(n)' => main[n].vm \in R /\ main[n].vm # v /\ ~HasHeld(new, main[n].vm)
    BY <1>0, <2>1, <2>3, <2>4 DEF Starting
  <2>9. StartingKept(n)'
    BY <1>0, <2>1, <2>6, <2>8 DEF StartingKept
  <2>10. SourceKept(n)'
    <3>1. \A k \in DOMAIN new : new[k].held /\ new[k].vm = v => new[k] = e
      BY <2>3, <2>5 DEF HasHeld
    <3>. QED  BY <1>0, <1>2, <2>1, <2>2, <2>6, <2>8, <3>1 DEF SourceKept
  <2>11. TargetKept(n)'
    BY <2>2 DEF TargetKept
  <2>12. SearchKept(n)'
    <3>1. ASSUME NoneStarted(n), NEW w \in R2 PROVE EndsHeld(new, w)
      <4>1. w = v \/ EndsHeld(md, w)
        BY <1>0, <2>1, <3>1 DEF RunsKept, SearchKept
      <4>. QED  BY <2>4, <4>1
    <3>2. NoneStarted(n) => \A k \in DOMAIN new : ~new[k].freed
      BY <1>0, <2>4 DEF RunsKept, SearchKept
    <3>. QED  BY <1>0, <2>2, <2>6, <3>1, <3>2 DEF SearchKept, NoneStarted
  <2>. QED  BY <2>7, <2>9, <2>10, <2>11, <2>12 DEF RunsKept
<1>. QED  BY <1>3, <1>4 DEF LaunchVM

(* The machine leaves its source, which releases the one session it had.   *)
LEMMA ArriveKeepsRuns ==
    ASSUME RunsInv, [Next]_vars, NEW n \in Node, Arrive(n)
    PROVE  RunsKept(n)'
<1>. DEFINE e == session[n]
            md == metadatas[n]
            t == target_ip[n]
            R == On(n)
<1>0. /\ RunsKept(n) /\ ThreadTypes /\ LocalTypes /\ RecordTypes /\ ProtocolInv
      /\ actor[n] = "teleport" /\ e.held /\ t \in Node \ {n}
      /\ UNCHANGED <<main, vm_name, incoming, process>>
      /\ runs' = [runs EXCEPT ![e.vm] = (@ \ {n}) \cup {t}]
      /\ actor' = [actor EXCEPT ![n] = "poll", ![t] = "metadata"]
      /\ metadatas' = [metadatas EXCEPT ![n] = Release(@, e)]
  BY DEF RunsInv, ProtocolInv, Arrive, Expected
<1>1. e \in EntryType /\ md \in Seq(EntryType)
  BY <1>0 DEF ProtocolInv, UsesWhatIsSet, UsesSet, LocalTypes, RecordTypes
<1>2. /\ HeldAreIn(md, R)
      /\ \A k \in DOMAIN md : md[k].held /\ md[k].vm = e.vm => md[k] = e
      /\ Starting(n) => /\ main[n].vm # e.vm /\ main[n].vm \in R
                        /\ ~HasHeld(md, main[n].vm)
  BY <1>0 DEF RunsKept, SourceKept, StartingKept
<1>3. On(n)' = R \ {e.vm} /\ actor'[n] = "poll" /\ metadatas'[n] = Release(md, e)
  BY <1>0 DEF On, RecordTypes, ThreadTypes
<1>. DEFINE new == Release(md, e)
<1>4. /\ HeldAreIn(new, R \ {e.vm})
      /\ \A w : HasHeld(new, w) => HasHeld(md, w)
      /\ \A w : w # e.vm /\ EndsHeld(md, w) => EndsHeld(new, w)
      /\ \A k \in DOMAIN new : new[k].freed => \E j \in DOMAIN md : md[j].freed
  BY <1>1, <1>2, ReleaseHeld
<1>. HIDE DEF new, e
<1>5. metadatas'[n] = new
  BY <1>3 DEF new
<1>6. HeldAreIn(metadatas[n], On(n))' /\ StartingKept(n)'
  BY <1>0, <1>2, <1>3, <1>4, <1>5 DEF StartingKept, Starting
<1>7. SourceKept(n)' /\ TargetKept(n)'
  BY <1>3 DEF SourceKept, TargetKept
<1>8. SearchKept(n)'
  <2>1. ASSUME NoneStarted(n), process[n] # "gone", NEW w \in R, w # e.vm
        PROVE  EndsHeld(new, w)
    <3>1. EndsHeld(md, w)
      BY <1>0, <2>1 DEF RunsKept, SearchKept
    <3>. QED  BY <1>4, <2>1, <3>1
  <2>2. NoneStarted(n) => \A k \in DOMAIN new : ~new[k].freed
    BY <1>0, <1>4 DEF RunsKept, SearchKept
  <2>. QED  BY <1>0, <1>3, <1>5, <2>1, <2>2 DEF SearchKept, NoneStarted
<1>. QED  BY <1>6, <1>7, <1>8 DEF RunsKept

(* The steps of the actor, as its own node sees them.                      *)
LEMMA ActorOwnStep ==
    ASSUME RunsInv, [Next]_vars, NEW n \in Node, ActorThread(n)
    PROVE  RunsKept(n)'
<1>0. RunsKept(n) /\ ThreadTypes /\ ProtocolInv
  BY DEF RunsInv, ProtocolInv
<1>1. process'[n] # "gone" => process[n] # "gone"
  BY <1>0, ProcessesOnlyGo
<1>2. CASE Command(n) \/ SendName(n) \/ HearAnnounce(n) \/ HearOld(n) \/ Fail(n)
  <2>1. UNCHANGED <<main, metadatas, runs>> /\ actor[n] # "metadata"
    BY <1>2 DEF Command, TakesCommand, SendName, HearAnnounce, HearOld,
       HearsSender, Polls, Fail
  <2>2. actor'[n] \in {"poll", "signal", "name", "pipe", "halted"}
    BY <1>0, <1>2 DEF Command, SendName, HearAnnounce, HearOld, Fail, ThreadTypes
  <2>3. On(n)' = On(n)
    BY <2>1 DEF On
  <2>. QED  BY <1>0, <1>1, <2>1, <2>2, <2>3, ActorLetsGo
<1>3. CASE CommandTerm(n) \/ FailAtOnce(n)
  <2>1. UNCHANGED <<main, metadatas, runs, actor, locals>>
    BY <1>3 DEF CommandTerm, FailAtOnce
  <2>. QED  BY <1>0, <1>1, <2>1, NodeUntouched DEF On, locals
<1>. QED  BY <1>2, <1>3, HearNameKeepsRuns, HearMetadataKeepsRuns, HearGoKeepsRuns,
          LaunchVMKeepsRuns, ArriveKeepsRuns DEF ActorThread

(* So every step keeps what metadatas says of the machines that run.       *)
LEMMA RunsInvInductive == RunsInv /\ [Next]_vars => RunsInv'
<1>. SUFFICES ASSUME RunsInv, [Next]_vars PROVE RunsInv'
  OBVIOUS
<1>1. ProtocolInv'
  BY ProtocolStep DEF RunsInv
<1>2. ASSUME NEW n \in Node PROVE RunsKept(n)'
  <2>1. CASE UNCHANGED vars
    BY <2>1, NodeUntouched DEF RunsInv, vars, On
  <2>2. ASSUME NEW m \in Node,
               \/ \E command \in TeleportCommand \cup StartCommand : Type(m, command)
               \/ MainThread(m) \/ ActorThread(m)
        PROVE  RunsKept(n)'
    <3>1. CASE m # n
      BY <2>2, <3>1, StepElsewhere
    <3>2. ASSUME m = n, NEW command \in TeleportCommand \cup StartCommand, Type(m, command)
          PROVE  RunsKept(n)'
      BY <3>2, NodeUntouched DEF RunsInv, Type, threads, locals, On
    <3>. QED  BY <2>2, <3>1, <3>2, MainStep, ActorOwnStep
  <2>. QED  BY <2>1, <2>2 DEF Next
<1>. QED  BY <1>1, <1>2 DEF RunsInv

(* No machine runs at the start.                                           *)
LEMMA RunsInitially == Init => RunsInv
<1>. SUFFICES ASSUME Init, NEW n \in Node PROVE RunsKept(n)
  BY ProtocolInitially DEF RunsInv
<1>1. On(n) = {} /\ metadatas[n] = <<>> /\ main[n].step = "idle" /\ actor[n] = "poll"
  BY DEF Init, On
<1>. QED  BY <1>1 DEF RunsKept, HeldAreIn, StartingKept, Starting, SourceKept,
          TargetKept, SearchKept

(* What metadatas says of the machines that run is an invariant.           *)
THEOREM RunsInvariant == Spec => []RunsInv
<1>. QED  BY RunsInitially, RunsInvInductive, PTL DEF Spec

(* An executer holds a session only of machines that run on its host, and  *)
(* one of each, whatever users type, VirtualBox fails and races lose.      *)
THEOREM HeldRunsAlways == Spec => []HeldRuns
<1>1. RunsInv => HeldRuns
  BY DEF RunsInv, RunsKept, HeldAreIn, On, HeldRuns
<1>. QED  BY <1>1, RunsInvariant, PTL

(* Where main has started nothing, the search for a machine that runs ends *)
(* at its live session, past all stale elements.                           *)
THEOREM RunningIsFoundAlways == Spec => []RunningIsFound
<1>1. RunsInv => RunningIsFound
  <2>. SUFFICES ASSUME RunsInv, NEW n \in Node, NEW v \in VM,
                       NoneStarted(n), n \in runs[v], process[n] = "running",
                       actor[n] # "metadata", NEW k \in Found(metadatas[n], v)
                PROVE  k > 0 /\ metadatas[n][k].held
    BY DEF RunningIsFound
  <2>1. EndsHeld(metadatas[n], v) /\ \A j \in DOMAIN metadatas[n] : ~metadatas[n][j].freed
    BY DEF RunsInv, RunsKept, SearchKept, On
  <2>2. metadatas[n] \in Seq(EntryType)
    BY DEF RunsInv, ProtocolInv, RecordTypes
  <2>. QED  BY <2>1, <2>2, FoundEndsHeld
<1>. QED  BY <1>1, RunsInvariant, PTL

(* Where main has started nothing, a machine the source did not find up is *)
(* not up: its launch is not refused.                                      *)
THEOREM NotUpIsStoppedAlways == Spec => []NotUpIsStopped
<1>1. RunsInv => NotUpIsStopped
  <2>. SUFFICES ASSUME RunsInv, NEW n \in Node, NoneStarted(n), actor[n] = "launch"
                PROVE  n \notin runs[vm_name[n]]
    BY DEF NotUpIsStopped
  <2>1. vm_name[n] \notin On(n)
    BY DEF RunsInv, RunsKept, SearchKept
  <2>2. vm_name[n] \in VM
    BY DEF RunsInv, ProtocolInv, UsesWhatIsSet, UsesSet, LocalTypes
  <2>. QED  BY <2>1, <2>2 DEF On
<1>. QED  BY <1>1, RunsInvariant, PTL

-----------------------------------------------------------------------------
(* One command at a time                                                   *)

Alive(n) == process[n] # "gone"

(* Where the command in progress may be: typed, handed to the actor, in    *)
(* main's hands, in a conversation, or about to launch or teleport.        *)
Stage == {"typed", "pipe", "main", "conv", "actor"}

Busy(s) ==
    CASE s = "typed" -> {n \in Node : typed[n] # None}
      [] s = "pipe" -> {n \in Node : Alive(n) /\ \E k \in DOMAIN pipe[n] : pipe[n][k] # Term}
      [] s = "main" -> {n \in Node : Alive(n) /\ main[n].step # "idle"}
      [] s = "conv" -> {c \in DOMAIN conv : conv[c].request # Silent \/ conv[c].reply # "none"}
      [] s = "actor" -> {n \in Node : Alive(n) /\ actor[n] \in {"launch", "teleport"}}

(* It is at one of these places, once, and a conversation is waiting on    *)
(* one side only.                                                          *)
OnePlace ==
    \A s, t \in Stage : \A x \in Busy(s), y \in Busy(t) : s = t /\ x = y

PipedOnce ==
    \A n \in Node : Alive(n) =>
        \A j, k \in DOMAIN pipe[n] : pipe[n][j] # Term /\ pipe[n][k] # Term => j = k

Alternating == \A c \in DOMAIN conv : conv[c].reply # "none" => conv[c].request = Silent

(* The machine the command is about runs on the host it was typed at, or   *)
(* nowhere, until it is teleported.                                        *)
Alone(v, n) == runs[v] \subseteq {n}

AloneAt(s) ==
    CASE s = "typed" -> \A n \in Busy("typed") : Alone(typed[n].vm, n)
      [] s = "pipe" -> \A n \in Busy("pipe") : \A k \in DOMAIN pipe[n] :
                          pipe[n][k] # Term => Alone(pipe[n][k].vm, n)
      [] s = "main" -> \A n \in Busy("main") : main[n].step = "launch" => Alone(main[n].vm, n)
      [] s = "conv" -> \A c \in Busy("conv") : ~IsMetadata(c) =>
                          Alone(vm_name[conv[c].from], conv[c].from)
      [] s = "actor" -> \A n \in Busy("actor") : Alone(vm_name[n], n)

OneEach == \A v \in VM : \A n, m \in runs[v] : n = m

OneCommand ==
    /\ OnePlace /\ PipedOnce /\ Alternating
    /\ \A s \in Stage : AloneAt(s)
    /\ OneEach

(* The inductive invariant.                                                *)
CarefulInv == Careful /\ RunsInv /\ OneCommand

-----------------------------------------------------------------------------
(* The elements of a sequence that grew by one, or lost its first.         *)
LEMMA AppendedAt ==
    ASSUME NEW S, NEW s \in Seq(S), NEW x \in S, NEW k \in DOMAIN Append(s, x)
    PROVE  \/ k \in DOMAIN s /\ Append(s, x)[k] = s[k]
           \/ k = Len(s) + 1 /\ Append(s, x)[k] = x
<1>. QED  OBVIOUS

LEMMA TailAt ==
    ASSUME NEW S, NEW s \in Seq(S), s # <<>>, NEW k \in DOMAIN Tail(s)
    PROVE  /\ k + 1 \in DOMAIN s /\ Tail(s)[k] = s[k + 1] /\ k + 1 # 1
           /\ 1 \in DOMAIN s /\ s[1] = Head(s)
<1>. QED  OBVIOUS

(* The places and claims, one by one.                                      *)
LEMMA Places ==
    /\ Busy("typed") = {n \in Node : typed[n] # None}
    /\ Busy("pipe") = {n \in Node : Alive(n) /\ \E k \in DOMAIN pipe[n] : pipe[n][k] # Term}
    /\ Busy("main") = {n \in Node : Alive(n) /\ main[n].step # "idle"}
    /\ Busy("conv") = {c \in DOMAIN conv : conv[c].request # Silent \/ conv[c].reply # "none"}
    /\ Busy("actor") = {n \in Node : Alive(n) /\ actor[n] \in {"launch", "teleport"}}
<1>. QED  BY DEF Busy

LEMMA Claims ==
    /\ AloneAt("typed") <=> \A n \in Busy("typed") : Alone(typed[n].vm, n)
    /\ AloneAt("pipe") <=> \A n \in Busy("pipe") : \A k \in DOMAIN pipe[n] :
                              pipe[n][k] # Term => Alone(pipe[n][k].vm, n)
    /\ AloneAt("main") <=> \A n \in Busy("main") :
                              main[n].step = "launch" => Alone(main[n].vm, n)
    /\ AloneAt("conv") <=> \A c \in Busy("conv") : ~IsMetadata(c) =>
                              Alone(vm_name[conv[c].from], conv[c].from)
    /\ AloneAt("actor") <=> \A n \in Busy("actor") : Alone(vm_name[n], n)
<1>. QED  BY DEF AloneAt

(* The command stays where it is, or is gone.                              *)
LEMMA PlaceStays ==
    ASSUME OnePlace, \A s \in Stage : Busy(s)' \subseteq Busy(s)
    PROVE  OnePlace'
<1>. QED  BY DEF OnePlace

(* The command goes from x, its place in stage s, to y in stage t.         *)
LEMMA PlaceMoves ==
    ASSUME OnePlace, NEW s \in Stage, NEW x \in Busy(s), x \notin Busy(s)',
           NEW t \in Stage, t # s, NEW y, Busy(t)' \subseteq Busy(t) \cup {y},
           \A u \in Stage : u # t => Busy(u)' \subseteq Busy(u)
    PROVE  OnePlace' /\ \A u \in Stage : \A z \in Busy(u)' : u = t /\ z = y
<1>1. ASSUME NEW u \in Stage, NEW z \in Busy(u)' PROVE u = t /\ z = y
  <2>1. CASE u # t
    <3>1. z \in Busy(u)
      BY <1>1, <2>1
    <3>2. u = s /\ z = x
      BY <3>1 DEF OnePlace
    <3>. QED  BY <1>1, <3>2
  <2>2. CASE u = t
    <3>1. z \in Busy(t) => t = s
      BY DEF OnePlace
    <3>. QED  BY <1>1, <2>2, <3>1
  <2>. QED  BY <2>1, <2>2
<1>. QED  BY <1>1 DEF OnePlace

(* What a step does not change, it leaves in place, and true.              *)
LEMMA LeftInPlace ==
    ASSUME ProtocolInv, [Next]_vars
    PROVE  /\ typed' = typed => Busy("typed")' \subseteq Busy("typed")
           /\ pipe' = pipe => Busy("pipe")' \subseteq Busy("pipe")
           /\ main' = main => Busy("main")' \subseteq Busy("main")
           /\ conv' = conv => Busy("conv")' \subseteq Busy("conv")
           /\ actor' = actor => Busy("actor")' \subseteq Busy("actor")
<1>1. \A n \in Node : Alive(n)' => Alive(n)
  BY ProcessesOnlyGo DEF Alive
<1>. QED  BY <1>1 DEF Busy, Alive

LEMMA LeftTrue ==
    ASSUME ProtocolInv, [Next]_vars, runs' = runs, \A s \in Stage : AloneAt(s)
    PROVE  /\ typed' = typed => AloneAt("typed")'
           /\ pipe' = pipe => AloneAt("pipe")'
           /\ main' = main => AloneAt("main")'
           /\ conv' = conv /\ vm_name' = vm_name => AloneAt("conv")'
           /\ actor' = actor /\ vm_name' = vm_name => AloneAt("actor")'
<1>1. AloneAt("typed") /\ AloneAt("pipe") /\ AloneAt("main") /\ AloneAt("conv") /\ AloneAt("actor")
  BY DEF Stage
<1>. QED  BY <1>1, LeftInPlace DEF AloneAt, Alone, IsMetadata

LEMMA LeftOnce ==
    ASSUME ProtocolInv, [Next]_vars, PipedOnce, pipe' = pipe
    PROVE  PipedOnce'
<1>1. \A n \in Node : Alive(n)' => Alive(n)
  BY ProcessesOnlyGo DEF Alive
<1>. QED  BY <1>1 DEF PipedOnce

(* An actor goes on, not to launch or teleport; or some end.               *)
LEMMA ActorLeaves ==
    ASSUME ProtocolInv, [Next]_vars, OneCommand, runs' = runs, vm_name' = vm_name,
           \A n \in Node : actor'[n] = actor[n] \/ actor'[n] \notin {"launch", "teleport"}
    PROVE  Busy("actor")' \subseteq Busy("actor") /\ AloneAt("actor")'
<1>1. \A n \in Node : Alive(n)' => Alive(n)
  BY ProcessesOnlyGo DEF Alive
<1>2. Busy("actor")' \subseteq Busy("actor")
  BY <1>1 DEF Busy, Alive
<1>3. AloneAt("actor")
  BY DEF OneCommand, Stage
<1>. QED  BY <1>2, <1>3 DEF AloneAt, Alone

(* A conversation goes on, or ends.                                        *)
LEMMA TalkGoesOn ==
    ASSUME OneCommand, runs' = runs, vm_name' = vm_name,
           NEW c \in Busy("conv"), DOMAIN conv' = DOMAIN conv,
           \A d \in DOMAIN conv : /\ conv'[d].from = conv[d].from
                                  /\ d # c => conv'[d] = conv[d],
           conv'[c].reply # "none" => conv'[c].request = Silent,
           c \in Busy("conv")' => ~IsMetadata(c)
    PROVE  /\ Busy("conv")' \subseteq Busy("conv")
           /\ Alternating' /\ AloneAt("conv")'
<1>1. Busy("conv")' \subseteq Busy("conv")
  BY DEF Busy
<1>2. Alternating'
  BY DEF OneCommand, Alternating
<1>3. AloneAt("conv")
  BY DEF OneCommand, Stage
<1>4. ASSUME NEW d \in Busy("conv")', ~IsMetadata(d)'
      PROVE  Alone(vm_name[conv[d].from], conv[d].from)'
  <2>1. d \in Busy("conv") /\ d \in DOMAIN conv
    BY <1>1, Places
  <2>2. ~IsMetadata(d)
    BY <1>4, <2>1 DEF IsMetadata
  <2>. QED  BY <1>3, <2>1, <2>2 DEF AloneAt, Alone
<1>5. AloneAt("conv")'
  BY <1>4 DEF AloneAt
<1>. QED  BY <1>1, <1>2, <1>5

(* A step that only lets the command go on where it is.                    *)
LEMMA StaysOneCommand ==
    ASSUME OneCommand, runs' = runs, PipedOnce', Alternating',
           \A s \in Stage : Busy(s)' \subseteq Busy(s) /\ AloneAt(s)'
    PROVE  OneCommand'
<1>. QED  BY PlaceStays DEF OneCommand, OneEach

-----------------------------------------------------------------------------
(* Quiet hosts have no command in progress; a new one is about a machine   *)
(* that runs there or nowhere.                                             *)
LEMMA TypeKeepsOne ==
    ASSUME CarefulInv, [Next]_vars, NEW n \in Node,
           NEW command \in TeleportCommand \cup StartCommand, Type(n, command)
    PROVE  OneCommand'
<1>0. /\ OneCommand /\ Quiet /\ Alone(command.vm, n) /\ ProtocolInv
      /\ typed' = [typed EXCEPT ![n] = command]
      /\ UNCHANGED <<threads, locals, conv, runs>>
  BY DEF CarefulInv, RunsInv, Type, Alone
<1>. USE DEF threads, locals
<1>1. \A s \in Stage : Busy(s) = {}
  BY <1>0 DEF Busy, Quiet, Stage, Alive
<1>2. \A s \in Stage : s # "typed" => Busy(s)' = {}
  BY <1>0, <1>1, LeftInPlace DEF Stage
<1>3. Busy("typed")' \subseteq {n}
  BY <1>0, Places, <1>1 DEF Busy, Stage, ProtocolInv, ThreadTypes
<1>4. OnePlace'
  BY <1>2, <1>3 DEF OnePlace
<1>5. AloneAt("typed")'
  BY <1>0, <1>3 DEF AloneAt, Alone, ProtocolInv, ThreadTypes
<1>6. \A s \in Stage : s # "typed" => AloneAt(s)'
  BY <1>2 DEF AloneAt, Stage
<1>7. PipedOnce' /\ Alternating' /\ OneEach'
  BY <1>0, LeftOnce DEF OneCommand, Alternating, OneEach
<1>. QED  BY <1>4, <1>5, <1>6, <1>7 DEF OneCommand

(* Main hands a teleport to the actor.                                     *)
LEMMA ReceiveTeleportKeepsOne ==
    ASSUME CarefulInv, [Next]_vars, NEW n \in Node, ReceiveTeleport(n)
    PROVE  OneCommand'
<1>0. /\ OneCommand /\ ProtocolInv /\ ThreadTypes
      /\ Alive(n) /\ typed[n] \in TeleportCommand
      /\ typed' = [typed EXCEPT ![n] = None]
      /\ pipe' = [pipe EXCEPT ![n] = Append(@, typed[n])]
      /\ UNCHANGED <<process, main, actor, locals, conv, runs>>
  BY DEF CarefulInv, RunsInv, ProtocolInv, ReceiveTeleport, MainAt, Alive
<1>. USE DEF locals
<1>1. typed[n] # None
  BY <1>0, NoneIsNoCommand
<1>2. n \in Busy("typed") /\ Busy("pipe") = {}
  BY <1>0, <1>1, Places DEF OneCommand, OnePlace, Stage
<1>3. n \notin Busy("typed")' /\ Busy("typed")' \subseteq Busy("typed")
  BY <1>0 DEF Busy, ThreadTypes
<1>4. Busy("pipe")' \subseteq {n}
  BY <1>0, <1>2 DEF Busy, ThreadTypes, Alive
<1>5. OnePlace' /\ \A u \in Stage : \A z \in Busy(u)' : u = "pipe" /\ z = n
  <2>1. \A u \in Stage : u # "pipe" => Busy(u)' \subseteq Busy(u)
    BY <1>0, <1>3, LeftInPlace DEF Stage
  <2>. QED  BY <1>0, <1>2, <1>3, <1>4, <2>1, PlaceMoves DEF OneCommand, Stage
<1>6. \A k \in DOMAIN pipe'[n] : pipe'[n][k] # Term =>
          k = Len(pipe[n]) + 1 /\ pipe'[n][k] = typed[n]
  <2>1. pipe[n] \in Seq(TeleportCommand \cup {Term}) /\ pipe'[n] = Append(pipe[n], typed[n])
    BY <1>0 DEF ThreadTypes
  <2>2. \A k \in DOMAIN pipe[n] : pipe[n][k] = Term
    BY <1>0, <1>2, Places
  <2>. QED  BY <2>1, <2>2
<1>7. Alone(typed[n].vm, n)
  BY <1>0, <1>2, Claims DEF OneCommand, Stage
<1>8. \A s \in Stage : AloneAt(s)'
  BY <1>0, <1>5, <1>6, <1>7 DEF AloneAt, Stage, Alone
<1>9. PipedOnce'
  <2>1. \A m \in Node : m # n => pipe'[m] = pipe[m]
    BY <1>0 DEF ThreadTypes
  <2>. QED  BY <1>0, <1>6, <2>1 DEF PipedOnce, OneCommand, Alive
<1>. QED  BY <1>0, <1>5, <1>8, <1>9 DEF OneCommand, Alternating, OneEach

(* Main starts a machine.                                                  *)
LEMMA ReceiveStartKeepsOne ==
    ASSUME CarefulInv, [Next]_vars, NEW n \in Node, ReceiveStart(n)
    PROVE  OneCommand'
<1>0. /\ OneCommand /\ ProtocolInv /\ ThreadTypes
      /\ Alive(n) /\ typed[n] \in StartCommand
      /\ typed' = [typed EXCEPT ![n] = None]
      /\ main' = [main EXCEPT ![n] = [step |-> "launch", vm |-> typed[n].vm, len |-> 0]]
      /\ UNCHANGED <<process, pipe, actor, locals, conv, runs>>
  BY DEF CarefulInv, RunsInv, ProtocolInv, ReceiveStart, MainAt, Alive
<1>. USE DEF locals
<1>1. typed[n] # None
  BY <1>0, NoneIsNoCommand
<1>2. n \in Busy("typed")
  BY <1>0, <1>1, Places
<1>3. n \notin Busy("typed")' /\ Busy("typed")' \subseteq Busy("typed")
  BY <1>0 DEF Busy, ThreadTypes
<1>4. Busy("main")' \subseteq Busy("main") \cup {n}
  BY <1>0 DEF Busy, ThreadTypes, Alive
<1>5. OnePlace' /\ \A u \in Stage : \A z \in Busy(u)' : u = "main" /\ z = n
  <2>1. \A u \in Stage : u # "main" => Busy(u)' \subseteq Busy(u)
    BY <1>0, <1>3, LeftInPlace DEF Stage
  <2>. QED  BY <1>0, <1>2, <1>3, <1>4, <2>1, PlaceMoves DEF OneCommand, Stage
<1>6. Alone(typed[n].vm, n) /\ main'[n].vm = typed[n].vm
  BY <1>0, <1>2, Claims DEF OneCommand, Stage, ThreadTypes
<1>7. \A s \in Stage : AloneAt(s)'
  BY <1>0, <1>5, <1>6 DEF AloneAt, Stage, Alone
<1>8. PipedOnce'
  BY <1>0, LeftOnce DEF OneCommand
<1>. QED  BY <1>0, <1>5, <1>7, <1>8 DEF OneCommand, Alternating, OneEach

(* Main goes on with what it does, or is done.                             *)
LEMMA MainGoesOnOne ==
    ASSUME ProtocolInv, [Next]_vars, OneCommand, runs' = runs, NEW n \in Node,
           main[n].step # "idle", main'[n].step # "launch",
           \A m \in Node : m # n => main'[m] = main[m]
    PROVE  Busy("main")' \subseteq Busy("main") /\ AloneAt("main")'
<1>1. \A m \in Node : Alive(m)' => Alive(m)
  BY ProcessesOnlyGo DEF Alive
<1>2. Busy("main")' \subseteq Busy("main")
  BY <1>1 DEF Busy, Alive
<1>3. AloneAt("main")
  BY DEF OneCommand, Stage
<1>4. \A m \in Busy("main")' : m \in Node
  BY DEF Busy
<1>. QED  BY <1>2, <1>3, <1>4 DEF AloneAt, Alone

LEMMA StartVMKeepsOne ==
    ASSUME CarefulInv, [Next]_vars, NEW n \in Node, StartVM(n)
    PROVE  OneCommand'
<1>. DEFINE v == main[n].vm
<1>0. /\ OneCommand /\ ProtocolInv /\ ThreadTypes /\ RecordTypes
      /\ Alive(n) /\ main[n].step = "launch"
      /\ UNCHANGED <<typed, actor, locals, conv>>
  BY DEF CarefulInv, RunsInv, ProtocolInv, StartVM, MainAt, Alive
<1>. USE DEF locals
<1>1. n \in Busy("main")
  BY <1>0, Places
<1>2. CASE /\ runs' = [runs EXCEPT ![v] = @ \cup {n}]
           /\ MainGoes(n, "count")
           /\ UNCHANGED <<process, pipe>>
  <2>1. v \in VM
    BY <1>0, MainHasMachine
  <2>2. \A m \in Node : main'[m].step = IF m = n THEN "count" ELSE main[m].step
    BY <1>0, <1>2, MainWent
  <2>3. Busy("main")' \subseteq Busy("main")
    BY <1>0, <1>2, <2>2 DEF Busy, Alive
  <2>4. \A u \in Stage : Busy(u)' \subseteq Busy(u)
    BY <1>0, <1>2, <2>3, LeftInPlace DEF Stage
  <2>5. OnePlace' /\ \A u \in Stage : \A z \in Busy(u)' : u = "main" /\ z = n
    BY <1>0, <1>1, <2>4, PlaceStays DEF OneCommand, OnePlace, Stage
  <2>6. \A u \in Stage : AloneAt(u)'
    BY <2>2, <2>5 DEF AloneAt, Stage
  <2>7. runs[v] \subseteq {n}
    BY <1>0, <1>1, Claims DEF OneCommand, Stage, Alone
  <2>8. \A w \in VM : runs'[w] = IF w = v THEN runs[v] \cup {n} ELSE runs[w]
    BY <1>0, <1>2, <2>1 DEF RecordTypes
  <2>. HIDE DEF v
  <2>9. OneEach'
    BY <1>0, <2>1, <2>7, <2>8 DEF OneCommand, OneEach
  <2>10. PipedOnce' /\ Alternating'
    BY <1>0, <1>2, LeftOnce DEF OneCommand, Alternating
  <2>. QED  BY <2>5, <2>6, <2>9, <2>10 DEF OneCommand
<1>3. CASE /\ runs' = runs
           /\ \/ MainGoes(n, "exiting") /\ pipe' = [pipe EXCEPT ![n] = Append(@, Term)]
              \/ MainGoes(n, "wait") /\ UNCHANGED pipe
              \/ UNCHANGED <<main, pipe>>
  <2>0. \A m \in Node : Alive(m)' => Alive(m)
    BY <1>0, ProcessesOnlyGo DEF Alive
  <2>1. Busy("main")' \subseteq Busy("main") /\ AloneAt("main")'
    <3>1. CASE main' = main
      BY <1>0, <1>3, <3>1, LeftInPlace, LeftTrue DEF OneCommand
    <3>2. CASE MainGoes(n, "wait") \/ MainGoes(n, "exiting")
      <4>1. /\ main'[n].step \in {"wait", "exiting"}
            /\ \A m \in Node : m # n => main'[m] = main[m]
        BY <1>0, <3>2, MainWent DEF MainGoes, ThreadTypes
      <4>. QED  BY <1>0, <1>3, <4>1, MainGoesOnOne
    <3>. QED  BY <1>3, <3>1, <3>2
  <2>2. /\ Busy("pipe")' \subseteq Busy("pipe") /\ AloneAt("pipe")' /\ PipedOnce'
    <3>1. \A m \in Node : \A k \in DOMAIN pipe'[m] : pipe'[m][k] # Term =>
              k \in DOMAIN pipe[m] /\ pipe'[m][k] = pipe[m][k]
      <4>1. /\ \A m \in Node : m # n => pipe'[m] = pipe[m]
            /\ pipe[n] \in Seq(TeleportCommand \cup {Term})
            /\ pipe'[n] = pipe[n] \/ pipe'[n] = Append(pipe[n], Term)
        BY <1>0, <1>3 DEF ThreadTypes
      <4>2. \A k \in DOMAIN Append(pipe[n], Term) : Append(pipe[n], Term)[k] # Term =>
                k \in DOMAIN pipe[n] /\ Append(pipe[n], Term)[k] = pipe[n][k]
        BY <4>1, AppendedAt
      <4>. QED  BY <4>1, <4>2
    <3>2. AloneAt("pipe") /\ PipedOnce
      BY <1>0 DEF OneCommand, Stage
    <3>3. Busy("pipe")' \subseteq Busy("pipe")
      BY <2>0, <3>1 DEF Busy, Alive
    <3>4. AloneAt("pipe")'
      <4>. SUFFICES ASSUME NEW m \in Busy("pipe")', NEW k \in DOMAIN pipe'[m], pipe'[m][k] # Term
                    PROVE  runs'[pipe'[m][k].vm] \subseteq {m}
        BY DEF AloneAt, Alone
      <4>1. m \in Node /\ m \in Busy("pipe")
        BY <3>3, Places
      <4>. QED  BY <1>3, <3>1, <3>2, <4>1 DEF AloneAt, Alone
    <3>5. PipedOnce'
      BY <2>0, <3>1, <3>2 DEF PipedOnce
    <3>. QED  BY <3>3, <3>4, <3>5
  <2>3. \A u \in Stage : Busy(u)' \subseteq Busy(u) /\ AloneAt(u)'
    BY <1>0, <1>3, <2>1, <2>2, LeftInPlace, LeftTrue DEF OneCommand, Stage
  <2>4. Alternating'
    BY <1>0 DEF OneCommand, Alternating
  <2>. QED  BY <1>0, <1>3, <2>2, <2>3, <2>4, StaysOneCommand
<1>. QED  BY <1>2, <1>3 DEF StartVM

LEMMA CountMetadataKeepsOne ==
    ASSUME CarefulInv, [Next]_vars, NEW n \in Node, CountMetadata(n) \/ AddStarted(n)
    PROVE  OneCommand'
<1>0. /\ OneCommand /\ ProtocolInv /\ ThreadTypes
      /\ Alive(n) /\ main[n].step # "idle"
      /\ UNCHANGED <<process, typed, pipe, actor, locals, conv, runs>>
  BY DEF CarefulInv, RunsInv, ProtocolInv, CountMetadata, AddStarted, MainAt, Alive
<1>. USE DEF locals
<1>1. main'[n].step # "launch" /\ \A m \in Node : m # n => main'[m] = main[m]
  <2>1. CASE CountMetadata(n)
    <3>1. main[n] \in [step : {"idle", "launch", "wait", "count", "add", "exiting"},
                       vm : VM \cup {None}, len : Nat]
      BY <1>0 DEF ThreadTypes
    <3>2. main' = [main EXCEPT ![n] = [main[n] EXCEPT !.step = "add", !.len = Len(metadatas[n])]]
      BY <2>1 DEF CountMetadata
    <3>. QED  BY <1>0, <3>1, <3>2 DEF ThreadTypes
  <2>2. CASE AddStarted(n)
    BY <1>0, <2>2, MainWent DEF AddStarted, MainGoes, ThreadTypes
  <2>. QED  BY <2>1, <2>2
<1>2. Busy("main")' \subseteq Busy("main") /\ AloneAt("main")'
  BY <1>0, <1>1, MainGoesOnOne
<1>3. \A u \in Stage : Busy(u)' \subseteq Busy(u) /\ AloneAt(u)'
  BY <1>0, <1>2, LeftInPlace, LeftTrue DEF OneCommand, Stage
<1>4. PipedOnce' /\ Alternating'
  BY <1>0, LeftOnce DEF OneCommand, Alternating
<1>. QED  BY <1>0, <1>3, <1>4, StaysOneCommand

(* The actor takes a command: the pipe is empty of commands behind it.     *)
LEMMA TakenFromPipe ==
    ASSUME CarefulInv, [Next]_vars, NEW n \in Node, TakesCommand(n),
           Head(pipe[n]) # Term \/ process'[n] = "gone"
    PROVE  /\ Busy("pipe")' \subseteq Busy("pipe") /\ n \notin Busy("pipe")'
           /\ PipedOnce'
           /\ runs' = runs => AloneAt("pipe")'
<1>0. /\ ProtocolInv /\ ThreadTypes /\ OneCommand
      /\ Alive(n) /\ pipe[n] # <<>>
      /\ pipe' = [pipe EXCEPT ![n] = Tail(@)]
  BY DEF CarefulInv, RunsInv, ProtocolInv, TakesCommand, Alive
<1>1. \A m \in Node : Alive(m)' => Alive(m)
  BY <1>0, ProcessesOnlyGo DEF Alive
<1>2. \A m \in Node : m # n => pipe'[m] = pipe[m]
  BY <1>0 DEF ThreadTypes
<1>3. Alive(n)' => \A k \in DOMAIN pipe'[n] : pipe'[n][k] = Term
  <2>. SUFFICES ASSUME Alive(n)', NEW k \in DOMAIN pipe'[n] PROVE pipe'[n][k] = Term
    OBVIOUS
  <2>1. /\ pipe[n] \in Seq(TeleportCommand \cup {Term}) /\ pipe'[n] = Tail(pipe[n])
    BY <1>0 DEF ThreadTypes
  <2>2. /\ k + 1 \in DOMAIN pipe[n] /\ pipe'[n][k] = pipe[n][k + 1] /\ k + 1 # 1
        /\ 1 \in DOMAIN pipe[n] /\ pipe[n][1] = Head(pipe[n])
    BY <1>0, <2>1, TailAt
  <2>3. Head(pipe[n]) # Term
    BY DEF Alive
  <2>. QED  BY <1>0, <2>2, <2>3 DEF OneCommand, PipedOnce
<1>4. n \notin Busy("pipe")' /\ Busy("pipe")' \subseteq Busy("pipe")
  BY <1>1, <1>2, <1>3 DEF Busy, Alive
<1>5. PipedOnce'
  BY <1>0, <1>1, <1>2, <1>3 DEF PipedOnce, OneCommand
<1>6. ASSUME runs' = runs PROVE AloneAt("pipe")'
  <2>1. AloneAt("pipe") /\ \A m \in Busy("pipe") : m \in Node
    BY <1>0, Places DEF OneCommand, Stage
  <2>. QED  BY <1>2, <1>4, <1>6, <2>1 DEF AloneAt, Alone
<1>. QED  BY <1>4, <1>5, <1>6

(* The actor opens a conversation, or finds no home for the machine.       *)
LEMMA CommandKeepsOne ==
    ASSUME CarefulInv, [Next]_vars, NEW n \in Node, Command(n)
    PROVE  OneCommand'
<1>. DEFINE x == Head(pipe[n])
<1>0. /\ OneCommand /\ ProtocolInv /\ ThreadTypes /\ LocalTypes /\ RecordTypes
      /\ Alive(n) /\ TakesCommand(n) /\ x \in TeleportCommand
      /\ pipe[n] # <<>>
      /\ vm_name' = [vm_name EXCEPT ![n] = x.vm]
      /\ UNCHANGED <<process, typed, main, runs>>
  BY DEF CarefulInv, RunsInv, ProtocolInv, Command, TakesCommand, Alive
<1>1. x # Term
  BY <1>0, CommandKinds
<1>2. n \in Busy("pipe") /\ Alone(x.vm, n)
  <2>1. 1 \in DOMAIN pipe[n] /\ pipe[n][1] = x
    BY <1>0 DEF ThreadTypes
  <2>2. n \in Busy("pipe")
    BY <1>0, <1>1, <2>1, Places
  <2>. QED  BY <1>0, <1>1, <2>1, <2>2, Claims DEF OneCommand, Stage
<1>3. /\ Busy("pipe")' \subseteq Busy("pipe") /\ n \notin Busy("pipe")'
      /\ PipedOnce'
  BY <1>0, <1>1, TakenFromPipe
<1>. HIDE DEF x
<1>4. CASE actor' = [actor EXCEPT ![n] = "poll"] /\ conv' = conv
  <2>1. Busy("actor")' \subseteq Busy("actor")
    BY <1>0, <1>4 DEF Busy, ThreadTypes, Alive
  <2>2. \A u \in Stage : Busy(u)' \subseteq Busy(u)
    BY <1>0, <1>3, <1>4, <2>1, LeftInPlace DEF Stage
  <2>3. \A u \in Stage : Busy(u)' = {}
    BY <1>0, <1>2, <1>3, <2>2 DEF OneCommand, OnePlace, Stage
  <2>4. OnePlace' /\ \A u \in Stage : AloneAt(u)'
    BY <2>3 DEF OnePlace, AloneAt, Stage
  <2>5. Alternating' /\ OneEach'
    BY <1>0, <1>4 DEF OneCommand, Alternating, OneEach
  <2>. QED  BY <1>3, <2>4, <2>5 DEF OneCommand
<1>5. ASSUME NEW t,
             actor' = [actor EXCEPT ![n] = "signal"],
             conv' = Append(conv, [from |-> n, to |-> t,
                                   request |-> Announce, reply |-> "none"])
      PROVE  OneCommand'
  <2>. DEFINE c == Len(conv) + 1
  <2>1. /\ DOMAIN conv' = DOMAIN conv \cup {c}
        /\ \A d \in DOMAIN conv : conv'[d] = conv[d]
        /\ conv'[c].from = n /\ conv'[c].reply = "none"
    BY <1>0, <1>5 DEF RecordTypes
  <2>. HIDE DEF c
  <2>2. Busy("actor")' \subseteq Busy("actor")
    BY <1>0, <1>5 DEF Busy, ThreadTypes, Alive
  <2>3. Busy("conv")' \subseteq Busy("conv") \cup {c}
    BY <2>1 DEF Busy
  <2>4. \A u \in Stage : u # "conv" => Busy(u)' \subseteq Busy(u)
    BY <1>0, <1>3, <2>2, LeftInPlace DEF Stage
  <2>5. OnePlace' /\ \A u \in Stage : \A z \in Busy(u)' : u = "conv" /\ z = c
    BY <1>0, <1>2, <1>3, <2>3, <2>4, PlaceMoves DEF OneCommand, Stage
  <2>6. vm_name'[n] = x.vm
    BY <1>0 DEF LocalTypes
  <2>7. \A u \in Stage : AloneAt(u)'
    BY <1>0, <1>2, <2>1, <2>5, <2>6 DEF AloneAt, Stage, Alone
  <2>8. Alternating' /\ OneEach'
    BY <1>0, <2>1 DEF OneCommand, Alternating, OneEach
  <2>. QED  BY <1>3, <2>5, <2>7, <2>8 DEF OneCommand
<1>. QED  BY <1>4, <1>5 DEF Command

LEMMA CommandTermKeepsOne ==
    ASSUME CarefulInv, [Next]_vars, NEW n \in Node, CommandTerm(n)
    PROVE  OneCommand'
<1>0. /\ OneCommand /\ ProtocolInv /\ ThreadTypes /\ TakesCommand(n)
      /\ process'[n] = "gone"
      /\ UNCHANGED <<typed, main, actor, locals, conv, runs>>
  BY DEF CarefulInv, RunsInv, ProtocolInv, CommandTerm, Crashes, ThreadTypes
<1>1. /\ Busy("pipe")' \subseteq Busy("pipe") /\ AloneAt("pipe")' /\ PipedOnce'
  BY <1>0, TakenFromPipe
<1>2. \A u \in Stage : Busy(u)' \subseteq Busy(u) /\ AloneAt(u)'
  BY <1>0, <1>1, LeftInPlace, LeftTrue DEF OneCommand, Stage, locals
<1>3. Alternating'
  BY <1>0 DEF OneCommand, Alternating
<1>. QED  BY <1>0, <1>1, <1>2, <1>3, StaysOneCommand

(* Steps in which an actor hears or says something in a conversation, and  *)
(* does not yet launch or teleport.                                        *)
LEMMA TalkKeepsOne ==
    ASSUME CarefulInv, [Next]_vars, UNCHANGED <<typed, main, pipe, vm_name, runs>>,
           \A m \in Node : actor'[m] = actor[m] \/ actor'[m] \notin {"launch", "teleport"},
           NEW c \in Busy("conv"), NEW q \in RequestType, NEW a \in {"none", "signal", "2"},
           \/ conv' = [conv EXCEPT ![c].request = q, ![c].reply = a]
           \/ conv' = [conv EXCEPT ![c].reply = a, ![c].request = q],
           q = Silent \/ a = "none",
           (q = Silent /\ a = "none") \/ ~IsMetadata(c)
    PROVE  OneCommand'
<1>0. /\ OneCommand /\ ProtocolInv /\ conv \in Seq(Conversation) /\ c \in DOMAIN conv
  BY Places DEF CarefulInv, RunsInv, ProtocolInv, RecordTypes
<1>1. /\ DOMAIN conv' = DOMAIN conv
      /\ \A d \in DOMAIN conv : /\ conv'[d].from = conv[d].from
                                /\ d # c => conv'[d] = conv[d]
      /\ conv'[c].request = q
  <2>1. CASE conv' = [conv EXCEPT ![c].request = q, ![c].reply = a]
    BY <1>0, <2>1, ConvUpdated
  <2>2. CASE conv' = [conv EXCEPT ![c].reply = a, ![c].request = q]
    BY <1>0, <2>2, ConvUpdated
  <2>. QED  BY <2>1, <2>2
<1>2. conv'[c].reply = a
  <2>1. conv[c] \in Conversation
    BY <1>0
  <2>2. [conv[c] EXCEPT !.request = q, !.reply = a].reply = a
        /\ [conv[c] EXCEPT !.reply = a, !.request = q].reply = a
    BY <2>1 DEF Conversation
  <2>3. \/ conv' = [conv EXCEPT ![c] = [conv[c] EXCEPT !.request = q, !.reply = a]]
        \/ conv' = [conv EXCEPT ![c] = [conv[c] EXCEPT !.reply = a, !.request = q]]
    OBVIOUS
  <2>. QED  BY <1>0, <2>2, <2>3
<1>3. c \in Busy("conv")' => ~IsMetadata(c)
  BY <1>1, <1>2 DEF Busy
<1>4. Busy("conv")' \subseteq Busy("conv") /\ Alternating' /\ AloneAt("conv")'
  BY <1>0, <1>1, <1>2, <1>3, TalkGoesOn
<1>5. Busy("actor")' \subseteq Busy("actor") /\ AloneAt("actor")'
  BY <1>0, ActorLeaves
<1>6. \A u \in Stage : Busy(u)' \subseteq Busy(u) /\ AloneAt(u)'
  BY <1>0, <1>4, <1>5, LeftInPlace, LeftTrue DEF OneCommand, Stage
<1>7. PipedOnce'
  BY <1>0, LeftOnce DEF OneCommand
<1>. QED  BY <1>0, <1>4, <1>6, <1>7, StaysOneCommand


LEMMA SendNameKeepsOne ==
    ASSUME CarefulInv, [Next]_vars, NEW n \in Node, SendName(n)
    PROVE  OneCommand'
<1>. DEFINE c == sender[n]
<1>0. /\ ProtocolInv /\ OneCommand /\ ThreadTypes /\ LocalTypes /\ RecordTypes
      /\ actor[n] = "signal" /\ conv[c].reply = "signal"
      /\ UNCHANGED <<typed, main, pipe, vm_name, runs>>
      /\ actor' = [actor EXCEPT ![n] = "poll"]
  BY DEF CarefulInv, RunsInv, ProtocolInv, SendName, locals
<1>1. c \in DOMAIN conv /\ vm_name[n] \in VM
  BY <1>0 DEF ProtocolInv, UsesWhatIsSet, UsesSet, LocalTypes, RecordTypes
<1>2. c \in Busy("conv") /\ conv[c].request = Silent
  BY <1>0, <1>1, Places DEF OneCommand, Alternating
<1>3. ~IsMetadata(c)
  BY <1>2, MessageKinds DEF IsMetadata
<1>4. Name(vm_name[n]) \in RequestType
  BY <1>1, MessageKinds
<1>5. \A m \in Node : actor'[m] = actor[m] \/ actor'[m] \notin {"launch", "teleport"}
  BY <1>0 DEF ThreadTypes
<1>6. conv' = [conv EXCEPT ![c].reply = "none", ![c].request = Name(vm_name[n])]
  BY DEF SendName
<1>. HIDE DEF c
<1>. QED  BY <1>0, <1>2, <1>3, <1>4, <1>5, <1>6, TalkKeepsOne

LEMMA HearAnnounceKeepsOne ==
    ASSUME CarefulInv, [Next]_vars, NEW n \in Node, HearAnnounce(n)
    PROVE  OneCommand'
<1>0. /\ ThreadTypes /\ UNCHANGED <<typed, main, pipe, vm_name, runs>>
      /\ actor' = [actor EXCEPT ![n] = "name"]
  BY DEF CarefulInv, RunsInv, ProtocolInv, HearAnnounce, locals
<1>1. PICK c \in Waiting(n) : conv[c].request = Announce /\ Takes(c, "signal")
  BY DEF HearAnnounce
<1>2. c \in Busy("conv") /\ ~IsMetadata(c)
  BY <1>1, Places, MessageKinds DEF Waiting, IsMetadata
<1>3. \A m \in Node : actor'[m] = actor[m] \/ actor'[m] \notin {"launch", "teleport"}
  BY <1>0 DEF ThreadTypes
<1>. QED  BY <1>0, <1>1, <1>2, <1>3, MessageKinds, TalkKeepsOne DEF Takes

LEMMA HearNameKeepsOne ==
    ASSUME CarefulInv, [Next]_vars, NEW n \in Node, HearName(n)
    PROVE  OneCommand'
<1>0. /\ ThreadTypes /\ UNCHANGED <<typed, main, pipe, vm_name, runs>>
  BY DEF CarefulInv, RunsInv, ProtocolInv, HearName, Prepares
<1>1. PICK c \in Waiting(n) :
         /\ \/ Takes(c, "2") /\ Known(conv[c].request)
            \/ Takes(c, "none")
         /\ \/ actor' = [actor EXCEPT ![n] = "incoming"]
            \/ actor' = [actor EXCEPT ![n] = "halted"]
            \/ actor' = actor
  BY DEF HearName, Halts
<1>2. c \in Busy("conv") /\ (Known(conv[c].request) => ~IsMetadata(c))
  BY <1>1, Places DEF Waiting, IsMetadata, Known
<1>3. \A m \in Node : actor'[m] = actor[m] \/ actor'[m] \notin {"launch", "teleport"}
  BY <1>0, <1>1 DEF ThreadTypes
<1>4. CASE Takes(c, "2") /\ Known(conv[c].request)
  BY <1>0, <1>2, <1>3, <1>4, MessageKinds, TalkKeepsOne DEF Takes
<1>5. CASE Takes(c, "none")
  BY <1>0, <1>2, <1>3, <1>5, MessageKinds, TalkKeepsOne DEF Takes
<1>. QED  BY <1>1, <1>4, <1>5

LEMMA HearMetadataKeepsOne ==
    ASSUME CarefulInv, [Next]_vars, NEW n \in Node, HearMetadata(n)
    PROVE  OneCommand'
<1>0. /\ ThreadTypes /\ UNCHANGED <<typed, main, pipe, vm_name, runs>>
      /\ actor' = [actor EXCEPT ![n] = "poll"]
  BY DEF CarefulInv, RunsInv, ProtocolInv, HearMetadata
<1>1. PICK c \in Waiting(n) : Takes(c, "none")
  BY DEF HearMetadata
<1>2. c \in Busy("conv")
  BY <1>1, Places DEF Waiting
<1>3. \A m \in Node : actor'[m] = actor[m] \/ actor'[m] \notin {"launch", "teleport"}
  BY <1>0 DEF ThreadTypes
<1>. QED  BY <1>0, <1>1, <1>2, <1>3, MessageKinds, TalkKeepsOne DEF Takes

(* The steps of an actor that touch neither a conversation nor a machine.  *)
LEMMA ActorAloneKeepsOne ==
    ASSUME CarefulInv, [Next]_vars, NEW n \in Node,
           HearOld(n) \/ Fail(n) \/ FailAtOnce(n)
    PROVE  OneCommand'
<1>0. /\ OneCommand /\ ProtocolInv /\ ThreadTypes
      /\ UNCHANGED <<typed, main, pipe, locals, conv, runs>>
  BY DEF CarefulInv, RunsInv, ProtocolInv, HearOld, Fail, FailAtOnce
<1>. USE DEF locals
<1>1. \A m \in Node : actor'[m] = actor[m] \/ actor'[m] \notin {"launch", "teleport"}
  BY <1>0 DEF HearOld, Fail, FailAtOnce, ThreadTypes
<1>2. Busy("actor")' \subseteq Busy("actor") /\ AloneAt("actor")'
  BY <1>0, <1>1, ActorLeaves
<1>3. \A u \in Stage : Busy(u)' \subseteq Busy(u) /\ AloneAt(u)'
  BY <1>0, <1>2, LeftInPlace, LeftTrue DEF OneCommand, Stage
<1>4. PipedOnce' /\ Alternating'
  BY <1>0, LeftOnce DEF OneCommand, Alternating
<1>. QED  BY <1>0, <1>3, <1>4, StaysOneCommand

(* The answer the source hears is about the machine it was told of.        *)
LEMMA AnswerIsOurs ==
    ASSUME CarefulInv, NEW n \in Node, HearGo(n)
    PROVE  /\ sender[n] \in Busy("conv") /\ sender[n] \in DOMAIN conv
           /\ conv[sender[n]].request = Silent
           /\ Alone(vm_name[n], n) /\ vm_name[n] \in VM
<1>. DEFINE c == sender[n]
<1>0. /\ ProtocolInv /\ OneCommand /\ LocalTypes /\ RecordTypes
      /\ Answered(n) # {} /\ Min(Answered(n)) = c
  BY DEF CarefulInv, RunsInv, ProtocolInv, HearGo, HearsSender
<1>1. c \in Answered(n)
  <2>1. Answered(n) \in SUBSET Nat
    BY <1>0 DEF Answered, RecordTypes
  <2>. QED  BY <1>0, <2>1, MinIsElement
<1>2. /\ c \in DOMAIN conv /\ conv[c].from = n /\ conv[c].reply # "none"
      /\ c \in Busy("conv")
  BY <1>1, Places DEF Answered
<1>3. conv[c].request = Silent
  BY <1>0, <1>2 DEF OneCommand, Alternating
<1>4. ~IsMetadata(c)
  BY <1>3, MessageKinds DEF IsMetadata
<1>5. Alone(vm_name[n], n)
  BY <1>0, <1>2, <1>4, Claims DEF OneCommand, Stage
<1>6. vm_name[n] \in VM
  <2>1. sender[n] > 0
    BY <1>0, <1>2 DEF RecordTypes
  <2>. QED  BY <1>0, <2>1 DEF ProtocolInv, SenderKept, LocalTypes
<1>. QED  BY <1>2, <1>3, <1>5, <1>6

(* The source looks the machine up: the conversation is over.              *)
LEMMA HearGoKeepsOne ==
    ASSUME CarefulInv, [Next]_vars, NEW n \in Node, HearGo(n)
    PROVE  OneCommand'
<1>. DEFINE c == sender[n]
<1>0. /\ ProtocolInv /\ OneCommand /\ ThreadTypes /\ LocalTypes /\ RecordTypes
      /\ UNCHANGED <<process, typed, main, pipe, vm_name, runs>>
      /\ conv' = [conv EXCEPT ![c].reply = "none"]
      /\ \/ actor' = [actor EXCEPT ![n] = "launch"]
         \/ actor' = [actor EXCEPT ![n] = "teleport"]
  BY DEF CarefulInv, RunsInv, ProtocolInv, HearGo
<1>2. c \in Busy("conv") /\ c \in DOMAIN conv
  BY AnswerIsOurs
<1>3. conv[c].request = Silent /\ Alone(vm_name[n], n)
  BY AnswerIsOurs
<1>. HIDE DEF c
<1>4. /\ DOMAIN conv' = DOMAIN conv
      /\ \A d \in DOMAIN conv : d # c => conv'[d] = conv[d]
      /\ conv'[c].request = Silent /\ conv'[c].reply = "none"
  <2>1. conv[c] \in Conversation
    BY <1>0, <1>2 DEF RecordTypes
  <2>2. [conv[c] EXCEPT !.reply = "none"].reply = "none"
        /\ [conv[c] EXCEPT !.reply = "none"].request = Silent
    BY <1>3, <2>1 DEF Conversation
  <2>3. conv' = [conv EXCEPT ![c] = [conv[c] EXCEPT !.reply = "none"]]
    BY <1>0
  <2>. QED  BY <1>0, <1>2, <2>2, <2>3 DEF RecordTypes
<1>5. Busy("conv")' \subseteq Busy("conv") /\ c \notin Busy("conv")' /\ Alternating'
  BY <1>0, <1>2, <1>4 DEF Busy, OneCommand, Alternating
<1>6. Busy("actor")' \subseteq Busy("actor") \cup {n}
  BY <1>0 DEF Busy, ThreadTypes, Alive
<1>7. \A u \in Stage : u # "actor" => Busy(u)' \subseteq Busy(u)
  BY <1>0, <1>5, LeftInPlace DEF Stage
<1>8. OnePlace' /\ \A u \in Stage : \A z \in Busy(u)' : u = "actor" /\ z = n
  BY <1>0, <1>2, <1>5, <1>6, <1>7, PlaceMoves DEF OneCommand, Stage
<1>9. \A u \in Stage : AloneAt(u)'
  BY <1>0, <1>3, <1>8 DEF AloneAt, Stage, Alone
<1>10. PipedOnce' /\ OneEach'
  BY <1>0, LeftOnce DEF OneCommand, OneEach
<1>. QED  BY <1>5, <1>8, <1>9, <1>10 DEF OneCommand

(* The source starts the machine: it ran nowhere, or here.                 *)
LEMMA LaunchVMKeepsOne ==
    ASSUME CarefulInv, [Next]_vars, NEW n \in Node, LaunchVM(n)
    PROVE  OneCommand'
<1>. DEFINE v == vm_name[n]
<1>0. /\ ProtocolInv /\ OneCommand /\ ThreadTypes /\ LocalTypes /\ RecordTypes
      /\ UNCHANGED <<typed, main, pipe, vm_name, conv>>
      /\ Alive(n) /\ actor[n] = "launch"
      /\ v \in VM
  BY DEF CarefulInv, RunsInv, ProtocolInv, LaunchVM, Alive, UsesWhatIsSet, UsesSet, LocalTypes
<1>1. /\ \/ runs' = [runs EXCEPT ![v] = @ \cup {n}]
         \/ runs' = runs
      /\ actor' = [actor EXCEPT ![n] = "teleport"] \/ actor' = actor
  BY DEF LaunchVM
<1>2. n \in Busy("actor")
  BY <1>0, Places
<1>3. runs[v] \subseteq {n}
  BY <1>0, <1>2, Claims DEF OneCommand, Stage, Alone
<1>4. Busy("actor")' \subseteq Busy("actor")
  <2>1. \A m \in Node : Alive(m)' => Alive(m)
    BY <1>0, ProcessesOnlyGo DEF Alive
  <2>. QED  BY <1>0, <1>1, <2>1 DEF Busy, ThreadTypes, Alive
<1>5. \A u \in Stage : Busy(u)' \subseteq Busy(u)
  BY <1>0, <1>4, LeftInPlace DEF Stage
<1>6. OnePlace' /\ \A u \in Stage : \A z \in Busy(u)' : u = "actor" /\ z = n
  BY <1>0, <1>2, <1>5, PlaceStays DEF OneCommand, OnePlace, Stage
<1>7. /\ runs'[v] \subseteq {n}
      /\ \A w \in VM : w # v => runs'[w] = runs[w]
  BY <1>0, <1>1, <1>3 DEF RecordTypes
<1>. HIDE DEF v
<1>8. \A u \in Stage : AloneAt(u)'
  <2>1. vm_name'[n] = v
    BY <1>0 DEF v
  <2>. QED  BY <1>6, <1>7, <2>1 DEF AloneAt, Stage, Alone
<1>9. OneEach'
  BY <1>0, <1>7 DEF OneCommand, OneEach
<1>10. PipedOnce' /\ Alternating'
  BY <1>0, LeftOnce DEF OneCommand, Alternating
<1>. QED  BY <1>6, <1>8, <1>9, <1>10 DEF OneCommand

(* The machine arrives: the source has nothing left to do but tell.        *)
LEMMA ArriveKeepsOne ==
    ASSUME CarefulInv, [Next]_vars, NEW n \in Node, Arrive(n)
    PROVE  OneCommand'
<1>. DEFINE c == sender[n]
            t == target_ip[n]
            e == session[n]
<1>0. /\ ProtocolInv /\ OneCommand /\ ThreadTypes /\ LocalTypes /\ RecordTypes
      /\ Alive(n) /\ actor[n] = "teleport"
      /\ n \in runs[e.vm] /\ e # None
      /\ UNCHANGED <<process, typed, main, pipe, vm_name>>
      /\ runs' = [runs EXCEPT ![e.vm] = (@ \ {n}) \cup {t}]
      /\ actor' = [actor EXCEPT ![n] = "poll", ![t] = "metadata"]
      /\ conv' = [conv EXCEPT ![c].request = Metadata(e)]
  BY DEF CarefulInv, RunsInv, ProtocolInv, Arrive, Expected, Alive, UsesWhatIsSet, UsesSet
<1>1. c \in DOMAIN conv /\ e \in EntryType
  BY <1>0 DEF ProtocolInv, UsesWhatIsSet, UsesSet, LocalTypes, RecordTypes
<1>2. n \in Busy("actor")
  BY <1>0, Places
<1>3. conv[c].reply = "none"
  <2>1. c \notin Busy("conv")
    BY <1>0, <1>2 DEF OneCommand, OnePlace, Stage
  <2>. QED  BY <1>1, <2>1, Places
<1>4. /\ DOMAIN conv' = DOMAIN conv
      /\ \A d \in DOMAIN conv : d # c => conv'[d] = conv[d]
      /\ conv'[c].reply = "none" /\ conv'[c].request = Metadata(e)
  <2>1. conv[c] \in Conversation
    BY <1>0, <1>1 DEF RecordTypes
  <2>2. [conv[c] EXCEPT !.request = Metadata(e)].reply = "none"
        /\ [conv[c] EXCEPT !.request = Metadata(e)].request = Metadata(e)
    BY <1>3, <2>1 DEF Conversation
  <2>3. conv' = [conv EXCEPT ![c] = [conv[c] EXCEPT !.request = Metadata(e)]]
    BY <1>0
  <2>. QED  BY <1>0, <1>1, <2>2, <2>3 DEF RecordTypes
<1>5. /\ e.vm \in VM /\ runs[e.vm] = {n} /\ runs'[e.vm] = {t}
      /\ \A w \in VM : w # e.vm => runs'[w] = runs[w]
  <2>1. e.vm \in VM
    BY <1>1 DEF EntryType
  <2>2. \A m \in runs[e.vm] : m = n
    BY <1>0, <2>1 DEF OneCommand, OneEach
  <2>. QED  BY <1>0, <2>1, <2>2 DEF RecordTypes
<1>. HIDE DEF c, t, e
<1>6. Busy("actor")' \subseteq Busy("actor") /\ n \notin Busy("actor")'
  <2>1. \A m \in Node : actor'[m] = actor[m] \/ actor'[m] \notin {"launch", "teleport"}
    BY <1>0 DEF ThreadTypes
  <2>2. actor'[n] \notin {"launch", "teleport"}
    BY <1>0 DEF ThreadTypes
  <2>. QED  BY <1>0, <2>1, <2>2 DEF Busy, Alive
<1>7. Busy("conv")' \subseteq Busy("conv") \cup {c}
  BY <1>4 DEF Busy
<1>8. \A u \in Stage : u # "conv" => Busy(u)' \subseteq Busy(u)
  BY <1>0, <1>6, LeftInPlace DEF Stage
<1>9. OnePlace' /\ \A u \in Stage : \A z \in Busy(u)' : u = "conv" /\ z = c
  BY <1>0, <1>2, <1>6, <1>7, <1>8, PlaceMoves DEF OneCommand, Stage
<1>10. \A u \in Stage : AloneAt(u)'
  <2>1. conv'[c].request.type = "metadata"
    BY <1>4 DEF Metadata
  <2>. QED  BY <1>9, <2>1 DEF AloneAt, Stage, IsMetadata
<1>11. OneEach'
  BY <1>0, <1>5 DEF OneCommand, OneEach
<1>12. Alternating' /\ PipedOnce'
  BY <1>0, <1>4, LeftOnce DEF OneCommand, Alternating
<1>. QED  BY <1>9, <1>10, <1>11, <1>12 DEF OneCommand


(* So every step of careful users' executers keeps the one command.        *)
LEMMA CarefulStep == CarefulInv /\ [Next]_vars => CarefulInv'
<1>. SUFFICES ASSUME CarefulInv, [Next]_vars PROVE CarefulInv'
  OBVIOUS
<1>1. RunsInv' /\ Careful'
  BY RunsInvInductive DEF CarefulInv
<1>2. OneCommand'
  <2>1. CASE UNCHANGED vars
    <3>1. \A s \in Stage : Busy(s)' = Busy(s) /\ (AloneAt(s) => AloneAt(s)')
      BY <2>1 DEF vars, Busy, AloneAt, Alone, Alive, Stage, IsMetadata
    <3>2. PipedOnce' /\ Alternating' /\ runs' = runs
      BY <2>1 DEF CarefulInv, OneCommand, vars, PipedOnce, Alternating, Alive
    <3>. QED  BY <3>1, <3>2, StaysOneCommand DEF CarefulInv, OneCommand
  <2>2. ASSUME NEW n \in Node, NEW command \in TeleportCommand \cup StartCommand,
               Type(n, command)
        PROVE  OneCommand'
    BY <2>2, TypeKeepsOne
  <2>3. ASSUME NEW n \in Node, MainThread(n) PROVE OneCommand'
    BY <2>3, ReceiveTeleportKeepsOne, ReceiveStartKeepsOne, StartVMKeepsOne,
       CountMetadataKeepsOne DEF MainThread
  <2>4. ASSUME NEW n \in Node, ActorThread(n) PROVE OneCommand'
    BY <2>4, CommandKeepsOne, CommandTermKeepsOne, SendNameKeepsOne, HearAnnounceKeepsOne,
       HearNameKeepsOne, HearMetadataKeepsOne, ActorAloneKeepsOne, HearGoKeepsOne,
       LaunchVMKeepsOne, ArriveKeepsOne DEF ActorThread
  <2>. QED  BY <2>1, <2>2, <2>3, <2>4 DEF Next
<1>. QED  BY <1>1, <1>2 DEF CarefulInv

LEMMA CarefulInitially == Careful /\ Init => CarefulInv
<1>. SUFFICES ASSUME Careful, Init PROVE CarefulInv
  OBVIOUS
<1>1. \A s \in Stage : Busy(s) = {}
  BY DEF Init, Busy, Stage
<1>2. OnePlace /\ \A s \in Stage : AloneAt(s)
  BY <1>1 DEF OnePlace, AloneAt, Stage
<1>3. PipedOnce /\ Alternating /\ OneEach
  BY DEF Init, PipedOnce, Alternating, OneEach
<1>. QED  BY <1>2, <1>3, RunsInitially DEF CarefulInv, OneCommand

(* With careful users one command at a time is in progress, about a        *)
(* machine that runs at most on the host it was typed at.                  *)
THEOREM CarefulInvariant == Careful /\ Spec => []CarefulInv
<1>. QED  BY CarefulInitially, CarefulStep, PTL DEF Spec

(* With careful users no machine ever runs on two hosts, whatever else     *)
(* main starts or VirtualBox fails.                                        *)
THEOREM OneHostAlways == Careful /\ Spec => []OneHost
<1>1. CarefulInv => OneHost
  <2>. SUFFICES ASSUME CarefulInv, NEW v \in VM PROVE Cardinality(runs[v]) <= 1
    BY DEF OneHost
  <2>1. \A n, m \in runs[v] : n = m
    BY DEF CarefulInv, OneCommand, OneEach
  <2>2. CASE runs[v] = {}
    BY <2>2, FS_EmptySet
  <2>3. CASE runs[v] # {}
    <3>1. PICK n \in runs[v] : TRUE
      BY <2>3
    <3>2. runs[v] = {n}
      BY <2>1, <3>1
    <3>3. Cardinality({n}) = 1
      BY FS_Singleton
    <3>. QED  BY <3>2, <3>3
  <2>. QED  BY <2>2, <2>3
<1>. QED  BY <1>1, CarefulInvariant, PTL

-----------------------------------------------------------------------------
(* What the source finds up                                                *)

(* A machine that was ever recorded runs somewhere; where main has started *)
(* nothing, the session to be teleported is alive.                         *)
ListedRuns ==
    \A n \in Node : \A k \in DOMAIN metadatas[n] : runs[metadatas[n][k].vm] # {}

LiveSession ==
    \A n \in Node : NoneStarted(n) /\ Alive(n) /\ actor[n] = "teleport" => session[n].held

UpInv == CarefulInv /\ ListedRuns /\ LiveSession

(* A machine that runs goes on running, somewhere.                         *)
LEMMA RunsGoOn ==
    ASSUME ProtocolInv, [Next]_vars, NEW v \in VM
    PROVE  /\ runs[v] # {} => runs'[v] # {}
           /\ runs'[v] # runs[v] =>
                 \E n \in Node : StartVM(n) \/ LaunchVM(n) \/ Arrive(n)
<1>0. runs \in [VM -> SUBSET Node]
  BY DEF ProtocolInv, RecordTypes
<1>. USE DEF threads, locals
<1>1. runs' = runs \/ \E n \in Node : StartVM(n) \/ LaunchVM(n) \/ Arrive(n)
  BY DEF Next, vars, Type, MainThread, ReceiveTeleport, ReceiveStart, CountMetadata,
     AddStarted, ActorThread, Command, CommandTerm, SendName, HearAnnounce, HearName,
     Prepares, HearMetadata, HearOld, HearGo, Fail, FailAtOnce
<1>2. ASSUME NEW n \in Node, StartVM(n) \/ LaunchVM(n), runs[v] # {} PROVE runs'[v] # {}
  BY <1>0, <1>2 DEF StartVM, LaunchVM
<1>3. ASSUME NEW n \in Node, Arrive(n), runs[v] # {} PROVE runs'[v] # {}
  BY <1>0, <1>3 DEF Arrive
<1>. QED  BY <1>1, <1>2, <1>3

(* Elements are of machines that run, or have run and go on elsewhere.     *)
LEMMA ListedStep ==
    ASSUME RunsInv, ListedRuns, [Next]_vars
    PROVE  ListedRuns'
<1>0. ProtocolInv /\ RecordTypes /\ ThreadTypes
  BY DEF RunsInv, ProtocolInv
<1>. SUFFICES ASSUME NEW n \in Node, NEW k \in DOMAIN metadatas'[n]
              PROVE  runs'[metadatas'[n][k].vm] # {}
  BY DEF ListedRuns
<1>1. /\ metadatas[n] \in Seq(EntryType)
      /\ \A j \in DOMAIN metadatas[n] : metadatas[n][j].vm \in VM
  <2>1. /\ metadatas[n] \in Seq(EntryType)
        /\ \A j \in DOMAIN metadatas[n] : metadatas[n][j] \in EntryType
    BY <1>0 DEF RecordTypes
  <2>. QED  BY <2>1 DEF EntryType
<1>2. CASE k \in DOMAIN metadatas[n] /\ metadatas'[n][k].vm = metadatas[n][k].vm
  BY <1>0, <1>1, <1>2, RunsGoOn DEF ListedRuns
<1>3. ASSUME NEW v \in VM, metadatas'[n][k].vm = v, runs'[v] # {}
      PROVE  runs'[metadatas'[n][k].vm] # {}
  BY <1>3
<1>4. CASE AddStarted(n)
  <2>. DEFINE v == main[n].vm
              e == Entry(v, n, <<n>>, TRUE)
              md == metadatas[n]
  <2>1. /\ v \in VM /\ v \in On(n) /\ runs' = runs
    BY <1>0, <1>4, MainHasMachine DEF AddStarted, MainAt, RunsInv, RunsKept, StartingKept, Starting
  <2>2. runs'[v] # {}
    BY <2>1 DEF On
  <2>3. e \in EntryType /\ e.vm = v
    <3>1. <<n>> \in Seq(Node)
      OBVIOUS
    <3>. QED  BY <2>1, <3>1, EntryTypes DEF Entry
  <2>. HIDE DEF e
  <2>4. \/ metadatas'[n] = Append(md, e) \/ metadatas'[n] = md
        \/ main[n].len <= Len(md) /\ main[n].len \in Nat
           /\ metadatas'[n] = Append(SubSeq(md, 1, main[n].len), e)
    BY <1>0, <1>4 DEF AddStarted, MainAt, e, RecordTypes, ThreadTypes, ProtocolInv, UsesWhatIsSet, UsesSet
  <2>5. metadatas'[n][k].vm = v \/ (k \in DOMAIN md /\ metadatas'[n][k].vm = md[k].vm)
    <3>1. CASE metadatas'[n] = Append(md, e)
      BY <1>1, <2>3, <3>1, AppendedAt
    <3>2. CASE metadatas'[n] = md
      BY <3>2
    <3>3. CASE /\ main[n].len <= Len(md) /\ main[n].len \in Nat
               /\ metadatas'[n] = Append(SubSeq(md, 1, main[n].len), e)
      <4>1. /\ SubSeq(md, 1, main[n].len) \in Seq(EntryType)
            /\ \A j \in DOMAIN SubSeq(md, 1, main[n].len) :
                  j \in DOMAIN md /\ SubSeq(md, 1, main[n].len)[j] = md[j]
        BY <1>1, <3>3
      <4>. QED  BY <2>3, <3>3, <4>1, AppendedAt
    <3>. QED  BY <2>4, <3>1, <3>2, <3>3
  <2>. QED  BY <1>2, <2>2, <2>5
<1>5. CASE HearMetadata(n)
  <2>1. \/ metadatas'[n] = metadatas[n]
        \/ \E e \in EntryType : metadatas'[n] = Append(metadatas[n], e) /\ e.vm = incoming[n]
    <3>1. CASE metadatas' = metadatas
      BY <3>1
    <3>2. CASE metadatas' # metadatas
      <4>1. PICK c \in DOMAIN conv :
              /\ incoming[n] \in VM /\ conv[c].request.home \in Node
              /\ conv[c].request.history \in Seq(Node)
              /\ metadatas' = [metadatas EXCEPT ![n] = Append(@,
                   Entry(incoming[n], conv[c].request.home,
                         Append(conv[c].request.history, n), FALSE))]
        BY <1>0, <1>5, <3>2, HeardIsEntry
      <4>2. Append(conv[c].request.history, n) \in Seq(Node)
        BY <4>1
      <4>3. Entry(incoming[n], conv[c].request.home, Append(conv[c].request.history, n), FALSE)
              \in EntryType
        BY <4>1, <4>2, EntryTypes
      <4>. QED  BY <1>0, <4>1, <4>3 DEF RecordTypes, Entry
    <3>. QED  BY <3>1, <3>2
  <2>2. incoming[n] \in On(n) /\ runs' = runs
    BY <1>5 DEF HearMetadata, RunsInv, RunsKept, TargetKept
  <2>3. incoming[n] \in VM /\ runs'[incoming[n]] # {}
    BY <2>2 DEF On
  <2>4. CASE metadatas'[n] = metadatas[n]
    BY <1>2, <2>4
  <2>5. ASSUME NEW e \in EntryType, metadatas'[n] = Append(metadatas[n], e), e.vm = incoming[n]
        PROVE  runs'[metadatas'[n][k].vm] # {}
    <3>1. \/ k \in DOMAIN metadatas[n] /\ metadatas'[n][k] = metadatas[n][k]
          \/ metadatas'[n][k] = e
      BY <1>1, <2>5, AppendedAt
    <3>. QED  BY <1>2, <2>3, <2>5, <3>1
  <2>. QED  BY <2>1, <2>4, <2>5
<1>6. CASE LaunchVM(n)
  <2>1. CASE metadatas'[n] = metadatas[n]
    BY <1>2, <2>1
  <2>2. CASE metadatas'[n] # metadatas[n]
    <3>. DEFINE e == Entry(vm_name[n], n, <<n>>, FALSE)
    <3>1. e \in EntryType /\ metadatas'[n] = Append(metadatas[n], e) /\ e.vm = vm_name[n]
      BY <1>0, <1>6, <2>2, LaunchedAppends DEF Entry
    <3>2. vm_name[n] \in VM
      BY <1>0, <1>6 DEF LaunchVM, ProtocolInv, UsesWhatIsSet, UsesSet, LocalTypes
    <3>3. runs'[vm_name[n]] # {}
      BY <1>0, <1>6, <2>2, <3>2 DEF LaunchVM, RecordTypes
    <3>. HIDE DEF e
    <3>. QED  BY <1>1, <1>2, <3>1, <3>3, AppendedAt
  <2>. QED  BY <2>1, <2>2
<1>7. CASE Arrive(n)
  <2>1. session[n] \in EntryType
    BY <1>0, <1>7 DEF Arrive, ProtocolInv, UsesWhatIsSet, UsesSet, LocalTypes
  <2>2. metadatas'[n] = Release(metadatas[n], session[n])
    BY <1>0, <1>7 DEF Arrive, RecordTypes
  <2>3. /\ DOMAIN Release(metadatas[n], session[n]) = DOMAIN metadatas[n]
        /\ \A j \in DOMAIN metadatas[n] :
              Release(metadatas[n], session[n])[j].vm = metadatas[n][j].vm
    BY <1>1, <2>1, ReleaseKeeps
  <2>. QED  BY <1>2, <2>2, <2>3
<1>8. CASE metadatas'[n] = metadatas[n]
  BY <1>2, <1>8
<1>9. \/ metadatas'[n] = metadatas[n]
      \/ AddStarted(n) \/ HearMetadata(n) \/ LaunchVM(n) \/ Arrive(n)
  <2>1. CASE metadatas' = metadatas
    BY <2>1
  <2>2. ASSUME NEW m \in Node, AddStarted(m) \/ HearMetadata(m) \/ LaunchVM(m) \/ Arrive(m)
        PROVE  m = n \/ metadatas'[n] = metadatas[n]
    BY <1>0, <2>2 DEF AddStarted, HearMetadata, LaunchVM, Arrive, RecordTypes
  <2>. QED  BY <2>1, <2>2, MetadatasChange
<1>. QED  BY <1>4, <1>5, <1>6, <1>7, <1>8, <1>9

(* The session a source finds is alive.                                    *)
LEMMA FoundIsLive ==
    ASSUME CarefulInv, ListedRuns, NEW n \in Node, HearGo(n), NoneStarted(n), Alive(n),
           NEW k \in Found(metadatas[n], vm_name[n]), k # 0
    PROVE  metadatas[n][k].held
<1>. DEFINE v == vm_name[n]
            md == metadatas[n]
<1>1. md \in Seq(EntryType) /\ actor[n] = "poll" /\ RunsKept(n)
  BY DEF CarefulInv, RunsInv, ProtocolInv, RecordTypes, HearGo, HearsSender, Polls
<1>2. \A j \in DOMAIN md : ~md[j].freed
  BY <1>1 DEF RunsKept, SearchKept
<1>3. k \in DOMAIN md
  BY <1>1, FoundIsElement
<1>4. md[k].vm = v
  BY <1>2, <1>3 DEF Found
<1>5. runs[v] # {} /\ runs[v] \subseteq {n} /\ v \in VM
  BY <1>3, <1>4, AnswerIsOurs DEF ListedRuns, Alone
<1>6. v \in On(n)
  BY <1>5 DEF On
<1>7. EndsHeld(md, v)
  BY <1>1, <1>6 DEF RunsKept, SearchKept, Alive
<1>. QED  BY <1>1, <1>2, <1>7, FoundEndsHeld

LEMMA LiveSessionStep ==
    ASSUME UpInv, [Next]_vars
    PROVE  LiveSession'
<1>0. CarefulInv /\ ListedRuns /\ LiveSession /\ ProtocolInv /\ ThreadTypes /\ LocalTypes
  BY DEF UpInv, CarefulInv, RunsInv, ProtocolInv
<1>. SUFFICES ASSUME NEW n \in Node, main'[n].vm = None, process'[n] # "gone",
                     actor'[n] = "teleport"
              PROVE  session'[n].held
  BY DEF LiveSession, NoneStarted, Alive
<1>1. NoneStarted(n) /\ Alive(n)
  BY <1>0, StartedStays, ProcessesOnlyGo DEF Alive
<1>2. CASE actor[n] = "teleport" /\ session'[n] = session[n]
  BY <1>0, <1>1, <1>2 DEF LiveSession
<1>3. CASE HearGo(n)
  <2>1. PICK k \in Found(metadatas[n], vm_name[n]) :
            IF k = 0 THEN actor' = [actor EXCEPT ![n] = "launch"]
                     ELSE session' = [session EXCEPT ![n] = metadatas[n][k]]
    BY <1>3 DEF HearGo
  <2>2. k # 0 /\ session'[n] = metadatas[n][k]
    BY <1>0, <2>1 DEF ThreadTypes, LocalTypes
  <2>. QED  BY <1>0, <1>1, <1>3, <2>2, FoundIsLive
<1>4. CASE LaunchVM(n) /\ actor[n] # "teleport"
  BY <1>0, <1>4 DEF LaunchVM, Entry, LocalTypes
<1>. QED  BY <1>0, <1>2, <1>3, <1>4, TeleportsNext

(* With careful users the session a source teleports is alive, and its     *)
(* machine runs there, unless main has started a machine there             *)
(* (executer.c 270-329).                                                   *)
THEOREM UpIsRunningAlways == Careful /\ Spec => []UpIsRunning
<1>1. Careful /\ Init => UpInv
  BY CarefulInitially DEF UpInv, ListedRuns, LiveSession, Init
<1>2. UpInv /\ [Next]_vars => UpInv'
  BY CarefulStep, ListedStep, LiveSessionStep DEF UpInv, CarefulInv
<1>3. UpInv => UpIsRunning
  <2>. SUFFICES ASSUME UpInv, NEW n \in Node, NoneStarted(n), Alive(n), actor[n] = "teleport"
                PROVE  session[n].held /\ n \in runs[session[n].vm]
    BY DEF UpIsRunning, Alive
  <2>1. session[n].held
    BY DEF UpInv, LiveSession
  <2>. QED  BY <2>1 DEF UpInv, CarefulInv, RunsInv, RunsKept, SourceKept, On
<1>. QED  BY <1>1, <1>2, <1>3, PTL DEF Spec

-----------------------------------------------------------------------------
(* The journeys of the machines                                            *)

(* h is the journey of v, which runs on n: the history of the live         *)
(* session; or main is about to record a machine it started; or the        *)
(* metadata is on its way, and n records it when it comes.                 *)
Adding(v, n) == Starting(n) /\ main[n].vm = v

Story(v, n, h) ==
    \/ \E k \in DOMAIN metadatas[n] :
          metadatas[n][k].held /\ metadatas[n][k].vm = v /\ metadatas[n][k].history = h
    \/ ~HasHeld(metadatas[n], v) /\ Adding(v, n) /\ h = <<n>>
    \/ /\ ~HasHeld(metadatas[n], v) /\ ~Adding(v, n)
       /\ incoming[n] = v
       /\ \E c \in DOMAIN conv : conv[c].to = n /\ IsMetadata(c)
                                 /\ h = Append(conv[c].request.history, n)

Told == \A v \in VM : \A n \in runs[v] : \E h : Story(v, n, h)

(* The actor adds nothing between the two halves of main's add_metadata.   *)
NoRace ==
    \A n \in Node : Alive(n) /\ main[n].step = "add" => main[n].len = Len(metadatas[n])

(* The inductive invariant.                                                *)
StoryInv == CarefulInv /\ TeleportInv /\ NoRace /\ Told

(* The journey that is read off the state is the one that is told.         *)
JourneyIsTold ==
    \A v \in VM :
        /\ runs[v] = {} => JourneyOf(v) = <<>>
        /\ \A n \in runs[v] : \A h : Story(v, n, h) => JourneyOf(v) = h

LEMMA JourneyTold == StoryInv => JourneyIsTold
<1>. SUFFICES ASSUME StoryInv, NEW v \in VM, NEW n \in runs[v], NEW h, Story(v, n, h)
              PROVE  JourneyOf(v) = h
  BY DEF JourneyIsTold, JourneyOf
<1>0. /\ n \in Node /\ OneCommand /\ HeldAreIn(metadatas[n], On(n))
  BY DEF StoryInv, CarefulInv, RunsInv, RunsKept, ProtocolInv, RecordTypes
<1>1. JourneyOf(v) = KnownJourney(v, n)
  <2>1. \A m \in runs[v] : m = n
    BY <1>0 DEF OneCommand, OneEach
  <2>2. (CHOOSE m \in runs[v] : TRUE) = n
    BY <2>1
  <2>. QED  BY <2>2 DEF JourneyOf
<1>2. ASSUME NEW k \in DOMAIN metadatas[n], metadatas[n][k].held, metadatas[n][k].vm = v,
             metadatas[n][k].history = h
      PROVE  KnownJourney(v, n) = h
  <2>1. k \in Live(n, v) /\ \A j \in Live(n, v) : j = k
    BY <1>0, <1>2 DEF Live, HeldAreIn
  <2>2. (CHOOSE j \in Live(n, v) : TRUE) = k /\ Live(n, v) # {}
    BY <2>1
  <2>. QED  BY <1>2, <2>2 DEF KnownJourney
<1>3. ASSUME ~HasHeld(metadatas[n], v) PROVE Live(n, v) = {}
  BY <1>3 DEF Live, HasHeld
<1>4. CASE ~HasHeld(metadatas[n], v) /\ Adding(v, n) /\ h = <<n>>
  BY <1>1, <1>3, <1>4 DEF KnownJourney, Adding, Starting
<1>5. ASSUME ~HasHeld(metadatas[n], v), ~Adding(v, n),
             NEW c \in DOMAIN conv, conv[c].to = n, IsMetadata(c),
             h = Append(conv[c].request.history, n)
      PROVE  KnownJourney(v, n) = h
  <2>1. Live(n, v) = {}
    BY <1>3, <1>5
  <2>2. c \in Bringing(n) /\ \A d \in Bringing(n) : d = c
    <3>1. \A d \in DOMAIN conv : IsMetadata(d) => d \in Busy("conv")
      BY Places, MessageKinds DEF IsMetadata
    <3>. QED  BY <1>0, <1>5, <3>1 DEF Bringing, IsMetadata, OneCommand, OnePlace, Stage
  <2>3. (CHOOSE d \in Bringing(n) : TRUE) = c
    BY <2>2
  <2>. QED  BY <1>5, <2>1, <2>3 DEF KnownJourney, Adding, Starting
<1>. QED  BY <1>1, <1>2, <1>4, <1>5 DEF Story
-----------------------------------------------------------------------------
(* What a step needs                                                       *)

(* Where the command is, it is nowhere else.                               *)
LEMMA NowhereElse ==
    ASSUME OneCommand, NEW s \in Stage, NEW x \in Busy(s)
    PROVE  /\ \A t \in Stage : t # s => Busy(t) = {}
           /\ \A y \in Busy(s) : y = x
<1>. QED  BY DEF OneCommand, OnePlace

(* The place of the command that a step is about.                          *)
LEMMA StepIsAt ==
    ASSUME ProtocolInv, NEW m \in Node
    PROVE  /\ ReceiveTeleport(m) \/ ReceiveStart(m) => m \in Busy("typed")
           /\ StartVM(m) \/ CountMetadata(m) \/ AddStarted(m) => m \in Busy("main")
           /\ Command(m) => m \in Busy("pipe")
           /\ SendName(m) => sender[m] \in Busy("conv") /\ conv[sender[m]].reply # "none"
           /\ LaunchVM(m) \/ Arrive(m) \/ Fail(m) \/ FailAtOnce(m) => m \in Busy("actor")
<1>0. ThreadTypes /\ LocalTypes /\ RecordTypes /\ UsesSet(m)
  BY DEF ProtocolInv, UsesWhatIsSet
<1>1. ASSUME ReceiveTeleport(m) \/ ReceiveStart(m) PROVE m \in Busy("typed")
  BY <1>1, NoneIsNoCommand, Places DEF ReceiveTeleport, ReceiveStart
<1>2. ASSUME StartVM(m) \/ CountMetadata(m) \/ AddStarted(m) PROVE m \in Busy("main")
  BY <1>2, Places DEF StartVM, CountMetadata, AddStarted, MainAt, Alive
<1>3. ASSUME Command(m) PROVE m \in Busy("pipe")
  <2>1. /\ Alive(m) /\ pipe[m] # <<>> /\ Head(pipe[m]) # Term
    BY <1>3, CommandKinds DEF Command, TakesCommand, Alive
  <2>2. 1 \in DOMAIN pipe[m] /\ pipe[m][1] # Term
    BY <1>0, <2>1 DEF ThreadTypes
  <2>. QED  BY <2>1, <2>2, Places
<1>4. ASSUME SendName(m) PROVE sender[m] \in Busy("conv") /\ conv[sender[m]].reply # "none"
  <2>1. /\ actor[m] = "signal" /\ conv[sender[m]].reply = "signal"
    BY <1>4 DEF SendName
  <2>2. sender[m] \in DOMAIN conv
    BY <1>0, <2>1 DEF UsesSet, LocalTypes, RecordTypes
  <2>. QED  BY <2>1, <2>2, Places
<1>5. ASSUME LaunchVM(m) \/ Arrive(m) \/ Fail(m) \/ FailAtOnce(m) PROVE m \in Busy("actor")
  BY <1>5, Places DEF LaunchVM, Arrive, Fail, FailAtOnce, Alive
<1>. QED  BY <1>1, <1>2, <1>3, <1>4, <1>5

(* While the metadata is on its way, it is all that can happen.            *)
LEMMA WhileBringing ==
    ASSUME CarefulInv, TeleportInv, [Next]_vars, NEW c \in DOMAIN conv, IsMetadata(c)
    PROVE  \/ UNCHANGED <<main, incoming, conv, metadatas, runs>>
           \/ HearMetadata(conv[c].to)
<1>0. /\ OneCommand /\ ProtocolInv
      /\ \A d \in DOMAIN conv : conv[d].request # Silent \/ conv[d].reply # "none"
             => d = c
      /\ conv[c].reply = "none" /\ c \in Busy("conv") /\ conv[c].request # Silent
      /\ conv[c].to \in Node
  <2>1. c \in Busy("conv") /\ conv[c].request # Silent
    BY Places, MessageKinds DEF IsMetadata
  <2>2. OneCommand /\ ProtocolInv /\ conv[c].to \in Node
    BY ConvTypes DEF CarefulInv, RunsInv, ProtocolInv, RecordTypes
  <2>3. \A d \in Busy("conv") : d = c
    BY <2>1, <2>2, NowhereElse DEF Stage
  <2>. QED  BY <2>1, <2>2, <2>3, Places DEF OneCommand, Alternating
<1>1. Busy("typed") = {} /\ Busy("main") = {} /\ Busy("pipe") = {} /\ Busy("actor") = {}
  BY <1>0, NowhereElse DEF Stage
<1>2. CASE UNCHANGED vars
  BY <1>2 DEF vars
<1>3. ASSUME NEW n \in Node, NEW command \in TeleportCommand \cup StartCommand,
             Type(n, command)
      PROVE  FALSE
  BY <1>0, <1>3 DEF Type, CarefulInv, Quiet
<1>4. ASSUME NEW n \in Node, MainThread(n) PROVE FALSE
  BY <1>0, <1>1, <1>4, StepIsAt DEF MainThread
<1>5. ASSUME NEW n \in Node, ActorThread(n)
      PROVE  \/ UNCHANGED <<main, incoming, conv, metadatas, runs>>
             \/ n = conv[c].to /\ HearMetadata(n)
  <2>1. CASE Command(n) \/ LaunchVM(n) \/ Arrive(n) \/ Fail(n) \/ FailAtOnce(n)
    BY <1>0, <1>1, <2>1, StepIsAt
  <2>2. CASE CommandTerm(n) \/ HearOld(n)
    BY <2>2 DEF CommandTerm, HearOld, locals
  <2>3. CASE SendName(n)
    BY <1>0, <2>3, StepIsAt, Places
  <2>4. CASE HearGo(n)
    BY <1>0, <2>4, AnswerIsOurs, Places
  <2>5. CASE HearAnnounce(n)
    BY <1>0, <2>5, MessageKinds DEF HearAnnounce, Waiting, IsMetadata
  <2>6. CASE HearName(n)
    <3>1. process[n] # "gone" /\ actor[n] = "name" /\ conv[c].to = n
      BY <1>0, <2>6 DEF HearName, Waiting
    <3>. QED  BY <3>1 DEF TeleportInv, MetadataKept
  <2>7. CASE HearMetadata(n)
    BY <1>0, <2>7 DEF HearMetadata, Waiting
  <2>. QED  BY <1>5, <2>1, <2>2, <2>3, <2>4, <2>5, <2>6, <2>7 DEF ActorThread
<1>. QED  BY <1>2, <1>3, <1>4, <1>5 DEF Next

(* Which steps change the array of a host.                                 *)
LEMMA MetadatasOf ==
    ASSUME ProtocolInv, [Next]_vars, NEW n \in Node
    PROVE  \/ metadatas'[n] = metadatas[n]
           \/ AddStarted(n) \/ HearMetadata(n) \/ LaunchVM(n) \/ Arrive(n)
<1>1. CASE metadatas' = metadatas
  BY <1>1
<1>2. ASSUME NEW m \in Node, AddStarted(m) \/ HearMetadata(m) \/ LaunchVM(m) \/ Arrive(m)
      PROVE  m = n \/ metadatas'[n] = metadatas[n]
  BY <1>2 DEF AddStarted, HearMetadata, LaunchVM, Arrive, ProtocolInv, RecordTypes
<1>. QED  BY <1>1, <1>2, MetadatasChange

(* Where the machines run: a machine is started where the command is, and  *)
(* it ran nowhere; or it arrives.                                          *)
LEMMA RunsNext ==
    ASSUME CarefulInv, [Next]_vars
    PROVE  \/ runs' = runs
           \/ \E m \in Node, v \in VM :
                 /\ \/ StartVM(m) /\ main[m].vm = v /\ MainGoes(m, "count")
                    \/ LaunchVM(m) /\ vm_name[m] = v
                 /\ runs[v] = {} /\ runs' = [runs EXCEPT ![v] = {m}]
           \/ \E m \in Node : Arrive(m)
<1>0. /\ OneCommand /\ ProtocolInv /\ RecordTypes /\ ThreadTypes /\ LocalTypes
  BY DEF CarefulInv, RunsInv, ProtocolInv
<1>1. \/ runs' = runs \/ \E n \in Node : StartVM(n) \/ LaunchVM(n) \/ Arrive(n)
  BY DEF Next, vars, threads, locals, Type, MainThread, ReceiveTeleport, ReceiveStart, CountMetadata,
     AddStarted, ActorThread, Command, CommandTerm, SendName, HearAnnounce, HearName,
     Prepares, HearMetadata, HearOld, HearGo, Fail, FailAtOnce
<1>2. ASSUME NEW m \in Node, NEW v \in VM, runs[v] \subseteq {m}, Launchable(m, v),
             runs' = [runs EXCEPT ![v] = @ \cup {m}]
      PROVE  runs[v] = {} /\ runs' = [runs EXCEPT ![v] = {m}]
  <2>1. runs[v] = {}
    BY <1>2 DEF Launchable
  <2>. QED  BY <1>0, <1>2, <2>1
<1>3. ASSUME NEW m \in Node, StartVM(m), runs' # runs
      PROVE  \E v \in VM : /\ main[m].vm = v /\ MainGoes(m, "count")
                           /\ runs[v] = {} /\ runs' = [runs EXCEPT ![v] = {m}]
  <2>. DEFINE v == main[m].vm
  <2>1. /\ main[m].step = "launch" /\ Launchable(m, v)
        /\ runs' = [runs EXCEPT ![v] = @ \cup {m}] /\ MainGoes(m, "count")
    BY <1>3 DEF StartVM, MainAt
  <2>2. v \in VM
    BY <1>0, <2>1, MainHasMachine
  <2>3. runs[v] \subseteq {m}
    <3>1. m \in Busy("main")
      BY <1>0, <1>3, StepIsAt
    <3>. QED  BY <1>0, <2>1, <3>1, Claims DEF OneCommand, Stage, Alone
  <2>4. runs[v] = {} /\ runs' = [runs EXCEPT ![v] = {m}]
    BY <1>2, <2>1, <2>2, <2>3
  <2>. QED  BY <2>1, <2>2, <2>4
<1>4. ASSUME NEW m \in Node, LaunchVM(m), runs' # runs
      PROVE  \E v \in VM : /\ vm_name[m] = v
                           /\ runs[v] = {} /\ runs' = [runs EXCEPT ![v] = {m}]
  <2>. DEFINE v == vm_name[m]
  <2>1. /\ actor[m] = "launch" /\ Launchable(m, v)
        /\ runs' = [runs EXCEPT ![v] = @ \cup {m}]
    BY <1>4 DEF LaunchVM
  <2>2. v \in VM
    BY <1>0, <2>1 DEF ProtocolInv, UsesWhatIsSet, UsesSet, LocalTypes
  <2>3. runs[v] \subseteq {m}
    <3>1. m \in Busy("actor")
      BY <1>0, <1>4, StepIsAt
    <3>. QED  BY <1>0, <3>1, Claims DEF OneCommand, Stage, Alone
  <2>4. runs[v] = {} /\ runs' = [runs EXCEPT ![v] = {m}]
    BY <1>2, <2>1, <2>2, <2>3
  <2>. QED  BY <2>2, <2>4
<1>. QED  BY <1>1, <1>3, <1>4

-----------------------------------------------------------------------------
(* The journeys go on                                                      *)

(* Which steps change what main does.                                      *)
LEMMA MainOf ==
    ASSUME ProtocolInv, [Next]_vars, NEW n \in Node
    PROVE  \/ main'[n] = main[n]
           \/ ReceiveStart(n) \/ StartVM(n) \/ CountMetadata(n) \/ AddStarted(n)
<1>. USE DEF threads, locals, ProtocolInv, ThreadTypes
<1>1. CASE UNCHANGED vars
  BY <1>1 DEF vars
<1>2. ASSUME NEW m \in Node, NEW command \in TeleportCommand \cup StartCommand,
             Type(m, command)
      PROVE  main' = main
  BY <1>2 DEF Type
<1>3. ASSUME NEW m \in Node, MainThread(m)
      PROVE  \/ main'[n] = main[n]
             \/ m = n /\ (ReceiveStart(m) \/ StartVM(m) \/ CountMetadata(m) \/ AddStarted(m))
  BY <1>3 DEF MainThread, ReceiveTeleport, ReceiveStart, StartVM, CountMetadata,
     AddStarted, MainGoes
<1>4. ASSUME NEW m \in Node, ActorThread(m) PROVE main' = main
  BY <1>4 DEF ActorThread, Command, CommandTerm, SendName, HearAnnounce, HearName,
     HearMetadata, HearOld, HearGo, LaunchVM, Arrive, Fail, FailAtOnce
<1>. QED  BY <1>1, <1>2, <1>3, <1>4 DEF Next

(* Main's element is there when main is done.                              *)
LEMMA AddedIsThere ==
    ASSUME ProtocolInv, NoRace, NEW n \in Node, AddStarted(n)
    PROVE  /\ Entry(main[n].vm, n, <<n>>, TRUE) \in EntryType
           /\ metadatas'[n] = Append(metadatas[n], Entry(main[n].vm, n, <<n>>, TRUE))
<1>1. /\ metadatas \in [Node -> Seq(EntryType)] /\ main[n].step = "add" /\ Alive(n)
  BY DEF AddStarted, MainAt, Alive, ProtocolInv, RecordTypes
<1>2. main[n].len = Len(metadatas[n]) /\ main[n].vm \in VM
  BY <1>1, MainHasMachine DEF NoRace
<1>3. Entry(main[n].vm, n, <<n>>, TRUE) \in EntryType
  <2>1. <<n>> \in Seq(Node)
    OBVIOUS
  <2>. QED  BY <1>2, <2>1, EntryTypes
<1>4. metadatas' = [metadatas EXCEPT ![n] =
          Append(metadatas[n], Entry(main[n].vm, n, <<n>>, TRUE))]
  BY <1>2 DEF AddStarted
<1>. QED  BY <1>1, <1>3, <1>4

(* A live session is there until it is released.                           *)
LEMMA LiveStays ==
    ASSUME ProtocolInv, NoRace, [Next]_vars, NEW n \in Node, NEW k \in DOMAIN metadatas[n],
           ~(Arrive(n) /\ session[n].vm = metadatas[n][k].vm)
    PROVE  k \in DOMAIN metadatas'[n] /\ metadatas'[n][k] = metadatas[n][k]
<1>1. /\ metadatas \in [Node -> Seq(EntryType)] /\ metadatas[n] \in Seq(EntryType)
  BY DEF ProtocolInv, RecordTypes
<1>2. ASSUME NEW e, metadatas'[n] = Append(metadatas[n], e)
      PROVE  k \in DOMAIN metadatas'[n] /\ metadatas'[n][k] = metadatas[n][k]
  BY <1>1, <1>2
<1>3. CASE AddStarted(n)
  BY <1>2, <1>3, AddedIsThere
<1>4. CASE HearMetadata(n)
  BY <1>2, <1>4, HeardAppends
<1>5. CASE LaunchVM(n)
  BY <1>2, <1>5, LaunchedAppends
<1>6. CASE Arrive(n)
  <2>1. metadatas[n][k].vm # session[n].vm
    BY <1>6
  <2>2. metadatas'[n] = Release(metadatas[n], session[n])
    BY <1>1, <1>6 DEF Arrive
  <2>. QED  BY <2>1, <2>2 DEF Release
<1>. QED  BY <1>3, <1>4, <1>5, <1>6, MetadatasOf

(* A machine that does not leave its host keeps its journey.               *)
LEMMA StoryStays ==
    ASSUME StoryInv, [Next]_vars, NEW v \in VM, NEW n \in Node, NEW h, Story(v, n, h),
           ~(Arrive(n) /\ session[n].vm = v)
    PROVE  Story(v, n, h)'
<1>. DEFINE md == metadatas[n]
<1>0. /\ CarefulInv /\ TeleportInv /\ NoRace /\ ProtocolInv /\ OneCommand
      /\ metadatas \in [Node -> Seq(EntryType)] /\ md \in Seq(EntryType)
  BY DEF StoryInv, CarefulInv, RunsInv, ProtocolInv, RecordTypes
<1>1. ASSUME NEW k \in DOMAIN md, md[k].held, md[k].vm = v, md[k].history = h
      PROVE  Story(v, n, h)'
  BY <1>0, <1>1, LiveStays DEF Story
<1>2. ASSUME NEW e, metadatas'[n] = Append(md, e), e.held, e.vm = v, e.history = h
      PROVE  Story(v, n, h)'
  <2>1. Len(md) + 1 \in DOMAIN metadatas'[n] /\ metadatas'[n][Len(md) + 1] = e
    BY <1>0, <1>2
  <2>. QED  BY <1>2, <2>1 DEF Story
<1>3. CASE ~HasHeld(md, v) /\ Adding(v, n) /\ h = <<n>>
  <2>1. CASE AddStarted(n)
    <3>. DEFINE e == Entry(main[n].vm, n, <<n>>, TRUE)
    <3>1. metadatas'[n] = Append(md, e)
      BY <1>0, <2>1, AddedIsThere
    <3>2. e.held /\ e.vm = v /\ e.history = h
      BY <1>3 DEF Adding, Entry
    <3>. HIDE DEF e
    <3>. QED  BY <1>2, <3>1, <3>2
  <2>2. CASE ~AddStarted(n)
    <3>1. ~HearMetadata(n) /\ ~LaunchVM(n) /\ ~Arrive(n)
      <4>1. ASSUME Alive(n) PROVE Busy("conv") = {} /\ Busy("actor") = {}
        <5>1. n \in Busy("main")
          BY <1>3, <4>1, Places DEF Adding, Starting
        <5>. QED  BY <1>0, <5>1, NowhereElse DEF Stage
      <4>2. HearMetadata(n) => Alive(n) /\ Busy("conv") # {}
        BY Places DEF HearMetadata, Waiting, Alive
      <4>3. LaunchVM(n) \/ Arrive(n) => Alive(n) /\ Busy("actor") # {}
        BY <1>0, StepIsAt DEF LaunchVM, Arrive, Alive
      <4>. QED  BY <4>1, <4>2, <4>3
    <3>2. metadatas'[n] = md
      BY <1>0, <2>2, <3>1, MetadatasOf
    <3>3. main'[n].step \in {"count", "add"} /\ main'[n].vm = v
      <4>1. CASE main'[n] = main[n]
        BY <1>3, <4>1 DEF Adding, Starting
      <4>2. CASE CountMetadata(n)
        <5>1. main[n] \in [step : {"idle", "launch", "wait", "count", "add", "exiting"},
                           vm : VM \cup {None}, len : Nat]
          BY <1>0 DEF ProtocolInv, ThreadTypes
        <5>2. main'[n] = [main[n] EXCEPT !.step = "add", !.len = Len(metadatas[n])]
          BY <1>0, <4>2 DEF CountMetadata, ProtocolInv, ThreadTypes
        <5>. QED  BY <1>3, <5>1, <5>2 DEF Adding
      <4>3. ~ReceiveStart(n) /\ ~StartVM(n)
        BY <1>3 DEF Adding, Starting, ReceiveStart, StartVM, MainAt
      <4>. QED  BY <1>0, <2>2, <4>1, <4>2, <4>3, MainOf
    <3>. QED  BY <1>3, <3>2, <3>3 DEF Story, Adding, Starting
  <2>. QED  BY <2>1, <2>2
<1>4. ASSUME ~HasHeld(md, v), ~Adding(v, n), incoming[n] = v,
             NEW c \in DOMAIN conv, conv[c].to = n, IsMetadata(c),
             h = Append(conv[c].request.history, n)
      PROVE  Story(v, n, h)'
  <2>1. CASE UNCHANGED <<main, incoming, conv, metadatas, runs>>
    BY <1>4, <2>1 DEF Story, Adding, Starting, IsMetadata
  <2>2. CASE HearMetadata(n)
    <3>1. PICK d \in Waiting(n) :
            IF conv[d].request.type = "metadata"
            THEN metadatas' = [metadatas EXCEPT ![n] = Append(@,
                   Entry(incoming[n], conv[d].request.home,
                         Append(conv[d].request.history, n), FALSE))]
            ELSE TRUE
      BY <2>2 DEF HearMetadata
    <3>2. d = c
      <4>1. d \in Busy("conv") /\ c \in Busy("conv")
        BY <1>4, Places, MessageKinds DEF Waiting, IsMetadata
      <4>. QED  BY <1>0, <4>1, NowhereElse DEF Stage
    <3>. DEFINE e == Entry(incoming[n], conv[c].request.home,
                           Append(conv[c].request.history, n), FALSE)
    <3>3. metadatas'[n] = Append(md, e)
      BY <1>0, <1>4, <3>1, <3>2 DEF IsMetadata
    <3>4. e.held /\ e.vm = v /\ e.history = h
      BY <1>4 DEF Entry
    <3>. HIDE DEF e
    <3>. QED  BY <1>2, <3>3, <3>4
  <2>. QED  BY <1>0, <1>4, <2>1, <2>2, WhileBringing
<1>. QED  BY <1>1, <1>3, <1>4 DEF Story

(* A machine that was started begins its journey.                          *)
LEMMA StoryBegins ==
    ASSUME StoryInv, [Next]_vars, NEW m \in Node, NEW v \in VM,
           \/ StartVM(m) /\ main[m].vm = v /\ MainGoes(m, "count")
           \/ LaunchVM(m) /\ vm_name[m] = v,
           runs[v] = {}, runs' = [runs EXCEPT ![v] = {m}]
    PROVE  Story(v, m, <<m>>)'
<1>0. /\ ProtocolInv /\ ThreadTypes /\ RecordTypes /\ RunsKept(m) /\ v \notin On(m)
      /\ metadatas[m] \in Seq(EntryType)
  BY DEF StoryInv, CarefulInv, RunsInv, ProtocolInv, RecordTypes, On
<1>1. CASE StartVM(m) /\ main[m].vm = v /\ MainGoes(m, "count")
  <2>1. main'[m].step = "count" /\ main'[m].vm = v
    BY <1>0, <1>1, MainWent
  <2>2. metadatas' = metadatas
    BY <1>1 DEF StartVM
  <2>3. ~HasHeld(metadatas[m], v)
    BY <1>0 DEF RunsKept, HeldAreIn, HasHeld
  <2>. QED  BY <2>1, <2>2, <2>3 DEF Story, Adding, Starting
<1>2. CASE LaunchVM(m) /\ vm_name[m] = v
  <2>. DEFINE e == Entry(v, m, <<m>>, FALSE)
  <2>1. m \in runs'[v]
    BY <1>0 DEF RecordTypes
  <2>2. runs' # runs
    BY <2>1
  <2>3. metadatas' = [metadatas EXCEPT ![m] = Append(@, e)]
    BY <1>2, <2>2 DEF LaunchVM
  <2>4. e.held /\ e.vm = v /\ e.history = <<m>>
    BY DEF Entry
  <2>. HIDE DEF e
  <2>5. metadatas'[m] = Append(metadatas[m], e)
    BY <1>0, <2>3 DEF RecordTypes
  <2>6. /\ Len(metadatas[m]) + 1 \in DOMAIN metadatas'[m]
        /\ metadatas'[m][Len(metadatas[m]) + 1] = e
    BY <1>0, <2>5
  <2>. QED  BY <2>4, <2>6 DEF Story
<1>. QED  BY <1>1, <1>2

(* A machine that arrives takes its journey along.                         *)
LEMMA StoryMoves ==
    ASSUME StoryInv, [Next]_vars, NEW m \in Node, Arrive(m)
    PROVE  \E v \in VM, t \in Node, h \in Seq(Node) :
              /\ t # m /\ h # <<>> /\ h[Len(h)] = m
              /\ session[m].vm = v
              /\ runs[v] = {m} /\ runs' = [runs EXCEPT ![v] = {t}]
              /\ Story(v, m, h) /\ Story(v, t, Append(h, t))'
<1>. PICK c, t, e, v, h : /\ c = sender[m] /\ t = target_ip[m] /\ e = session[m]
                         /\ v = e.vm /\ h = e.history
  OBVIOUS
<1>0. /\ CarefulInv /\ TeleportInv /\ ProtocolInv /\ OneCommand
      /\ ThreadTypes /\ LocalTypes /\ RecordTypes
      /\ RunsKept(m) /\ Told
  BY DEF StoryInv, CarefulInv, RunsInv, ProtocolInv
<1>1. /\ Alive(m) /\ actor[m] = "teleport" /\ e.held /\ e # None
      /\ t \in Node \ {m} /\ actor[t] = "incoming" /\ incoming[t] = v /\ m \in runs[v]
      /\ runs' = [runs EXCEPT ![v] = (@ \ {m}) \cup {t}]
      /\ conv' = [conv EXCEPT ![c].request = Metadata(e)]
      /\ metadatas' = [metadatas EXCEPT ![m] = Release(@, e)]
      /\ UNCHANGED <<main, incoming>>
  BY <1>0 DEF Arrive, Expected, Alive, ProtocolInv, UsesWhatIsSet, UsesSet
<1>2. /\ e \in EntryType /\ v \in VM /\ h \in Seq(Node)
      /\ c \in DOMAIN conv /\ conv[c].to = t
  <2>1. e \in EntryType
    BY <1>0, <1>1 DEF LocalTypes
  <2>2. c \in DOMAIN conv /\ c > 0
    BY <1>0, <1>1 DEF ProtocolInv, UsesWhatIsSet, UsesSet, LocalTypes, RecordTypes
  <2>3. t \in {conv[c].to, Home}
    BY <1>0, <2>2 DEF ProtocolInv, SenderKept
  <2>. QED  BY <1>1, <2>1, <2>2, <2>3, TeleportAssumption DEF EntryType
<1>3. Journey(m, e.home, h)
  BY <1>0, <1>1 DEF TeleportInv, SessionKept
<1>4. RunsKept(t)
  BY <1>0, <1>1 DEF CarefulInv, RunsInv
<1>5. h # <<>> /\ h[Len(h)] = m
  BY <1>2, <1>3 DEF Journey
<1>6. runs[v] = {m} /\ runs' = [runs EXCEPT ![v] = {t}]
  <2>1. \A n \in runs[v] : n = m
    BY <1>0, <1>1, <1>2 DEF OneCommand, OneEach
  <2>2. runs[v] = {m}
    BY <1>1, <2>1
  <2>. QED  BY <1>0, <1>1, <1>2, <2>2 DEF RecordTypes
<1>7. Story(v, m, h)
  <2>1. PICK g : Story(v, m, g)
    BY <1>0, <1>1, <1>2 DEF Told
  <2>2. Busy("main") = {} /\ Busy("conv") = {}
    <3>1. m \in Busy("actor")
      BY <1>1, Places
    <3>. QED  BY <1>0, <3>1, NowhereElse DEF Stage
  <2>3. ~Adding(v, m)
    BY <1>1, <2>2, Places DEF Adding, Starting
  <2>4. \A d \in DOMAIN conv : ~IsMetadata(d)
    BY <2>2, Places, MessageKinds DEF IsMetadata
  <2>5. PICK k \in DOMAIN metadatas[m] : metadatas[m][k].held /\ metadatas[m][k].vm = v
    BY <2>1, <2>3, <2>4 DEF Story
  <2>6. metadatas[m][k] = e
    BY <1>0, <1>1, <2>5 DEF RunsKept, SourceKept
  <2>. QED  BY <2>5, <2>6 DEF Story
<1>8. Story(v, t, Append(h, t))'
  <2>1. metadatas'[t] = metadatas[t]
    BY <1>0, <1>1 DEF RecordTypes
  <2>2. v \notin On(t)
    BY <1>1, <1>4 DEF RunsKept, TargetKept
  <2>3. ~HasHeld(metadatas[t], v)
    BY <1>4, <2>2 DEF RunsKept, HeldAreIn, HasHeld
  <2>4. ~Adding(v, t)
    BY <1>1, <1>4 DEF RunsKept, TargetKept, Adding
  <2>5. c \in DOMAIN conv' /\ conv'[c].to = t /\ conv'[c].request = Metadata(e)
    <3>1. conv[c] \in Conversation /\ conv \in Seq(Conversation)
      BY <1>0, <1>2 DEF RecordTypes
    <3>2. /\ [conv[c] EXCEPT !.request = Metadata(e)].to = t
          /\ [conv[c] EXCEPT !.request = Metadata(e)].request = Metadata(e)
      BY <1>2, <3>1 DEF Conversation
    <3>3. conv' = [conv EXCEPT ![c] = [conv[c] EXCEPT !.request = Metadata(e)]]
      BY <1>1
    <3>. QED  BY <1>2, <3>1, <3>2, <3>3
  <2>6. Metadata(e).type = "metadata" /\ Metadata(e).history = h
    BY DEF Metadata
  <2>7. ~HasHeld(metadatas'[t], v) /\ main'[t] = main[t] /\ incoming'[t] = v
    BY <1>1, <2>1, <2>3
  <2>8. ~(main'[t].step \in {"count", "add"} /\ main'[t].vm = v)
    BY <2>4, <2>7 DEF Adding, Starting
  <2>9. /\ conv'[c].request.type = "metadata"
        /\ Append(h, t) = Append(conv'[c].request.history, t)
    BY <2>5, <2>6
  <2>10. /\ \E d \in DOMAIN conv' : /\ conv'[d].to = t /\ conv'[d].request.type = "metadata"
                                    /\ Append(h, t) = Append(conv'[d].request.history, t)
    BY <2>5, <2>9
  <2>. QED  BY <2>7, <2>8, <2>10 DEF Story, Adding, Starting, IsMetadata
<1>9. t \in Node /\ t # m
  BY <1>1
<1>. QED  BY <1>2, <1>5, <1>6, <1>7, <1>8, <1>9

(* A machine that runs where it ran keeps its journey.                     *)
LEMMA StoryKept ==
    ASSUME StoryInv, [Next]_vars, NEW v \in VM, runs'[v] = runs[v], NEW n \in runs[v],
           NEW h, Story(v, n, h)
    PROVE  n \in Node /\ Story(v, n, h)'
<1>0. n \in Node /\ runs \in [VM -> SUBSET Node]
  BY DEF StoryInv, CarefulInv, RunsInv, ProtocolInv, RecordTypes
<1>1. ASSUME Arrive(n), session[n].vm = v PROVE FALSE
  <2>1. PICK t \in Node : t # n /\ runs[v] = {n} /\ runs' = [runs EXCEPT ![v] = {t}]
    BY <1>0, <1>1, StoryMoves
  <2>. QED  BY <1>0, <2>1
<1>. QED  BY <1>0, <1>1, StoryStays

(* What a step does to the machines, and to their journeys.                *)
Started(v, n) ==
    /\ runs[v] = {} /\ runs' = [runs EXCEPT ![v] = {n}]
    /\ Story(v, n, <<n>>)'

Moved(v, n, t, h) ==
    /\ t # n /\ h # <<>> /\ h[Len(h)] = n
    /\ runs[v] = {n} /\ runs' = [runs EXCEPT ![v] = {t}]
    /\ Story(v, n, h) /\ Story(v, t, Append(h, t))'

LEMMA StoriesNext ==
    ASSUME StoryInv, [Next]_vars
    PROVE  \/ runs' = runs
           \/ \E v \in VM, n \in Node : Started(v, n)
           \/ \E v \in VM, n, t \in Node, h \in Seq(Node) : Moved(v, n, t, h)
<1>1. ASSUME NEW m \in Node, NEW v \in VM,
             \/ StartVM(m) /\ main[m].vm = v /\ MainGoes(m, "count")
             \/ LaunchVM(m) /\ vm_name[m] = v,
             runs[v] = {}, runs' = [runs EXCEPT ![v] = {m}]
      PROVE  Started(v, m)
  BY <1>1, StoryBegins DEF Started
<1>2. ASSUME NEW m \in Node, Arrive(m)
      PROVE  \E v \in VM, t \in Node, h \in Seq(Node) : Moved(v, m, t, h)
  BY <1>2, StoryMoves DEF Moved
<1>. QED  BY <1>1, <1>2, RunsNext DEF StoryInv

LEMMA ToldStep ==
    ASSUME StoryInv, [Next]_vars
    PROVE  Told'
<1>. SUFFICES ASSUME NEW v \in VM, NEW n \in runs'[v] PROVE \E h : Story(v, n, h)'
  BY DEF Told
<1>0. runs \in [VM -> SUBSET Node] /\ Told
  BY DEF StoryInv, CarefulInv, RunsInv, ProtocolInv, RecordTypes
<1>1. CASE runs'[v] = runs[v]
  BY <1>0, <1>1, StoryKept DEF Told
<1>2. ASSUME NEW w \in VM, NEW m \in Node, Started(w, m), w = v PROVE \E h : Story(v, n, h)'
  <2>1. n = m
    BY <1>0, <1>2 DEF Started
  <2>. QED  BY <1>2, <2>1 DEF Started
<1>3. ASSUME NEW w \in VM, NEW m \in Node, NEW t \in Node, NEW g \in Seq(Node),
             Moved(w, m, t, g), w = v
      PROVE  \E h : Story(v, n, h)'
  <2>1. n = t
    BY <1>0, <1>3 DEF Moved
  <2>. QED  BY <1>3, <2>1 DEF Moved
<1>4. ASSUME NEW w \in VM, w # v, NEW S, runs' = [runs EXCEPT ![w] = S]
      PROVE  runs'[v] = runs[v]
  BY <1>0, <1>4
<1>. QED  BY <1>1, <1>2, <1>3, <1>4, StoriesNext DEF Started, Moved

LEMMA NoRaceStep ==
    ASSUME StoryInv, [Next]_vars
    PROVE  NoRace'
<1>. SUFFICES ASSUME NEW n \in Node, process'[n] # "gone", main'[n].step = "add"
              PROVE  main'[n].len = Len(metadatas'[n])
  BY DEF NoRace, Alive
<1>0. /\ ProtocolInv /\ ThreadTypes /\ OneCommand /\ NoRace
      /\ main[n] \in [step : {"idle", "launch", "wait", "count", "add", "exiting"},
                      vm : VM \cup {None}, len : Nat]
  BY DEF StoryInv, CarefulInv, RunsInv, ProtocolInv, ThreadTypes
<1>1. Alive(n)
  BY <1>0, ProcessesOnlyGo DEF Alive
<1>2. CASE CountMetadata(n)
  <2>1. main'[n] = [main[n] EXCEPT !.step = "add", !.len = Len(metadatas[n])]
    BY <1>0, <1>2 DEF CountMetadata, ThreadTypes
  <2>2. main'[n].len = Len(metadatas[n])
    BY <1>0, <2>1
  <2>3. metadatas' = metadatas
    BY <1>2 DEF CountMetadata
  <2>. QED  BY <2>2, <2>3
<1>3. ~AddStarted(n)
  BY <1>0, MainWent DEF AddStarted
<1>4. ~ReceiveStart(n)
  <2>1. ASSUME ReceiveStart(n) PROVE main'[n].step = "launch"
    BY <1>0, <2>1 DEF ReceiveStart, ThreadTypes
  <2>. QED  BY <2>1
<1>5. ~StartVM(n)
  <2>1. ASSUME StartVM(n) PROVE main'[n].step # "add"
    <3>1. /\ main[n].step = "launch"
          /\ \/ MainGoes(n, "count") \/ MainGoes(n, "wait")
             \/ MainGoes(n, "exiting") \/ main' = main
      BY <2>1 DEF StartVM, MainAt
    <3>. QED  BY <1>0, <3>1, MainWent
  <2>. QED  BY <2>1
<1>6. CASE main'[n] = main[n]
  <2>1. n \in Busy("main")
    BY <1>1, <1>6, Places
  <2>2. Busy("conv") = {} /\ Busy("actor") = {}
    BY <1>0, <2>1, NowhereElse DEF Stage
  <2>3. ~HearMetadata(n)
    BY <2>2, Places DEF HearMetadata, Waiting
  <2>4. ~LaunchVM(n) /\ ~Arrive(n)
    BY <1>0, <2>2, StepIsAt
  <2>5. metadatas'[n] = metadatas[n]
    BY <1>0, <1>3, <2>3, <2>4, MetadatasOf
  <2>. QED  BY <1>0, <1>1, <1>6, <2>5 DEF NoRace
<1>. QED  BY <1>0, <1>2, <1>3, <1>4, <1>5, <1>6, MainOf

LEMMA StoryInvInductive == StoryInv /\ [Next]_vars => StoryInv'
<1>. SUFFICES ASSUME StoryInv, [Next]_vars PROVE StoryInv'
  OBVIOUS
<1>1. CarefulInv' /\ TeleportInv'
  BY CarefulStep, TeleportStep DEF StoryInv
<1>. QED  BY <1>1, ToldStep, NoRaceStep DEF StoryInv

LEMMA StoryInitially == Careful /\ Init => StoryInv
<1>. SUFFICES ASSUME Careful, Init PROVE StoryInv
  OBVIOUS
<1>1. CarefulInv /\ TeleportInv
  BY CarefulInitially, TeleportInitially
<1>2. Told /\ NoRace
  BY DEF Init, Told, NoRace
<1>. QED  BY <1>1, <1>2 DEF StoryInv

(* A step of the executers is a step of the journeys, or none.             *)
KnownJourneys == [v \in VM |-> JourneyOf(v)]

LEMMA StepIsJourneyStep ==
    ASSUME StoryInv, StoryInv', JourneyIsTold, JourneyIsTold', [Next]_vars
    PROVE  [Abstract!Next]_KnownJourneys
<1>0. runs \in [VM -> SUBSET Node] /\ Told /\ Told'
  BY DEF StoryInv, CarefulInv, RunsInv, ProtocolInv, RecordTypes
<1>1. ASSUME NEW v \in VM, runs'[v] = runs[v] PROVE JourneyOf(v)' = JourneyOf(v)
  <2>1. CASE runs[v] = {}
    BY <1>1, <2>1 DEF JourneyIsTold
  <2>2. CASE runs[v] # {}
    <3>1. PICK n \in runs[v] : TRUE
      BY <2>2
    <3>2. PICK h : Story(v, n, h)
      BY <1>0, <3>1 DEF Told
    <3>3. Story(v, n, h)' /\ n \in runs'[v]
      BY <1>1, <3>1, <3>2, StoryKept
    <3>4. JourneyOf(v) = h
      BY <3>1, <3>2 DEF JourneyIsTold
    <3>5. JourneyOf(v)' = h
      BY <3>3 DEF JourneyIsTold
    <3>. QED  BY <3>4, <3>5
  <2>. QED  BY <2>1, <2>2
<1>2. CASE runs' = runs
  <2>1. \A v \in VM : JourneyOf(v)' = JourneyOf(v)
    BY <1>1, <1>2
  <2>. QED  BY <2>1 DEF KnownJourneys
<1>3. ASSUME NEW v \in VM, NEW S, runs' = [runs EXCEPT ![v] = S], NEW j, JourneyOf(v)' = j
      PROVE  KnownJourneys' = [KnownJourneys EXCEPT ![v] = j]
  <2>1. \A w \in VM : w # v => JourneyOf(w)' = JourneyOf(w)
    BY <1>0, <1>1, <1>3
  <2>2. \A w \in VM : KnownJourneys'[w] = IF w = v THEN j ELSE KnownJourneys[w]
    BY <1>3, <2>1 DEF KnownJourneys
  <2>. QED  BY <2>2 DEF KnownJourneys
<1>4. ASSUME NEW v \in VM, NEW n \in Node, Started(v, n) PROVE Abstract!Next
  <2>1. n \in runs'[v] /\ Story(v, n, <<n>>)' /\ runs' = [runs EXCEPT ![v] = {n}]
    BY <1>0, <1>4 DEF Started
  <2>2. JourneyOf(v)' = <<n>>
    BY <2>1 DEF JourneyIsTold
  <2>3. JourneyOf(v) = <<>>
    BY <1>4 DEF Started, JourneyIsTold
  <2>4. KnownJourneys' = [KnownJourneys EXCEPT ![v] = <<n>>] /\ KnownJourneys[v] = <<>>
    BY <1>3, <2>1, <2>2, <2>3 DEF KnownJourneys
  <2>5. Abstract!Start(v, n)
    BY <2>4 DEF Abstract!Start, KnownJourneys
  <2>. QED  BY <2>5 DEF Abstract!Next
<1>5. ASSUME NEW v \in VM, NEW n \in Node, NEW t \in Node, NEW h \in Seq(Node),
             Moved(v, n, t, h)
      PROVE  Abstract!Next
  <2>1. /\ t \in runs'[v] /\ Story(v, t, Append(h, t))' /\ runs' = [runs EXCEPT ![v] = {t}]
        /\ n \in runs[v] /\ Story(v, n, h)
    BY <1>0, <1>5 DEF Moved
  <2>2. JourneyOf(v)' = Append(h, t)
    BY <2>1 DEF JourneyIsTold
  <2>3. JourneyOf(v) = h
    BY <2>1 DEF JourneyIsTold
  <2>4. KnownJourneys' = [KnownJourneys EXCEPT ![v] = Append(h, t)] /\ KnownJourneys[v] = h
    BY <1>3, <2>1, <2>2, <2>3 DEF KnownJourneys
  <2>5. h # <<>> /\ t # h[Len(h)]
    BY <1>5 DEF Moved
  <2>6. Abstract!Move(v, t)
    BY <2>4, <2>5 DEF Abstract!Move, KnownJourneys
  <2>. QED  BY <2>6 DEF Abstract!Next
<1>. QED  BY <1>2, <1>4, <1>5, StoriesNext

(* For careful users the executers implement the journeys: each machine    *)
(* runs on one host, each teleport is one move of it, and its metadata is  *)
(* the way it went, for any hosts, machines, commands and failures.        *)
THEOREM TeleportImplementsJourneys == Careful /\ Spec => ImplementsJourneys
<1>1. Init => Abstract!Init
  BY DEF Init, Abstract!Init, JourneyOf
<1>2. StoryInv /\ StoryInv' /\ JourneyIsTold /\ JourneyIsTold' /\ [Next]_vars
        => [Abstract!Next]_KnownJourneys
  BY StepIsJourneyStep
<1>. QED  BY <1>1, <1>2, StoryInitially, StoryInvInductive, JourneyTold, PTL
          DEF Spec, ImplementsJourneys, Abstract!Spec, KnownJourneys
===============================================================================
