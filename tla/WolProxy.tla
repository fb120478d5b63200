------------------------------- MODULE WolProxy -------------------------------
(***************************************************************************)
(* The UDP proxies of EmperorHooks/WolProxyServer.cpp, WolProxyClient.cpp  *)
(* and WolProxyBase.cpp, and the frame limit of PatchWol.cpp.  The games   *)
(* of a match believe they talk to each other; each packet of a client is  *)
(* wrapped, sent to the host on port 4005, and there delivered or sent on  *)
(* to the client it is for, which the host knows by its address and by the *)
(* port range its packets announce.                                        *)
(*                                                                         *)
(* An address stands for one run of the game, or of the launcher's network *)
(* test, on a machine: a new run has a new socket, hence a new port, on    *)
(* the same ip.  Time is in units of the 10 s between two keepalives.      *)
(***************************************************************************)
EXTENDS PointerVectors, SequencesExt

CONSTANTS
    Addr,        \* records with ip and port: the sockets of the clients
    HostIp,      \* 127.0.0.1, by which the host is known in the game
    NoIp,        \* the zero address
    Tester,      \* those of Addr that are runs of the network test
    Port,        \* ports the games use
    PortRange,   \* records with lo and hi: ranges a game may set
    Data,        \* payloads
    Speed,       \* game speeds the host may choose, in 1 .. 7
    FrameLimit,  \* frame limits a game may ask for
    Timeout,     \* silence after which a client is evicted
    Copies,      \* the copies the network may make of a packet
    MaxInFlight, \* bound: packets in the network
    MaxQueue     \* bound: packets waiting on one port

Host == [ip |-> HostIp, port |-> 4005]
Process == Addr \cup {Host}

ASSUME AddrAssumption == /\ \A a \in Addr : a.ip \notin {HostIp, NoIp}
                         /\ Tester \subseteq Addr
ASSUME PortAssumption == Port \subseteq Nat \ {0} /\ \A r \in PortRange : r.lo \in Nat /\ r.hi \in Nat
ASSUME BoundAssumption == /\ Timeout \in Nat /\ MaxInFlight \in Nat /\ MaxQueue \in Nat
                          /\ FrameLimit \subseteq Nat /\ Speed \subseteq 1 .. 7

VARIABLES
    clients,       \* the host's table
    hostSpeed,     \* the game speed in the host's options
    phase,         \* per address: "new", "up", "probing", "gone"
    portRange,     \* per address, of its process
    speedFromHost, \* per address: gameSpeedFromHost
    frameLimit,    \* per process
    inbox,         \* per process and port: receivedPacketsByPort
    net,           \* packets under way, each with the number of its copy
    claimed,       \* history: ports a process has had in its range
    silence,       \* history: time since the host last heard from an address
    announced,     \* history: range in the last packet heard, since in the table
    hostSaid       \* history: the speed in the last packet of the host heard

hostVars    == <<clients, hostSpeed>>
clientVars  == <<phase, portRange, speedFromHost, claimed>>
historyVars == <<silence, announced, hostSaid>>
vars == <<hostVars, clientVars, frameLimit, inbox, net, historyVars>>

-----------------------------------------------------------------------------
(* Packets. *)

\* The largest uint32_t; the largest integer of TLC stands for it.
UINT_MAX == 2147483647

NoRange == [lo |-> 0, hi |-> 0]

KeepAlive      == [type |-> "KeepAlive"]
ConnectionTest == [type |-> "ConnectionTest"]

GamePacket(src, ip, to, speed, range, d) ==
    [type |-> "GamePacket", srcPort |-> src, srcIp |-> ip, to |-> to,
     speed |-> speed, range |-> range, data |-> d]

Wire(src, dst, pkt) == [src |-> src, dst |-> dst, pkt |-> pkt]

\* The network after each of the packets W has been sent into N: it is lost,
\* or one or more copies of it are under way.
Transmit(N, W) ==
    \E K \in SUBSET (W \X Copies) :
        /\ Cardinality(N \cup K) <= MaxInFlight
        /\ net' = N \cup K

Waiting(p, q) == Len(inbox[p][q])

Arrival(ip, pkt) == [from |-> [ip |-> ip, port |-> pkt.srcPort], data |-> pkt.data]

Deposit(p, ip, pkt) ==
    /\ Waiting(p, pkt.to.port) < MaxQueue
    /\ inbox' = [inbox EXCEPT ![p][pkt.to.port] = Append(@, Arrival(ip, pkt))]

-----------------------------------------------------------------------------
(* The table of clients. *)

Entry(a) == [addr |-> a, range |-> NoRange, age |-> 0]
Known    == {clients[i].addr : i \in DOMAIN clients}
Index(a) == SelectInSeq(clients, LAMBDA e : e.addr = a)

\* Mutant of Touched: the time is set only when the entry is made.
TouchedOnce(a) == IF Index(a) # 0 THEN clients ELSE Append(clients, Entry(a))

\* Mutant of Touched: a client that has been silent is listed anew.
TouchedAnew(a) ==
    IF Index(a) # 0 /\ clients[Index(a)].age = 0 THEN clients ELSE Append(clients, Entry(a))

\* The table once a packet of a has arrived: its entry is found or made, and
\* its time set.
Touched(a) ==
    IF Index(a) # 0 THEN [clients EXCEPT ![Index(a)].age = 0] ELSE Append(clients, Entry(a))

\* Mutant of Announced: the range is set when the client is new, and never again.
AnnouncedOnce(table, a, r) ==
    [i \in DOMAIN table |->
        IF table[i].addr = a /\ table[i].range = NoRange
        THEN [table[i] EXCEPT !.range = r] ELSE table[i]]

\* And the range its game packet announces taken over.
Announced(table, a, r) ==
    [i \in DOMAIN table |-> IF table[i].addr = a THEN [table[i] EXCEPT !.range = r] ELSE table[i]]

Has(e, to) == e.addr.ip = to.ip /\ e.range.lo <= to.port /\ to.port <= e.range.hi

\* Mutant of Owner: the port is not looked at.
OwnerByIp(table, to) ==
    LET i == SelectInSeq(table, LAMBDA e : e.addr.ip = to.ip)
    IN  IF i = 0 THEN {} ELSE {table[i].addr}

\* The first client that has the address, as a set of one or none.
Owner(table, to) ==
    LET i == SelectInSeq(table, LAMBDA e : Has(e, to))
    IN  IF i = 0 THEN {} ELSE {table[i].addr}

\* A client's packet as the host sends it on.
Forwarded(pkt, a) == [pkt EXCEPT !.srcIp = a.ip]

-----------------------------------------------------------------------------
Init ==
    /\ clients = <<>>
    /\ hostSpeed \in Speed
    /\ phase = [a \in Addr |-> "new"]
    /\ portRange = [a \in Addr |-> NoRange]
    /\ speedFromHost = [a \in Addr |-> 6]
    /\ frameLimit = [p \in Process |-> 0]
    /\ inbox = [p \in Process |-> [q \in Port |-> <<>>]]
    /\ net = {}
    /\ claimed = [p \in Process |-> {}]
    /\ silence = [a \in Addr |-> Timeout + 1]
    /\ announced = [a \in Addr |-> NoRange]
    /\ hostSaid = [a \in Addr |-> 0]

(* Clients. *)

\* A game starts as a client, or ends; what it had in memory goes with it.
Start(a) ==
    /\ phase[a] = "new" /\ a \notin Tester
    /\ phase' = [phase EXCEPT ![a] = "up"]
    /\ UNCHANGED <<hostVars, portRange, speedFromHost, claimed, frameLimit, inbox, net, historyVars>>

Stop(a) ==
    /\ phase[a] = "up"
    /\ phase' = [phase EXCEPT ![a] = "gone"]
    /\ portRange' = [portRange EXCEPT ![a] = NoRange]
    /\ speedFromHost' = [speedFromHost EXCEPT ![a] = 6]
    /\ frameLimit' = [frameLimit EXCEPT ![a] = 0]
    /\ inbox' = [inbox EXCEPT ![a] = [q \in Port |-> <<>>]]
    /\ claimed' = [claimed EXCEPT ![a] = {}]
    /\ hostSaid' = [hostSaid EXCEPT ![a] = 0]
    /\ UNCHANGED <<hostVars, net, silence, announced>>

\* The launcher's network test: it sends its probes until one comes back or
\* it has sent them all.
SendProbe(a) ==
    /\ phase[a] \in {"new", "probing"} /\ a \in Tester
    /\ phase' = [phase EXCEPT ![a] = "probing"]
    /\ Transmit(net, {Wire(a, Host, ConnectionTest)})
    /\ UNCHANGED <<hostVars, portRange, speedFromHost, claimed, frameLimit, inbox, historyVars>>

RecvProbe(a, x) ==
    /\ phase[a] = "probing" /\ x[1].dst = a
    /\ net' = net \ {x}
    /\ phase' = IF x[1].pkt = ConnectionTest THEN [phase EXCEPT ![a] = "gone"] ELSE phase
    /\ UNCHANGED <<hostVars, portRange, speedFromHost, claimed, frameLimit, inbox, historyVars>>

EndProbes(a) ==
    /\ phase[a] = "probing"
    /\ phase' = [phase EXCEPT ![a] = "gone"]
    /\ UNCHANGED <<hostVars, portRange, speedFromHost, claimed, frameLimit, inbox, net, historyVars>>

\* CPortUtil_Set_Port_AnyRangePatched
SetPortRange(a, r) ==
    /\ phase[a] = "up"
    /\ portRange' = [portRange EXCEPT ![a] = r]
    /\ claimed' = [claimed EXCEPT ![a] = @ \cup {q \in Port : r.lo <= q /\ q <= r.hi}]
    /\ UNCHANGED <<hostVars, phase, speedFromHost, frameLimit, inbox, net, historyVars>>

ClientKeepAlive(a) ==
    /\ phase[a] = "up"
    /\ Transmit(net, {Wire(a, Host, KeepAlive)})
    /\ UNCHANGED <<hostVars, clientVars, frameLimit, inbox, historyVars>>

\* WolProxyClient::sendto_override: the header has no source address and the
\* default frame limit.
ClientSend(a, src, to, d) ==
    /\ phase[a] = "up"
    /\ Transmit(net, {Wire(a, Host, GamePacket(src, NoIp, to, UINT_MAX, portRange[a], d))})
    /\ UNCHANGED <<hostVars, clientVars, frameLimit, inbox, historyVars>>

\* WolProxyClient::run: only game packets matter; the game speed is taken
\* from each of them.
ClientRecv(a, x) ==
    /\ phase[a] = "up" /\ x[1].dst = a
    /\ net' = net \ {x}
    /\ LET pkt == x[1].pkt
       IN  IF pkt.type = "GamePacket"
           THEN /\ Deposit(a, pkt.srcIp, pkt)
                /\ speedFromHost' = [speedFromHost EXCEPT ![a] = pkt.speed]
                /\ hostSaid' = [hostSaid EXCEPT ![a] = IF pkt.srcIp = HostIp THEN pkt.speed ELSE @]
           ELSE UNCHANGED <<inbox, speedFromHost, hostSaid>>
    /\ UNCHANGED <<hostVars, phase, portRange, claimed, frameLimit, silence, announced>>

\* A packet for a process that is not there.
Vanish(x) ==
    /\ x[1].dst # Host /\ phase[x[1].dst] = "gone"
    /\ net' = net \ {x}
    /\ UNCHANGED <<hostVars, clientVars, frameLimit, inbox, historyVars>>

-----------------------------------------------------------------------------
(* Every process. *)

\* recvfrom_override takes the first packet off the queue of the port.
Read(p, q) ==
    /\ inbox[p][q] # <<>>
    /\ inbox' = [inbox EXCEPT ![p][q] = Tail(@)]
    /\ UNCHANGED <<hostVars, clientVars, frameLimit, net, historyVars>>

FrameLimits == <<8, 10, 12, 15, 20, 25, 30>>
MaxFrameLimit(s) == IF s \in DOMAIN FrameLimits THEN FrameLimits[s] ELSE UINT_MAX

Limited(v, s) == IF v > MaxFrameLimit(s) THEN MaxFrameLimit(s) ELSE v

\* CNetworkAdmin_setFrameLimitPatched
SetFrameLimit(p, v) ==
    /\ p \in {Host} \cup {a \in Addr : phase[a] = "up"}
    /\ frameLimit' = [frameLimit EXCEPT
                        ![p] = Limited(v, IF p = Host THEN hostSpeed ELSE speedFromHost[p])]
    /\ UNCHANGED <<hostVars, clientVars, inbox, net, historyVars>>

-----------------------------------------------------------------------------
(* The host. *)

SetSpeed(s) ==
    /\ hostSpeed' = s
    /\ UNCHANGED <<clients, clientVars, frameLimit, inbox, net, historyVars>>

\* What the host's handling of a packet of a does first.
Hear(a, table, r) ==
    /\ clients' = table
    /\ silence' = [silence EXCEPT ![a] = 0]
    /\ announced' = [announced EXCEPT ![a] = r]

HostRecvKeepAlive(x) ==
    LET a == x[1].src
    IN  /\ x[1].dst = Host /\ x[1].pkt = KeepAlive
        /\ Hear(a, Touched(a), announced[a])
        /\ net' = net \ {x}
        /\ UNCHANGED <<hostSpeed, clientVars, frameLimit, inbox, hostSaid>>

\* A test packet is sent back as it is.
HostRecvTest(x) ==
    LET a == x[1].src
    IN  /\ x[1].dst = Host /\ x[1].pkt = ConnectionTest
        /\ Hear(a, Touched(a), announced[a])
        /\ Transmit(net \ {x}, {Wire(Host, a, ConnectionTest)})
        /\ UNCHANGED <<hostSpeed, clientVars, frameLimit, inbox, hostSaid>>

HostRecvGame(x) ==
    LET a     == x[1].src
        pkt   == x[1].pkt
        table == Announced(Touched(a), a, pkt.range)
    IN  /\ x[1].dst = Host /\ pkt.type = "GamePacket"
        /\ Hear(a, table, pkt.range)
        /\ IF pkt.to.ip = HostIp
           THEN Deposit(Host, a.ip, pkt) /\ net' = net \ {x}
           ELSE /\ Transmit(net \ {x}, {Wire(Host, b, Forwarded(pkt, a)) : b \in Owner(table, pkt.to)})
                /\ UNCHANGED inbox
        /\ UNCHANGED <<hostSpeed, clientVars, frameLimit, hostSaid>>

HostRecv(x) == HostRecvKeepAlive(x) \/ HostRecvTest(x) \/ HostRecvGame(x)

\* WolProxyServer::sendto_override.  The port range of the host's own header
\* is left out: clients do not look at it.
HostSend(src, to, d) ==
    /\ Transmit(net, {Wire(Host, b, GamePacket(src, HostIp, to, hostSpeed, NoRange, d))
                        : b \in Owner(clients, to)})
    /\ UNCHANGED <<hostVars, clientVars, frameLimit, inbox, historyVars>>

Expired(e) == e.age > Timeout

\* Mutant of Survivors: to be sent a keepalive counts as having been heard.
SurvivorsRenewed(table) ==
    LET kept == Keep(table, {i \in DOMAIN table : ~Expired(table[i])})
    IN  [i \in DOMAIN kept |-> [kept[i] EXCEPT !.age = 0]]

Survivors(table) == Keep(table, {i \in DOMAIN table : ~Expired(table[i])})

\* One round of sendKeepaliveLoop: silent clients are erased, the others get a
\* keepalive.
HostKeepAlive ==
    LET kept == Survivors(clients)
    IN  /\ clients' = kept
        /\ Transmit(net, {Wire(Host, kept[i].addr, KeepAlive) : i \in DOMAIN kept})
        /\ announced' = [a \in Addr |-> IF \E i \in DOMAIN kept : kept[i].addr = a
                                        THEN announced[a] ELSE NoRange]
        /\ UNCHANGED <<hostSpeed, clientVars, frameLimit, inbox, silence, hostSaid>>

\* Time passes.  Ages beyond the timeout are alike.
Older(n) == IF n > Timeout THEN n ELSE n + 1

Tick ==
    /\ clients' = [i \in DOMAIN clients |-> [clients[i] EXCEPT !.age = Older(@)]]
    /\ silence' = [a \in Addr |-> Older(silence[a])]
    /\ UNCHANGED <<hostSpeed, clientVars, frameLimit, inbox, net, announced, hostSaid>>

-----------------------------------------------------------------------------
GameAddr == [ip: {p.ip : p \in Process}, port: Port]

\* Where a game may send: to the games of the other processes.
Peers(p) == [ip: {r.ip : r \in Process \ {p}}, port: Port]

Client(a) ==
    \/ Start(a) \/ Stop(a) \/ SendProbe(a) \/ EndProbes(a)
    \/ \E r \in PortRange : SetPortRange(a, r)
    \/ ClientKeepAlive(a)
    \/ \E src \in Port, to \in Peers(a), d \in Data : ClientSend(a, src, to, d)
    \/ \E x \in net : RecvProbe(a, x) \/ ClientRecv(a, x)

HostStep ==
    \/ \E s \in Speed : SetSpeed(s)
    \/ \E x \in net : HostRecv(x)
    \/ \E src \in Port, to \in Peers(Host), d \in Data : HostSend(src, to, d)
    \/ HostKeepAlive

Next ==
    \/ \E a \in Addr : Client(a)
    \/ HostStep
    \/ \E x \in net : Vanish(x)
    \/ \E p \in Process, q \in Port : Read(p, q)
    \/ \E p \in Process, v \in FrameLimit : SetFrameLimit(p, v)
    \/ Tick

Spec == Init /\ [][Next]_vars

\* Time passes, the host's two loops go round, and a packet that is neither
\* lost nor overtaken for ever arrives.
Fairness ==
    /\ WF_vars(Tick)
    /\ WF_vars(HostKeepAlive)
    /\ \A a \in Addr : WF_vars(\E x \in net : x[1].src = a /\ HostRecv(x))

FairSpec == Spec /\ Fairness

-----------------------------------------------------------------------------
(* Properties. *)

Ip       == {a.ip : a \in Addr}
AnyRange == PortRange \cup {NoRange}

Signal == [type: {"KeepAlive", "ConnectionTest"}]

GamePackets(ips, speeds, ranges) ==
    [type: {"GamePacket"}, srcPort: Port, srcIp: ips, to: GameAddr,
     speed: speeds, range: ranges, data: Data]

FromClient == [src: Addr, dst: {Host}, pkt: Signal \cup GamePackets({NoIp}, {UINT_MAX}, AnyRange)]

Own   == GamePackets({HostIp}, Speed, {NoRange})
Other == GamePackets(Ip, {UINT_MAX}, AnyRange)

FromHost == [src: {Host}, dst: Addr, pkt: Signal \cup Own \cup Other]

Wires == FromClient \cup FromHost

EntryType   == [addr: Addr, range: AnyRange, age: 0 .. Timeout + 1]
ArrivalType == [from: GameAddr, data: Data]

\* Every variable keeps to its values.  In particular each packet goes to or
\* from the host, one that a client gets names its sender's ip, and it has a speed
\* of the host only if the host itself sent it.
TypeOK ==
    /\ clients \in Seq(EntryType)
    /\ hostSpeed \in Speed
    /\ phase \in [Addr -> {"new", "up", "probing", "gone"}]
    /\ portRange \in [Addr -> AnyRange]
    /\ speedFromHost \in [Addr -> Speed \cup {6, UINT_MAX}]
    /\ frameLimit \in [Process -> Nat]
    /\ inbox \in [Process -> [Port -> Seq(ArrivalType)]]
    /\ net \subseteq Wires \X Copies
    /\ claimed \in [Process -> SUBSET Port]
    /\ silence \in [Addr -> 0 .. Timeout + 1]
    /\ announced \in [Addr -> AnyRange]
    /\ hostSaid \in [Addr -> Speed \cup {0}]

\* The host never lists an address twice, whatever is lost, repeated or
\* evicted in between: a second entry would take the packets with a range and
\* an age of its own.
OneEntryPerAddress ==
    \A i, j \in DOMAIN clients : clients[i].addr = clients[j].addr => i = j

In(q, r) == r.lo <= q /\ q <= r.hi

\* A port announced in the last packet the host heard from a client leads to
\* that client, unless another one with the same ip has announced it too.
RouteFindsOwner ==
    \A a \in Known, q \in Port :
        /\ In(q, announced[a])
        /\ \A b \in Known \ {a} : b.ip = a.ip => ~In(q, announced[b])
        => Owner(clients, [ip |-> a.ip, port |-> q]) = {a}

Ports(r) == {q \in Port : In(q, r)}

Rightful(w) ==
    w.pkt.type = "GamePacket" =>
        IF w.src = Host
        THEN /\ w.pkt.to.ip = w.dst.ip
             /\ phase[w.dst] # "gone" => w.pkt.to.port \in claimed[w.dst]
        ELSE phase[w.src] # "gone" => Ports(w.pkt.range) \subseteq claimed[w.src]

\* Until a client ends, the range it has set, the one the host has heard of it
\* and those in its packets under way hold no port that it has not claimed; and
\* what the host sends to it is for its ip and for a port it has claimed.
NothingUnclaimed ==
    /\ \A x \in net : Rightful(x[1])
    /\ \A a \in Addr : phase[a] # "gone" => /\ Ports(portRange[a]) \subseteq claimed[a]
                                           /\ Ports(announced[a]) \subseteq claimed[a]

\* A client is dropped from the table only if nothing of it has arrived for
\* longer than the timeout, however its packets and the rounds of the
\* keepalive loop fall.
EvictedOnlyWhenSilent ==
    [][\A a \in Known : a \in Known' \/ silence[a] > Timeout]_vars

\* PatchWol.cpp:18-19, "the frame limit is never set higher than the current
\* speed setting": the limit a client sets is at most that of the speed the
\* host last told it.
HostRules ==
    [][\A a \in Addr :
         frameLimit'[a] # frameLimit[a] /\ hostSaid[a] # 0 =>
            frameLimit'[a] <= MaxFrameLimit(hostSaid[a])]_vars

\* A game packet under way, as the games see it.
Logical(w) ==
    [from |-> [ip |-> IF w.dst = Host THEN w.src.ip ELSE w.pkt.srcIp, port |-> w.pkt.srcPort],
     to   |-> w.pkt.to,
     data |-> w.pkt.data]

\* The game packets under way, without their wrapping.
Flying == {Logical(x[1]) : x \in {y \in net : y[1].pkt.type = "GamePacket"}}

Promise == INSTANCE Datagrams WITH flying <- Flying

\* The proxies carry datagrams between the games: a packet that arrives was
\* sent to that ip and to a port the process has had, and its sender is the
\* one it names, although it was wrapped, sent to the host, looked up in a
\* table that may be out of date, and perhaps sent on.
CarriesDatagrams == Promise!Spec

\* The entry of a client that is gone goes too, and stays away, however late its
\* last packets arrive: until then a later run on the same machine that sets the
\* same ports gets nothing, as the old entry comes first.
GoneClientsLeave == \A a \in Addr : phase[a] = "gone" ~> [](a \notin Known)
=============================================================================
