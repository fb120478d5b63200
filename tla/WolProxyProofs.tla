---------------------------- MODULE WolProxyProofs ----------------------------
(***************************************************************************)
(* The proxies, for any number of clients, packets and copies of packets:  *)
(* the types, the host's table, and that they carry datagrams.             *)
(***************************************************************************)
EXTENDS WolProxy, PointerVectorProofs

USE AddrAssumption, PortAssumption, BoundAssumption

-----------------------------------------------------------------------------
(* The table. *)

\* The index that a search loop stops at.
LEMMA FirstIndex ==
    ASSUME NEW n \in Nat, NEW K \in SUBSET (1 .. n), K # {}
    PROVE  Min(K) \in K /\ \A k \in K : Min(K) <= k
<1> DEFINE c(k) == Cardinality(K \cap 1 .. k)
<1>1. /\ IsFiniteSet(K)
      /\ Cardinality(K) \in Nat
      /\ \A k \in K : c(k) \in 1 .. Cardinality(K)
      /\ \A i \in 1 .. Cardinality(K) : \E k \in K : c(k) = i
      /\ \A k, l \in K : c(k) = c(l) => k = l
  BY CountUpTo, NthPosition
<1>2. Cardinality(K) # 0
  BY <1>1, FS_EmptySet
<1>3. PICK m \in K : c(m) = 1
  BY <1>1, <1>2
<1>4. ASSUME NEW k \in K, k < m
      PROVE  FALSE
  <2>1. K \cap 1 .. k \in SUBSET (K \cap 1 .. m)
    BY <1>4
  <2>2. IsFiniteSet(K \cap 1 .. m)
    BY CountUpTo
  <2>3. c(k) <= c(m)
    BY <2>1, <2>2, FS_Subset
  <2>4. c(k) = 1
    BY <2>3, <1>1, <1>3
  <2> QED BY <2>4, <1>1, <1>3, <1>4
<1>5. \A k \in K : m <= k
  BY <1>4
<1> QED BY <1>3, <1>5 DEF Min

\* The search for an address finds its entry, if there is one.
LEMMA IndexProperties ==
    ASSUME clients \in Seq(EntryType), NEW a
    PROVE  \/ Index(a) = 0 /\ a \notin Known
           \/ /\ Index(a) # 0 /\ a \in Known
              /\ Index(a) \in DOMAIN clients
              /\ clients[Index(a)].addr = a
<1> DEFINE K == {i \in 1 .. Len(clients) : clients[i].addr = a}
<1>1. Len(clients) \in Nat /\ DOMAIN clients = 1 .. Len(clients) /\ K \in SUBSET (1 .. Len(clients))
  OBVIOUS
<1>2. Index(a) = IF K # {} THEN Min(K) ELSE 0
  BY DEF Index, SelectInSeq
<1>3. CASE K = {}
  BY <1>1, <1>2, <1>3 DEF Known
<1>4. CASE K # {}
  <2>1. Min(K) \in K
    BY <1>1, <1>4, FirstIndex
  <2> QED BY <2>1, <1>1, <1>2, <1>4 DEF Known
<1> QED BY <1>3, <1>4

\* The search for an owner finds an entry that has the address, if there is one.
LEMMA OwnerProperties ==
    ASSUME NEW table \in Seq(EntryType), NEW to
    PROVE  \/ /\ Owner(table, to) = {}
              /\ \A i \in DOMAIN table : ~Has(table[i], to)
           \/ \E i \in DOMAIN table :
                 Owner(table, to) = {table[i].addr} /\ Has(table[i], to)
<1> DEFINE K == {i \in 1 .. Len(table) : Has(table[i], to)}
           o == IF K # {} THEN Min(K) ELSE 0
<1>1. Len(table) \in Nat /\ DOMAIN table = 1 .. Len(table) /\ K \in SUBSET (1 .. Len(table))
  OBVIOUS
<1>2. Owner(table, to) = IF o = 0 THEN {} ELSE {table[o].addr}
  BY DEF Owner, SelectInSeq
<1>3. CASE K = {}
  BY <1>1, <1>2, <1>3
<1>4. CASE K # {}
  <2>1. Min(K) \in K
    BY <1>1, <1>4, FirstIndex
  <2>2. o \in DOMAIN table /\ o # 0 /\ Has(table[o], to)
    BY <2>1, <1>1, <1>4
  <2> QED BY <2>2, <1>2
<1> QED BY <1>3, <1>4

\* Owners are clients.
LEMMA OwnerType ==
    ASSUME NEW table \in Seq(EntryType), NEW to
    PROVE  Owner(table, to) \subseteq Addr
<1>1. \A i \in DOMAIN table : table[i] \in EntryType
  OBVIOUS
<1>2. \A i \in DOMAIN table : table[i].addr \in Addr
  BY <1>1 DEF EntryType
<1> QED BY <1>2, OwnerProperties

Single(table) == \A i, j \in DOMAIN table : table[i].addr = table[j].addr => i = j

\* What the table says is what the host has heard.
Table ==
    /\ Single(clients)
    /\ \A i \in DOMAIN clients : /\ clients[i].age = silence[clients[i].addr]
                                /\ clients[i].range = announced[clients[i].addr]
    /\ \A a \in Addr \ Known : announced[a] = NoRange

\* To set the age or the range of an entry leaves the rest of it alone.
LEMMA EntryProperties ==
    ASSUME NEW e \in EntryType
    PROVE  /\ \A n \in 0 .. Timeout + 1 :
                 /\ [e EXCEPT !.age = n] \in EntryType
                 /\ [e EXCEPT !.age = n].addr = e.addr
                 /\ [e EXCEPT !.age = n].age = n
                 /\ [e EXCEPT !.age = n].range = e.range
           /\ \A r \in AnyRange :
                 /\ [e EXCEPT !.range = r] \in EntryType
                 /\ [e EXCEPT !.range = r].addr = e.addr
                 /\ [e EXCEPT !.range = r].age = e.age
                 /\ [e EXCEPT !.range = r].range = r
BY DEF EntryType

\* A packet of a leaves one entry of a, heard from now, and the others as they are.
LEMMA TouchedProperties ==
    ASSUME clients \in Seq(EntryType), Table, NEW a \in Addr
    PROVE  /\ Touched(a) \in Seq(EntryType)
           /\ Single(Touched(a))
           /\ {Touched(a)[i].addr : i \in DOMAIN Touched(a)} = Known \cup {a}
           /\ \A i \in DOMAIN Touched(a) :
                 IF Touched(a)[i].addr = a
                 THEN Touched(a)[i].age = 0 /\ Touched(a)[i].range = announced[a]
                 ELSE \E j \in DOMAIN clients : Touched(a)[i] = clients[j]
<1> DEFINE n == Index(a)
           t == Touched(a)
<1>1. Len(clients) \in Nat /\ DOMAIN clients = 1 .. Len(clients) /\ 0 \in 0 .. Timeout + 1
  OBVIOUS
<1>2. CASE n # 0
  <2>1. n \in DOMAIN clients /\ clients[n].addr = a /\ a \in Known
    BY <1>2, IndexProperties
  <2>2. t = [clients EXCEPT ![n] = [clients[n] EXCEPT !.age = 0]]
    BY <1>2 DEF Touched
  <2>3. clients[n] \in EntryType
    BY <2>1
  <2>4. [clients[n] EXCEPT !.age = 0] \in EntryType
    BY <2>3, <1>1, EntryProperties
  <2>5. t \in Seq(EntryType) /\ DOMAIN t = DOMAIN clients
    BY <2>1, <2>2, <2>4
  <2>6. t[n].addr = a /\ t[n].age = 0 /\ t[n].range = clients[n].range
    BY <2>1, <2>2, <2>3, <1>1, EntryProperties
  <2>7. \A i \in DOMAIN clients : i # n => t[i] = clients[i]
    BY <2>2
  <2>8. \A i \in DOMAIN clients : t[i].addr = clients[i].addr
    BY <2>1, <2>6, <2>7
  <2>9. Single(t)
    BY <2>5, <2>8 DEF Single, Table
  <2>10. {t[i].addr : i \in DOMAIN t} = Known \cup {a}
    BY <2>1, <2>5, <2>8 DEF Known
  <2>11. t[n].range = announced[a]
    BY <2>1, <2>6 DEF Table
  <2>12. \A i \in DOMAIN clients : i # n => t[i].addr # a
    BY <2>1, <2>8 DEF Table, Single
  <2> HIDE DEF t, n
  <2> QED BY <2>5, <2>6, <2>7, <2>9, <2>10, <2>11, <2>12 DEF t
<1>3. CASE n = 0
  <2>1. a \notin Known
    BY <1>3, IndexProperties
  <2>2. t = Append(clients, Entry(a))
    BY <1>3 DEF Touched
  <2>3. Entry(a) \in EntryType /\ Entry(a).addr = a /\ Entry(a).age = 0 /\ Entry(a).range = NoRange
    BY <1>1 DEF Entry, EntryType, AnyRange
  <2>4. /\ t \in Seq(EntryType) /\ DOMAIN t = 1 .. (Len(clients) + 1)
        /\ \A i \in DOMAIN clients : t[i] = clients[i]
        /\ t[Len(clients) + 1] = Entry(a)
    BY <1>1, <2>2, <2>3
  <2>5. \A i \in DOMAIN clients : clients[i].addr # a
    BY <2>1 DEF Known
  <2>6. announced[a] = NoRange
    BY <2>1 DEF Table
  <2>7. \A i \in DOMAIN t : i \in DOMAIN clients \/ i = Len(clients) + 1
    BY <2>4, <1>1
  <2>8. Single(t)
    BY <2>3, <2>4, <2>5, <2>7 DEF Single, Table
  <2>9. \A i \in DOMAIN clients : i \in DOMAIN t
    BY <2>4, <1>1
  <2>10. Len(clients) + 1 \in DOMAIN t
    BY <2>4, <1>1
  <2>11. {t[i].addr : i \in DOMAIN t} = Known \cup {a}
    BY <2>3, <2>4, <2>7, <2>9, <2>10 DEF Known
  <2> HIDE DEF t, n
  <2> QED BY <2>3, <2>4, <2>5, <2>6, <2>7, <2>8, <2>11 DEF t
<1> QED BY <1>2, <1>3

\* A range taken over changes the ranges of one address.
LEMMA AnnouncedProperties ==
    ASSUME NEW table \in Seq(EntryType), NEW a, NEW r \in AnyRange
    PROVE  /\ Announced(table, a, r) \in Seq(EntryType)
           /\ DOMAIN Announced(table, a, r) = DOMAIN table
           /\ \A i \in DOMAIN table :
                 /\ Announced(table, a, r)[i].addr = table[i].addr
                 /\ Announced(table, a, r)[i].age = table[i].age
                 /\ Announced(table, a, r)[i].range = IF table[i].addr = a THEN r ELSE table[i].range
<1>1. DOMAIN table = 1 .. Len(table) /\ Len(table) \in Nat /\ \A i \in DOMAIN table : table[i] \in EntryType
  OBVIOUS
<1>2. \A i \in DOMAIN table : [table[i] EXCEPT !.range = r] \in EntryType
  BY <1>1, EntryProperties
<1>3. Announced(table, a, r) \in [1 .. Len(table) -> EntryType]
  BY <1>1, <1>2 DEF Announced
<1>4. Announced(table, a, r) \in Seq(EntryType)
  BY <1>1, <1>3
<1>5. \A i \in DOMAIN table :
         /\ [table[i] EXCEPT !.range = r].addr = table[i].addr
         /\ [table[i] EXCEPT !.range = r].age = table[i].age
         /\ [table[i] EXCEPT !.range = r].range = r
  BY <1>1, EntryProperties
<1> QED BY <1>1, <1>3, <1>4, <1>5 DEF Announced

\* An eviction keeps the entries that have not expired, and adds none.
LEMMA SurvivorsProperties ==
    ASSUME NEW table \in Seq(EntryType), Single(table)
    PROVE  /\ Survivors(table) \in Seq(EntryType)
           /\ Single(Survivors(table))
           /\ \A i \in DOMAIN Survivors(table) : \E j \in DOMAIN table : Survivors(table)[i] = table[j]
           /\ \A j \in DOMAIN table :
                 ~Expired(table[j]) => \E i \in DOMAIN Survivors(table) : Survivors(table)[i] = table[j]
<1> DEFINE K == {i \in DOMAIN table : ~Expired(table[i])}
           t == Survivors(table)
<1>1. t = Keep(table, K)
  BY DEF Survivors
<1>2. /\ t \in Seq(EntryType)
      /\ Range(t) = {table[k] : k \in K}
      /\ \A x : Once(table, x) => Once(t, x)
  BY <1>1, KeepProperties
<1>3. \A i \in DOMAIN t : \E j \in DOMAIN table : t[i] = table[j]
  BY <1>2 DEF Range
<1>4. \A j \in DOMAIN table : Once(table, table[j])
  BY DEF Single, Once
<1>5. Single(t)
  BY <1>2, <1>3, <1>4 DEF Single, Once
<1>6. ASSUME NEW j \in DOMAIN table, ~Expired(table[j])
      PROVE  \E i \in DOMAIN t : t[i] = table[j]
  <2>1. table[j] \in Range(t)
    BY <1>2, <1>6
  <2> QED BY <2>1 DEF Range
<1> QED BY <1>2, <1>3, <1>5, <1>6

-----------------------------------------------------------------------------
(* Packets. *)

\* No client is the host, or has its ip.
LEMMA HostApart ==
    ASSUME NEW a \in Addr
    PROVE  /\ a # Host /\ a.ip # HostIp /\ a.ip # NoIp
           /\ Host \in Process /\ a \in Process
           /\ a.ip \in Ip
BY DEF Host, Process, Ip

\* Keepalives and probes are packets.
LEMMA SignalTypes ==
    ASSUME NEW a \in Addr, NEW pkt \in {KeepAlive, ConnectionTest}
    PROVE  Wire(a, Host, pkt) \in Wires /\ Wire(Host, a, pkt) \in Wires
<1>1. pkt \in Signal
  BY DEF Signal, KeepAlive, ConnectionTest
<1> QED BY <1>1 DEF Wires, FromClient, FromHost, Wire

\* What a client wraps is a packet to the host.
LEMMA ClientPacketType ==
    ASSUME NEW a \in Addr, NEW src \in Port, NEW to \in GameAddr, NEW d \in Data, NEW r \in AnyRange
    PROVE  Wire(a, Host, GamePacket(src, NoIp, to, UINT_MAX, r, d)) \in Wires
<1>1. GamePacket(src, NoIp, to, UINT_MAX, r, d) \in GamePackets({NoIp}, {UINT_MAX}, AnyRange)
  BY DEF GamePacket, GamePackets
<1> QED BY <1>1 DEF Wires, FromClient, Wire

\* What the host's game sends is a packet to a client.
LEMMA HostPacketType ==
    ASSUME NEW b \in Addr, NEW src \in Port, NEW to \in GameAddr, NEW d \in Data, NEW s \in Speed
    PROVE  Wire(Host, b, GamePacket(src, HostIp, to, s, NoRange, d)) \in Wires
<1>1. GamePacket(src, HostIp, to, s, NoRange, d) \in Own
  BY DEF GamePacket, GamePackets, Own
<1> QED BY <1>1 DEF Wires, FromHost, Wire

\* A packet sent on names the ip it came from, and is otherwise as it was.
LEMMA ForwardedType ==
    ASSUME NEW pkt \in GamePackets({NoIp}, {UINT_MAX}, AnyRange), NEW a \in Addr, NEW b \in Addr
    PROVE  /\ Forwarded(pkt, a) \in Other
           /\ Wire(Host, b, Forwarded(pkt, a)) \in Wires
           /\ Forwarded(pkt, a).srcIp = a.ip
           /\ Forwarded(pkt, a).srcPort = pkt.srcPort
           /\ Forwarded(pkt, a).to = pkt.to
           /\ Forwarded(pkt, a).data = pkt.data
           /\ Forwarded(pkt, a).type = "GamePacket"
<1>1. a.ip \in Ip
  BY HostApart
<1>2. /\ Forwarded(pkt, a) \in Other
      /\ Forwarded(pkt, a).srcIp = a.ip
      /\ Forwarded(pkt, a).srcPort = pkt.srcPort
      /\ Forwarded(pkt, a).to = pkt.to
      /\ Forwarded(pkt, a).data = pkt.data
      /\ Forwarded(pkt, a).type = "GamePacket"
  BY <1>1 DEF Forwarded, GamePackets, Other
<1> QED BY <1>2 DEF Wires, FromHost, Wire

\* What a packet on the way to the host, or to a client, is.
LEMMA ToHost ==
    ASSUME NEW x \in Wires \X Copies, x[1].dst = Host
    PROVE  /\ x[1].src \in Addr
           /\ x[1].pkt.type = "GamePacket" =>
                 x[1].pkt \in GamePackets({NoIp}, {UINT_MAX}, AnyRange)
<1>1. x[1] \in Wires
  OBVIOUS
<1>2. x[1] \notin FromHost
  BY HostApart DEF FromHost
<1>3. x[1] \in FromClient
  BY <1>1, <1>2 DEF Wires
<1>4. x[1].src \in Addr /\ x[1].pkt \in Signal \cup GamePackets({NoIp}, {UINT_MAX}, AnyRange)
  BY <1>3 DEF FromClient
<1>5. x[1].pkt \in Signal => x[1].pkt.type # "GamePacket"
  BY DEF Signal
<1> QED BY <1>4, <1>5

\* A game packet on the way to a client is the host's own, or forwarded.
LEMMA ToClient ==
    ASSUME NEW x \in Wires \X Copies, NEW a \in Addr, x[1].dst = a
    PROVE  x[1].pkt.type = "GamePacket" => x[1].pkt \in Own \cup Other
<1>1. x[1] \in Wires
  OBVIOUS
<1>2. x[1] \notin FromClient
  BY HostApart DEF FromClient
<1>3. x[1] \in FromHost
  BY <1>1, <1>2 DEF Wires
<1>4. x[1].pkt \in Signal \cup Own \cup Other
  BY <1>3 DEF FromHost
<1>5. x[1].pkt \in Signal => x[1].pkt.type # "GamePacket"
  BY DEF Signal
<1> QED BY <1>4, <1>5

\* What is under way are packets.
LEMMA TransmitType ==
    ASSUME NEW N, N \subseteq Wires \X Copies, NEW W, W \subseteq Wires, Transmit(N, W)
    PROVE  net' \subseteq Wires \X Copies
BY DEF Transmit

\* What lands in a queue.
LEMMA DepositType ==
    ASSUME inbox \in [Process -> [Port -> Seq(ArrivalType)]],
           NEW p \in Process, NEW ip, ip \in Ip \cup {HostIp},
           NEW pkt, pkt.srcPort \in Port, pkt.to \in GameAddr, pkt.data \in Data,
           Deposit(p, ip, pkt)
    PROVE  inbox' \in [Process -> [Port -> Seq(ArrivalType)]]
<1>1. ip \in {q.ip : q \in Process}
  <2>1. CASE ip = HostIp
    <3>1. Host \in Process /\ Host.ip = HostIp
      BY DEF Process, Host
    <3> QED BY <2>1, <3>1
  <2>2. CASE ip \in Ip
    <3>1. PICK a \in Addr : ip = a.ip
      BY <2>2 DEF Ip
    <3> QED BY <3>1, HostApart
  <2> QED BY <2>1, <2>2
<1>2. [ip |-> ip, port |-> pkt.srcPort] \in GameAddr
  BY <1>1 DEF GameAddr
<1>3. Arrival(ip, pkt) \in ArrivalType
  BY <1>2 DEF Arrival, ArrivalType
<1> DEFINE q == pkt.to.port
<1>4. q \in Port
  BY DEF GameAddr
<1>5. inbox[p] \in [Port -> Seq(ArrivalType)] /\ inbox[p][q] \in Seq(ArrivalType)
  BY <1>4
<1>6. Append(inbox[p][q], Arrival(ip, pkt)) \in Seq(ArrivalType)
  BY <1>3, <1>5
<1>7. inbox' = [inbox EXCEPT ![p] = [inbox[p] EXCEPT ![q] = Append(inbox[p][q], Arrival(ip, pkt))]]
  BY DEF Deposit
<1>8. [inbox[p] EXCEPT ![q] = Append(inbox[p][q], Arrival(ip, pkt))] \in [Port -> Seq(ArrivalType)]
  BY <1>4, <1>5, <1>6
<1> QED BY <1>7, <1>8

-----------------------------------------------------------------------------
(* The types of the state. *)

\* A range that was never set is a range.
LEMMA AnyRangeHasNone == NoRange \in AnyRange
BY DEF AnyRange

\* A limit stays a number.
LEMMA LimitType ==
    ASSUME NEW v \in Nat, NEW s
    PROVE  Limited(v, s) \in Nat
<1>1. MaxFrameLimit(s) \in Nat
  BY DEF MaxFrameLimit, FrameLimits, UINT_MAX
<1> QED BY <1>1 DEF Limited

\* Ages stay within one unit of the timeout.
LEMMA OlderType ==
    ASSUME NEW n \in 0 .. Timeout + 1
    PROVE  Older(n) \in 0 .. Timeout + 1
BY DEF Older

\* The steps of a client keep the types.
LEMMA ClientType ==
    ASSUME TypeOK, NEW a \in Addr, Client(a)
    PROVE  TypeOK'
<1> USE DEF TypeOK, hostVars, clientVars, historyVars
<1>0. a \in Process /\ Host \in Process /\ a # Host
  BY HostApart
<1>1. CASE Start(a)
  BY <1>1 DEF Start
<1>2. CASE Stop(a)
  <2>1. [q \in Port |-> <<>>] \in [Port -> Seq(ArrivalType)]
    OBVIOUS
  <2> QED BY <1>2, <1>0, <2>1, AnyRangeHasNone DEF Stop
<1>3. CASE SendProbe(a)
  <2>1. net' \subseteq Wires \X Copies
    BY <1>3, SignalTypes, TransmitType DEF SendProbe
  <2> QED BY <1>3, <2>1 DEF SendProbe
<1>4. CASE EndProbes(a)
  BY <1>4 DEF EndProbes
<1>5. ASSUME NEW r \in PortRange, SetPortRange(a, r)
      PROVE  TypeOK'
  <2>1. r \in AnyRange
    BY DEF AnyRange
  <2> QED BY <1>5, <1>0, <2>1 DEF SetPortRange
<1>6. CASE ClientKeepAlive(a)
  <2>1. net' \subseteq Wires \X Copies
    BY <1>6, SignalTypes, TransmitType DEF ClientKeepAlive
  <2> QED BY <1>6, <2>1 DEF ClientKeepAlive
<1>7. ASSUME NEW src \in Port, NEW to \in Peers(a), NEW d \in Data, ClientSend(a, src, to, d)
      PROVE  TypeOK'
  <2>1. to \in GameAddr
    BY DEF Peers, GameAddr
  <2>2. Wire(a, Host, GamePacket(src, NoIp, to, UINT_MAX, portRange[a], d)) \in Wires
    BY <2>1, ClientPacketType
  <2>3. net' \subseteq Wires \X Copies
    BY <1>7, <2>2, TransmitType DEF ClientSend
  <2> QED BY <1>7, <2>3 DEF ClientSend
<1>8. ASSUME NEW x \in net, RecvProbe(a, x)
      PROVE  TypeOK'
  BY <1>8 DEF RecvProbe
<1>9. ASSUME NEW x \in net, ClientRecv(a, x)
      PROVE  TypeOK'
  <2> DEFINE pkt == x[1].pkt
  <2>1. x \in Wires \X Copies /\ x[1].dst = a
    BY <1>9 DEF ClientRecv
  <2>2. CASE pkt.type = "GamePacket"
    <3>1. pkt \in Own \cup Other
      BY <2>1, <2>2, ToClient
    <3>2. /\ pkt.srcPort \in Port /\ pkt.to \in GameAddr /\ pkt.data \in Data
          /\ pkt.srcIp \in Ip \cup {HostIp} /\ pkt.speed \in Speed \cup {6, UINT_MAX}
      BY <3>1 DEF Own, Other, GamePackets
    <3>3. inbox' \in [Process -> [Port -> Seq(ArrivalType)]]
      BY <1>9, <2>2, <3>2, <1>0, DepositType DEF ClientRecv
    <3>4. pkt.srcIp = HostIp => pkt.speed \in Speed
      <4>1. pkt \in Other => pkt.srcIp \in Ip
        BY DEF Other, GamePackets
      <4>2. HostIp \notin Ip
        BY HostApart DEF Ip
      <4>3. pkt \in Own => pkt.speed \in Speed
        BY DEF Own, GamePackets
      <4> QED BY <3>1, <4>1, <4>2, <4>3
    <3>5. hostSaid' \in [Addr -> Speed \cup {0}]
      <4> DEFINE v == IF pkt.srcIp = HostIp THEN pkt.speed ELSE hostSaid[a]
      <4>1. v \in Speed \cup {0}
        BY <3>4
      <4>2. hostSaid' = [hostSaid EXCEPT ![a] = v]
        BY <1>9, <2>2 DEF ClientRecv
      <4> QED BY <4>1, <4>2
    <3>6. speedFromHost' \in [Addr -> Speed \cup {6, UINT_MAX}]
      BY <1>9, <2>2, <3>2 DEF ClientRecv
    <3> QED BY <1>9, <3>3, <3>5, <3>6 DEF ClientRecv
  <2>3. CASE pkt.type # "GamePacket"
    BY <1>9, <2>3 DEF ClientRecv
  <2> QED BY <2>2, <2>3
<1> QED BY <1>1, <1>2, <1>3, <1>4, <1>5, <1>6, <1>7, <1>8, <1>9 DEF Client

\* The parts of TypeOK that the handling of a packet by the host changes first.
LEMMA HearType ==
    ASSUME TypeOK, NEW a \in Addr, NEW table \in Seq(EntryType), NEW r \in AnyRange, Hear(a, table, r)
    PROVE  /\ clients' \in Seq(EntryType)
           /\ silence' \in [Addr -> 0 .. Timeout + 1]
           /\ announced' \in [Addr -> AnyRange]
<1>1. 0 \in 0 .. Timeout + 1
  OBVIOUS
<1> QED BY <1>1 DEF TypeOK, Hear

\* What the host does with a packet keeps the types.
LEMMA HostRecvType ==
    ASSUME TypeOK, Table, NEW x \in net, HostRecv(x)
    PROVE  TypeOK'
<1> USE DEF TypeOK, hostVars, clientVars, historyVars
<1> DEFINE a == x[1].src
           pkt == x[1].pkt
<1>1. x[1].dst = Host
  BY DEF HostRecv, HostRecvKeepAlive, HostRecvTest, HostRecvGame
<1>2. a \in Addr /\ Touched(a) \in Seq(EntryType) /\ announced[a] \in AnyRange
  BY <1>1, ToHost, TouchedProperties
<1>3. net \ {x} \subseteq Wires \X Copies
  OBVIOUS
<1>4. CASE HostRecvKeepAlive(x)
  <2>1. Hear(a, Touched(a), announced[a])
    BY <1>4 DEF HostRecvKeepAlive
  <2> QED BY <1>2, <1>3, <1>4, <2>1, HearType DEF HostRecvKeepAlive
<1>5. CASE HostRecvTest(x)
  <2>1. Hear(a, Touched(a), announced[a])
    BY <1>5 DEF HostRecvTest
  <2>2. net' \subseteq Wires \X Copies
    <3> DEFINE W == {Wire(Host, a, ConnectionTest)}
    <3>1. W \subseteq Wires
      BY <1>2, SignalTypes
    <3>2. Transmit(net \ {x}, W)
      BY <1>5 DEF HostRecvTest
    <3> HIDE DEF W
    <3> QED BY <1>3, <3>1, <3>2, TransmitType
  <2> QED BY <1>2, <1>5, <2>1, <2>2, HearType DEF HostRecvTest
<1>6. CASE HostRecvGame(x)
  <2> DEFINE table == Announced(Touched(a), a, pkt.range)
  <2>1. pkt \in GamePackets({NoIp}, {UINT_MAX}, AnyRange)
    BY <1>1, <1>6, ToHost DEF HostRecvGame
  <2>2. /\ pkt.srcPort \in Port /\ pkt.to \in GameAddr /\ pkt.data \in Data
        /\ pkt.range \in AnyRange
    BY <2>1 DEF GamePackets
  <2>3. table \in Seq(EntryType)
    BY <1>2, <2>2, AnnouncedProperties
  <2>4. /\ clients' \in Seq(EntryType)
        /\ silence' \in [Addr -> 0 .. Timeout + 1]
        /\ announced' \in [Addr -> AnyRange]
    BY <1>2, <1>6, <2>2, <2>3, HearType DEF HostRecvGame
  <2>5. CASE pkt.to.ip = HostIp
    <3>1. a.ip \in Ip /\ Host \in Process
      BY <1>2, HostApart
    <3>2. inbox' \in [Process -> [Port -> Seq(ArrivalType)]]
      BY <1>6, <2>2, <2>5, <3>1, DepositType DEF HostRecvGame
    <3> QED BY <1>3, <1>6, <2>4, <2>5, <3>2 DEF HostRecvGame
  <2>6. CASE pkt.to.ip # HostIp
    <3> DEFINE W == {Wire(Host, b, Forwarded(pkt, a)) : b \in Owner(table, pkt.to)}
    <3>1. Owner(table, pkt.to) \subseteq Addr
      BY <2>3, OwnerType
    <3>2. W \subseteq Wires
      <4>1. \A b \in Owner(table, pkt.to) : Wire(Host, b, Forwarded(pkt, a)) \in Wires
        BY <1>2, <2>1, <3>1, ForwardedType
      <4> QED BY <4>1
    <3>3. Transmit(net \ {x}, W) /\ UNCHANGED inbox
      BY <1>6, <2>6 DEF HostRecvGame
    <3>4. net' \subseteq Wires \X Copies
      BY <1>3, <3>2, <3>3, TransmitType
    <3> QED BY <1>6, <2>4, <3>3, <3>4 DEF HostRecvGame
  <2> QED BY <2>5, <2>6
<1> QED BY <1>4, <1>5, <1>6 DEF HostRecv

\* The steps of the host keep the types.
LEMMA HostType ==
    ASSUME TypeOK, Table, HostStep
    PROVE  TypeOK'
<1> USE DEF TypeOK, hostVars, clientVars, historyVars
<1>1. ASSUME NEW s \in Speed, SetSpeed(s)
      PROVE  TypeOK'
  BY <1>1 DEF SetSpeed
<1>2. ASSUME NEW x \in net, HostRecv(x)
      PROVE  TypeOK'
  BY <1>2, HostRecvType
<1>3. ASSUME NEW src \in Port, NEW to \in Peers(Host), NEW d \in Data, HostSend(src, to, d)
      PROVE  TypeOK'
  <2> DEFINE W == {Wire(Host, b, GamePacket(src, HostIp, to, hostSpeed, NoRange, d)) : b \in Owner(clients, to)}
  <2>1. to \in GameAddr
    BY DEF Peers, GameAddr
  <2>2. \A b \in Owner(clients, to) : Wire(Host, b, GamePacket(src, HostIp, to, hostSpeed, NoRange, d)) \in Wires
    BY <2>1, OwnerType, HostPacketType
  <2>3. W \subseteq Wires
    BY <2>2
  <2>4. Transmit(net, W)
    BY <1>3 DEF HostSend
  <2>5. net' \subseteq Wires \X Copies
    BY <2>3, <2>4, TransmitType
  <2> QED BY <1>3, <2>5 DEF HostSend
<1>4. CASE HostKeepAlive
  <2> DEFINE kept == Survivors(clients)
             W == {Wire(Host, kept[i].addr, KeepAlive) : i \in DOMAIN kept}
  <2>1. kept \in Seq(EntryType)
    BY SurvivorsProperties DEF Table
  <2>2. \A i \in DOMAIN kept : kept[i] \in EntryType
    BY <2>1
  <2>3. \A i \in DOMAIN kept : kept[i].addr \in Addr
    BY <2>2 DEF EntryType
  <2>4. W \subseteq Wires
    BY <2>3, SignalTypes
  <2>5. clients' = kept /\ Transmit(net, W)
    BY <1>4 DEF HostKeepAlive
  <2>6. net' \subseteq Wires \X Copies
    BY <2>4, <2>5, TransmitType
  <2>7. announced' \in [Addr -> AnyRange]
    BY <1>4, AnyRangeHasNone DEF HostKeepAlive
  <2> QED BY <1>4, <2>1, <2>5, <2>6, <2>7 DEF HostKeepAlive
<1> QED BY <1>1, <1>2, <1>3, <1>4 DEF HostStep

\* A function on 1 .. n is a sequence.
LEMMA VectorType ==
    ASSUME NEW S, NEW n \in Nat, NEW f \in [1 .. n -> S]
    PROVE  f \in Seq(S)
OBVIOUS

\* Time keeps the types.
LEMMA TickType ==
    ASSUME TypeOK, Tick
    PROVE  TypeOK'
<1> USE DEF TypeOK, hostVars, clientVars, historyVars
<1>1. clients' \in Seq(EntryType)
  <2>1. /\ Len(clients) \in Nat /\ DOMAIN clients = 1 .. Len(clients)
        /\ \A i \in DOMAIN clients : clients[i] \in EntryType
    OBVIOUS
  <2>2. \A i \in DOMAIN clients : clients[i].age \in 0 .. Timeout + 1
    BY <2>1 DEF EntryType
  <2>3. \A i \in DOMAIN clients : [clients[i] EXCEPT !.age = Older(clients[i].age)] \in EntryType
    BY <2>1, <2>2, OlderType, EntryProperties
  <2>4. clients' = [i \in 1 .. Len(clients) |-> [clients[i] EXCEPT !.age = Older(clients[i].age)]]
    BY <2>1 DEF Tick
  <2>5. clients' \in [1 .. Len(clients) -> EntryType]
    BY <2>1, <2>3, <2>4
  <2> QED BY <2>1, <2>5, VectorType
<1>2. silence' \in [Addr -> 0 .. Timeout + 1]
  BY OlderType DEF Tick
<1> QED BY <1>1, <1>2 DEF Tick

\* Every step keeps the types.
LEMMA TypeStep ==
    ASSUME TypeOK, Table, [Next]_vars
    PROVE  TypeOK'
<1>1. ASSUME NEW a \in Addr, Client(a)
      PROVE  TypeOK'
  BY <1>1, ClientType
<1>2. CASE HostStep
  BY <1>2, HostType
<1>3. ASSUME NEW x \in net, Vanish(x)
      PROVE  TypeOK'
  BY <1>3 DEF Vanish, TypeOK, hostVars, clientVars, historyVars
<1>4. ASSUME NEW p \in Process, NEW q \in Port, Read(p, q)
      PROVE  TypeOK'
  <2>1. inbox[p] \in [Port -> Seq(ArrivalType)] /\ inbox[p][q] \in Seq(ArrivalType)
    BY DEF TypeOK
  <2>2. Tail(inbox[p][q]) \in Seq(ArrivalType)
    BY <1>4, <2>1 DEF Read
  <2>3. [inbox[p] EXCEPT ![q] = Tail(inbox[p][q])] \in [Port -> Seq(ArrivalType)]
    BY <2>1, <2>2
  <2>4. inbox' = [inbox EXCEPT ![p] = [inbox[p] EXCEPT ![q] = Tail(inbox[p][q])]]
    BY <1>4 DEF Read
  <2>5. inbox' \in [Process -> [Port -> Seq(ArrivalType)]]
    BY <2>3, <2>4 DEF TypeOK
  <2> QED BY <1>4, <2>5 DEF Read, TypeOK, hostVars, clientVars, historyVars
<1>5. ASSUME NEW p \in Process, NEW v \in FrameLimit, SetFrameLimit(p, v)
      PROVE  TypeOK'
  <2> DEFINE s == IF p = Host THEN hostSpeed ELSE speedFromHost[p]
  <2>1. Limited(v, s) \in Nat
    BY LimitType
  <2>2. frameLimit' = [frameLimit EXCEPT ![p] = Limited(v, s)]
    BY <1>5 DEF SetFrameLimit
  <2>3. frameLimit' \in [Process -> Nat]
    BY <2>1, <2>2 DEF TypeOK
  <2> QED BY <1>5, <2>3 DEF SetFrameLimit, TypeOK, hostVars, clientVars, historyVars
<1>6. CASE Tick
  BY <1>6, TickType
<1>7. CASE UNCHANGED vars
  BY <1>7 DEF TypeOK, vars, hostVars, clientVars, historyVars
<1> QED BY <1>1, <1>2, <1>3, <1>4, <1>5, <1>6, <1>7 DEF Next

-----------------------------------------------------------------------------
(* The table and what the host has heard. *)

\* A packet of a, the range r in it if it has one.
LEMMA HearTable ==
    ASSUME TypeOK, Table, NEW a \in Addr, NEW r \in AnyRange, NEW table \in Seq(EntryType),
           DOMAIN table = DOMAIN Touched(a),
           \A i \in DOMAIN table :
              /\ table[i].addr = Touched(a)[i].addr
              /\ table[i].age = Touched(a)[i].age
              /\ table[i].range = IF table[i].addr = a THEN r ELSE Touched(a)[i].range,
           Hear(a, table, r)
    PROVE  Table' /\ Known' = Known \cup {a}
<1> DEFINE t == Touched(a)
<1>1. /\ Single(t)
      /\ {t[i].addr : i \in DOMAIN t} = Known \cup {a}
      /\ \A i \in DOMAIN t :
            IF t[i].addr = a
            THEN t[i].age = 0 /\ t[i].range = announced[a]
            ELSE \E j \in DOMAIN clients : t[i] = clients[j]
  BY TouchedProperties DEF TypeOK
<1>2. /\ clients' = table
      /\ silence' = [silence EXCEPT ![a] = 0]
      /\ announced' = [announced EXCEPT ![a] = r]
  BY DEF Hear
<1>3. \A b \in Addr \ {a} : silence'[b] = silence[b] /\ announced'[b] = announced[b]
  BY <1>2 DEF TypeOK
<1>4. silence'[a] = 0 /\ announced'[a] = r
  BY <1>2 DEF TypeOK
<1> HIDE DEF t
<1>5. \A i \in DOMAIN table : table[i].addr \in Addr
  <2>1. \A i \in DOMAIN table : table[i] \in EntryType
    OBVIOUS
  <2> QED BY <2>1 DEF EntryType
<1>6. \A i \in DOMAIN table : /\ table[i].age = silence'[table[i].addr]
                              /\ table[i].range = announced'[table[i].addr]
  <2> TAKE i \in DOMAIN table
  <2>1. CASE table[i].addr = a
    BY <1>1, <1>4, <2>1 DEF t
  <2>2. CASE table[i].addr # a
    <3>1. PICK j \in DOMAIN clients : t[i] = clients[j]
      BY <1>1, <2>2 DEF t
    <3>2. clients[j].age = silence[clients[j].addr] /\ clients[j].range = announced[clients[j].addr]
      BY DEF Table
    <3>3. table[i].addr = clients[j].addr /\ table[i].age = clients[j].age /\ table[i].range = clients[j].range
      BY <3>1, <2>2 DEF t
    <3> QED BY <1>3, <1>5, <2>2, <3>2, <3>3
  <2> QED BY <2>1, <2>2
<1>7. Single(table)
  BY <1>1 DEF Single, t
<1>8. {table[i].addr : i \in DOMAIN table} = Known \cup {a}
  BY <1>1 DEF t
<1>9. Known' = Known \cup {a}
  BY <1>2, <1>8 DEF Known
<1>10. \A b \in Addr \ (Known \cup {a}) : announced'[b] = NoRange
  BY <1>3 DEF Table
<1> QED BY <1>2, <1>6, <1>7, <1>9, <1>10 DEF Table, Single

\* After a packet, the table says what the host has heard; nobody is dropped.
LEMMA HostRecvTable ==
    ASSUME TypeOK, Table, NEW x \in net, HostRecv(x)
    PROVE  Table' /\ Known' = Known \cup {x[1].src}
<1> DEFINE a == x[1].src
<1>1. x \in Wires \X Copies /\ x[1].dst = Host
  BY DEF TypeOK, HostRecv, HostRecvKeepAlive, HostRecvTest, HostRecvGame
<1>2. a \in Addr /\ announced[a] \in AnyRange
  BY <1>1, ToHost DEF TypeOK
<1>3. /\ Touched(a) \in Seq(EntryType)
      /\ \A i \in DOMAIN Touched(a) : Touched(a)[i].addr = a => Touched(a)[i].range = announced[a]
  BY <1>2, TouchedProperties DEF TypeOK
<1>4. CASE HostRecvKeepAlive(x) \/ HostRecvTest(x)
  <2>1. Hear(a, Touched(a), announced[a])
    BY <1>4 DEF HostRecvKeepAlive, HostRecvTest
  <2> QED BY <1>2, <1>3, <2>1, HearTable
<1>5. CASE HostRecvGame(x)
  <2> DEFINE r == x[1].pkt.range
             table == Announced(Touched(a), a, r)
  <2>1. x[1].pkt \in GamePackets({NoIp}, {UINT_MAX}, AnyRange)
    BY <1>1, <1>5, ToHost DEF HostRecvGame
  <2>2. r \in AnyRange
    BY <2>1 DEF GamePackets
  <2>3. Hear(a, table, r)
    BY <1>5 DEF HostRecvGame
  <2>4. /\ table \in Seq(EntryType)
        /\ DOMAIN table = DOMAIN Touched(a)
        /\ \A i \in DOMAIN table :
              /\ table[i].addr = Touched(a)[i].addr
              /\ table[i].age = Touched(a)[i].age
              /\ table[i].range = IF table[i].addr = a THEN r ELSE Touched(a)[i].range
    BY <1>3, <2>2, AnnouncedProperties
  <2> HIDE DEF r, table
  <2> QED BY <1>2, <2>2, <2>3, <2>4, HearTable
<1> QED BY <1>4, <1>5 DEF HostRecv

\* Who is erased has been silent for longer than the timeout.
LEMMA HostKeepAliveTable ==
    ASSUME TypeOK, Table, HostKeepAlive
    PROVE  /\ Table'
           /\ \A a \in Known : a \in Known' \/ silence[a] > Timeout
<1> DEFINE kept == Survivors(clients)
           known == {kept[i].addr : i \in DOMAIN kept}
<1>1. /\ Single(kept)
      /\ \A i \in DOMAIN kept : \E j \in DOMAIN clients : kept[i] = clients[j]
      /\ \A j \in DOMAIN clients :
            ~Expired(clients[j]) => \E i \in DOMAIN kept : kept[i] = clients[j]
  BY SurvivorsProperties DEF Table, TypeOK
<1>2. /\ clients' = kept /\ silence' = silence
      /\ announced' = [a \in Addr |-> IF a \in known THEN announced[a] ELSE NoRange]
  BY DEF HostKeepAlive
<1>3. Known' = known
  BY <1>2 DEF Known
<1>4. \A i \in DOMAIN clients : clients[i].addr \in Addr
  <2>1. \A i \in DOMAIN clients : clients[i] \in EntryType
    BY DEF TypeOK
  <2> QED BY <2>1 DEF EntryType
<1> HIDE DEF kept
<1>5. \A i \in DOMAIN kept : /\ kept[i].age = silence'[kept[i].addr]
                             /\ kept[i].range = announced'[kept[i].addr]
  BY <1>1, <1>2, <1>4 DEF Table
<1>6. \A a \in Addr \ known : announced'[a] = NoRange
  BY <1>2
<1>7. ASSUME NEW a \in Known, a \notin known
      PROVE  silence[a] > Timeout
  <2>1. PICK j \in DOMAIN clients : clients[j].addr = a
    BY DEF Known
  <2>2. Expired(clients[j])
    BY <1>1, <1>7, <2>1
  <2> QED BY <2>1, <2>2 DEF Expired, Table
<1> QED BY <1>1, <1>2, <1>3, <1>5, <1>6, <1>7 DEF Table, Single

\* Time passes alike for the table and for what the host has heard.
LEMMA TickTable ==
    ASSUME TypeOK, Table, Tick
    PROVE  Table' /\ Known' = Known
<1>1. /\ DOMAIN clients' = DOMAIN clients
      /\ \A i \in DOMAIN clients : clients'[i] = [clients[i] EXCEPT !.age = Older(clients[i].age)]
      /\ \A a \in Addr : silence'[a] = Older(silence[a])
      /\ announced' = announced
  BY DEF Tick
<1>2. \A i \in DOMAIN clients : clients[i] \in EntryType
  BY DEF TypeOK
<1>3. \A i \in DOMAIN clients : clients[i].addr \in Addr /\ Older(clients[i].age) \in 0 .. Timeout + 1
  BY <1>2, OlderType DEF EntryType
<1>4. \A i \in DOMAIN clients : /\ clients'[i].addr = clients[i].addr
                                /\ clients'[i].age = Older(clients[i].age)
                                /\ clients'[i].range = clients[i].range
  <2> TAKE i \in DOMAIN clients
  <2> DEFINE n == Older(clients[i].age)
  <2>1. clients[i] \in EntryType /\ n \in 0 .. Timeout + 1 /\ clients'[i] = [clients[i] EXCEPT !.age = n]
    BY <1>1, <1>2, <1>3
  <2> HIDE DEF n
  <2>2. /\ [clients[i] EXCEPT !.age = n].addr = clients[i].addr
        /\ [clients[i] EXCEPT !.age = n].age = n
        /\ [clients[i] EXCEPT !.age = n].range = clients[i].range
    BY <2>1, EntryProperties
  <2> QED BY <2>1, <2>2 DEF n
<1>5. Known' = Known
  BY <1>1, <1>4 DEF Known
<1> QED BY <1>1, <1>3, <1>4, <1>5 DEF Table, Single

\* Of all steps only packets that arrive at the host, its keepalive loop and
\* time concern the table.
LEMMA TableStep ==
    ASSUME TypeOK, Table, [Next]_vars
    PROVE  /\ Table'
           /\ \A a \in Known : a \in Known' \/ silence[a] > Timeout
<1> USE DEF hostVars, clientVars, historyVars
<1>1. ASSUME UNCHANGED <<clients, silence, announced>>
      PROVE  Table' /\ Known' = Known
  BY <1>1 DEF Table, Known, Single
<1>2. ASSUME NEW a \in Addr, Client(a)
      PROVE  UNCHANGED <<clients, silence, announced>>
  BY <1>2 DEF Client, Start, Stop, SendProbe, EndProbes, SetPortRange, ClientKeepAlive,
              ClientSend, RecvProbe, ClientRecv
<1>3. ASSUME NEW s \in Speed, SetSpeed(s)
      PROVE  UNCHANGED <<clients, silence, announced>>
  BY <1>3 DEF SetSpeed
<1>4. ASSUME NEW src, NEW to, NEW d, HostSend(src, to, d)
      PROVE  UNCHANGED <<clients, silence, announced>>
  BY <1>4 DEF HostSend
<1>5. ASSUME NEW x \in net, HostRecv(x)
      PROVE  Table' /\ Known \subseteq Known'
  BY <1>5, HostRecvTable
<1>6. CASE HostStep
  BY <1>1, <1>3, <1>4, <1>5, <1>6, HostKeepAliveTable DEF HostStep
<1>7. ASSUME \/ \E x \in net : Vanish(x)
             \/ \E p \in Process, q \in Port : Read(p, q)
             \/ \E p \in Process, v \in FrameLimit : SetFrameLimit(p, v)
             \/ UNCHANGED vars
      PROVE  UNCHANGED <<clients, silence, announced>>
  BY <1>7 DEF Vanish, Read, SetFrameLimit, vars
<1>8. CASE Tick
  BY <1>8, TickTable
<1> QED BY <1>1, <1>2, <1>6, <1>7, <1>8 DEF Next

\* The invariant holds of an empty table.
LEMMA InitIInv == Init => TypeOK /\ Table
<1> SUFFICES ASSUME Init PROVE TypeOK /\ Table
  OBVIOUS
<1>1. clients = <<>> /\ clients \in Seq(EntryType) /\ DOMAIN clients = {}
  BY DEF Init
<1>2. Table
  BY <1>1 DEF Init, Table, Single, Known
<1>3. inbox \in [Process -> [Port -> Seq(ArrivalType)]]
  BY DEF Init
<1>4. Timeout + 1 \in 0 .. Timeout + 1
  OBVIOUS
<1> QED BY <1>1, <1>2, <1>3, <1>4, AnyRangeHasNone DEF Init, TypeOK

\* The inductive invariant holds always.
LEMMA IInvCorrect == Spec => [](TypeOK /\ Table)
<1>1. (TypeOK /\ Table) /\ [Next]_vars => (TypeOK /\ Table)'
  BY TypeStep, TableStep
<1> QED BY <1>1, InitIInv, PTL DEF Spec

\* The types, among them that each packet is one the code builds: what a client
\* sends names no source, what the host sends on names a client's ip.
THEOREM ProxyTypeCorrect == Spec => []TypeOK
BY IInvCorrect, PTL

\* The search in WolProxyServer::run finds the entry of an address if there is
\* one, so no address is listed twice.
THEOREM OneEntryCorrect == Spec => []OneEntryPerAddress
<1>1. Table => OneEntryPerAddress
  BY DEF Table, Single, OneEntryPerAddress
<1> QED BY <1>1, IInvCorrect, PTL

\* Packets to a port that one client alone of its ip has announced go there.
THEOREM RouteCorrect == Spec => []RouteFindsOwner
<1>1. ASSUME TypeOK, Table, NEW a \in Known, NEW q \in Port,
             In(q, announced[a]),
             \A b \in Known \ {a} : b.ip = a.ip => ~In(q, announced[b])
      PROVE  Owner(clients, [ip |-> a.ip, port |-> q]) = {a}
  <2> DEFINE to == [ip |-> a.ip, port |-> q]
  <2>1. clients \in Seq(EntryType)
    BY <1>1 DEF TypeOK
  <2>2. PICK i \in DOMAIN clients : clients[i].addr = a
    BY DEF Known
  <2>3. clients[i].range = announced[a]
    BY <1>1, <2>2 DEF Table
  <2>4. Has(clients[i], to)
    BY <1>1, <2>2, <2>3 DEF Has, In
  <2>5. PICK j \in DOMAIN clients : Owner(clients, to) = {clients[j].addr} /\ Has(clients[j], to)
    BY <2>1, <2>4, OwnerProperties
  <2> DEFINE b == clients[j].addr
  <2>6. b \in Known /\ b.ip = a.ip /\ In(q, announced[b])
    BY <1>1, <2>5 DEF Known, Has, In, Table
  <2>7. b = a
    BY <1>1, <2>6
  <2> QED BY <2>5, <2>7
<1>2. TypeOK /\ Table => RouteFindsOwner
  BY <1>1 DEF RouteFindsOwner
<1> QED BY <1>2, IInvCorrect, PTL

\* The keepalive loop evicts nobody from whom a packet has arrived in time.
THEOREM EvictionCorrect == Spec => EvictedOnlyWhenSilent
<1>1. (TypeOK /\ Table) /\ [Next]_vars =>
         [\A a \in Known : a \in Known' \/ silence[a] > Timeout]_vars
  BY TableStep
<1> QED BY <1>1, IInvCorrect, PTL DEF Spec, EvictedOnlyWhenSilent

-----------------------------------------------------------------------------
(* Nothing is addressed to a port that its receiver has not claimed. *)

\* No process comes back or gives up a port while it lives.
Grows ==
    \A a \in Addr : phase'[a] # "gone" => phase[a] # "gone" /\ claimed[a] \subseteq claimed'[a]

\* What a packet says stays rightful until its client ends.
LEMMA RightfulStays ==
    ASSUME Grows, NEW w \in Wires, Rightful(w)
    PROVE  Rightful(w)'
<1>1. CASE w \in FromClient
  <2>1. w.src \in Addr /\ w.src # Host
    BY <1>1, HostApart DEF FromClient
  <2> QED BY <2>1 DEF Rightful, Grows
<1>2. CASE w \in FromHost
  <2>1. w.dst \in Addr /\ w.src = Host
    BY <1>2 DEF FromHost
  <2> QED BY <2>1 DEF Rightful, Grows
<1> QED BY <1>1, <1>2 DEF Wires

\* Keepalives and probes say nothing of ports.
LEMMA SignalRightful ==
    ASSUME NEW a, NEW b, NEW pkt \in {KeepAlive, ConnectionTest}
    PROVE  Rightful(Wire(a, b, pkt))'
BY DEF Rightful, Wire, KeepAlive, ConnectionTest

\* The packets under way after a step that sends W.
LEMMA NetRightful ==
    ASSUME TypeOK, NothingUnclaimed, Grows, NEW W,
           \A x \in net' : x \in net \/ x[1] \in W,
           \A w \in W : Rightful(w)'
    PROVE  \A x \in net' : Rightful(x[1])'
<1> TAKE x \in net'
<1>1. CASE x[1] \in W
  BY <1>1
<1>2. CASE x \in net
  <2>1. x[1] \in Wires /\ Rightful(x[1])
    BY <1>2 DEF TypeOK, NothingUnclaimed
  <2> HIDE DEF Rightful
  <2>2. ASSUME NEW w, w = x[1] PROVE Rightful(w)'
    BY <2>1, <2>2, RightfulStays
  <2> QED BY <2>2
<1> QED BY <1>1, <1>2

\* What is under way after a step was so before, or has been sent in it.
LEMMA TransmitNew ==
    ASSUME NEW N, N \subseteq net, NEW W, Transmit(N, W)
    PROVE  \A x \in net' : x \in net \/ x[1] \in W
BY DEF Transmit

RangesOK ==
    \A a \in Addr : phase[a] # "gone" => /\ Ports(portRange[a]) \subseteq claimed[a]
                                       /\ Ports(announced[a]) \subseteq claimed[a]

\* Port 0 is nobody's: a range that was never set holds no port.
LEMMA NoRangeHasNoPort == Ports(NoRange) = {}
<1>1. ASSUME NEW q \in Port, In(q, NoRange)
      PROVE  FALSE
  <2>1. q \in Nat /\ q # 0
    OBVIOUS
  <2>2. q <= 0
    BY <1>1 DEF In, NoRange
  <2> QED BY <2>1, <2>2
<1> QED BY <1>1 DEF Ports

\* Nothing grows if nothing changes.
LEMMA SameGrows ==
    ASSUME UNCHANGED <<phase, claimed>>
    PROVE  Grows
BY DEF Grows

\* A client announces only what it has claimed.
LEMMA ClientUnclaimed ==
    ASSUME TypeOK, NothingUnclaimed, NEW a \in Addr, Client(a)
    PROVE  NothingUnclaimed'
<1> USE DEF hostVars, clientVars, historyVars
<1>0. TypeOK /\ RangesOK /\ phase \in [Addr -> {"new", "up", "probing", "gone"}]
      /\ claimed \in [Process -> SUBSET Port] /\ portRange \in [Addr -> AnyRange]
      /\ a \in Process /\ Addr \subseteq Process
  BY HostApart DEF TypeOK, NothingUnclaimed, RangesOK
<1>1. SUFFICES ASSUME TRUE
               PROVE  /\ Grows /\ RangesOK'
                      /\ \E W : /\ \A x \in net' : x \in net \/ x[1] \in W
                               /\ \A w \in W : Rightful(w)'
  BY <1>1, NetRightful DEF NothingUnclaimed, RangesOK
<1>2. ASSUME net' \subseteq net
      PROVE  \E W : /\ \A x \in net' : x \in net \/ x[1] \in W
                   /\ \A w \in W : Rightful(w)'
  <2> DEFINE W == {}
  <2>1. \A x \in net' : x \in net \/ x[1] \in W
    BY <1>2
  <2>2. \A w \in W : Rightful(w)'
    OBVIOUS
  <2> HIDE DEF W
  <2> QED BY <2>1, <2>2
<1>3. CASE Start(a)
  <2>1. Grows /\ RangesOK'
    BY <1>0, <1>3 DEF Start, Grows, RangesOK
  <2> QED BY <1>2, <1>3, <2>1 DEF Start
<1>4. CASE Stop(a)
  <2>1. Grows /\ RangesOK'
    BY <1>0, <1>4, HostApart DEF Stop, Grows, RangesOK
  <2> QED BY <1>2, <1>4, <2>1 DEF Stop
<1>5. CASE SendProbe(a)
  <2>1. Grows /\ RangesOK'
    BY <1>0, <1>5 DEF SendProbe, Grows, RangesOK
  <2> DEFINE W == {Wire(a, Host, ConnectionTest)}
  <2>2. \A x \in net' : x \in net \/ x[1] \in W
    BY <1>5 DEF SendProbe, Transmit
  <2>3. \A w \in W : Rightful(w)'
    BY SignalRightful
  <2> QED BY <2>1, <2>2, <2>3
<1>6. CASE EndProbes(a)
  <2>1. Grows /\ RangesOK'
    BY <1>0, <1>6 DEF EndProbes, Grows, RangesOK
  <2> QED BY <1>2, <1>6, <2>1 DEF EndProbes
<1>7. ASSUME NEW r \in PortRange, SetPortRange(a, r)
      PROVE  Grows /\ RangesOK' /\ net' \subseteq net
  <2>1. claimed' = [claimed EXCEPT ![a] = claimed[a] \cup Ports(r)]
    BY <1>7 DEF SetPortRange, Ports, In
  <2>2. \A b \in Addr : claimed[b] \subseteq claimed'[b]
    BY <1>0, <2>1
  <2>3. Ports(r) \subseteq claimed'[a]
    BY <1>0, <2>1
  <2>4. phase' = phase /\ announced' = announced /\ net' = net /\ portRange' = [portRange EXCEPT ![a] = r]
    BY <1>7 DEF SetPortRange
  <2> QED BY <1>0, <2>2, <2>3, <2>4 DEF Grows, RangesOK, Ports
<1>8. CASE ClientKeepAlive(a)
  <2>1. Grows /\ RangesOK'
    BY <1>0, <1>8 DEF ClientKeepAlive, Grows, RangesOK, Ports
  <2> DEFINE W == {Wire(a, Host, KeepAlive)}
  <2>2. \A x \in net' : x \in net \/ x[1] \in W
    BY <1>8 DEF ClientKeepAlive, Transmit
  <2>3. \A w \in W : Rightful(w)'
    BY SignalRightful
  <2> QED BY <2>1, <2>2, <2>3
<1>9. ASSUME NEW src, NEW to, NEW d, ClientSend(a, src, to, d)
      PROVE  /\ Grows /\ RangesOK'
             /\ \E W : /\ \A x \in net' : x \in net \/ x[1] \in W
                      /\ \A w \in W : Rightful(w)'
  <2>1. Grows /\ RangesOK'
    BY <1>0, <1>9 DEF ClientSend, Grows, RangesOK, Ports
  <2> DEFINE m == Wire(a, Host, GamePacket(src, NoIp, to, UINT_MAX, portRange[a], d))
             W == {m}
  <2>2. \A x \in net' : x \in net \/ x[1] \in W
    BY <1>9 DEF ClientSend, Transmit
  <2>3. m.src = a /\ a # Host /\ m.pkt.range = portRange[a]
    BY HostApart DEF Wire, GamePacket
  <2>4. ASSUME NEW w, w = m
        PROVE  Rightful(w)'
    <3>1. w.src = a /\ a # Host /\ w.pkt.range = portRange[a]
      BY <2>3, <2>4
    <3>2. phase'[a] # "gone" => Ports(portRange[a]) \subseteq claimed'[a]
      BY <1>0, <1>9 DEF ClientSend, RangesOK
    <3> HIDE DEF m
    <3> QED BY <3>1, <3>2 DEF Rightful, Ports
  <2>5. \A w \in W : Rightful(w)'
    BY <2>4
  <2> QED BY <2>1, <2>2, <2>5
<1>10. ASSUME NEW x \in net, RecvProbe(a, x) \/ ClientRecv(a, x)
       PROVE  Grows /\ RangesOK' /\ net' \subseteq net
  BY <1>0, <1>10 DEF RecvProbe, ClientRecv, Grows, RangesOK, Ports
<1> QED BY <1>2, <1>3, <1>4, <1>5, <1>6, <1>7, <1>8, <1>9, <1>10 DEF Client

\* What the host knows of a client that it finds for an address.
LEMMA OwnerRightful ==
    ASSUME NEW table \in Seq(EntryType),
           \A i \in DOMAIN table : table[i].range = announced[table[i].addr],
           NEW to \in GameAddr, NEW b \in Owner(table, to)
    PROVE  b \in Addr /\ to.ip = b.ip /\ to.port \in Ports(announced[b])
<1>1. PICK i \in DOMAIN table : b = table[i].addr /\ Has(table[i], to)
  BY OwnerProperties
<1>2. b \in Addr
  BY OwnerType
<1>3. to.port \in Port
  BY DEF GameAddr
<1> QED BY <1>1, <1>2, <1>3 DEF Has, Ports, In

\* The host sends only to ports announced, hence claimed.
LEMMA HostUnclaimed ==
    ASSUME TypeOK, TypeOK', Table, Table', NothingUnclaimed, HostStep
    PROVE  NothingUnclaimed'
<1> USE DEF hostVars, clientVars, historyVars
<1>0. /\ RangesOK /\ announced \in [Addr -> AnyRange]
      /\ clients \in Seq(EntryType) /\ clients' \in Seq(EntryType)
      /\ \A i \in DOMAIN clients : clients[i].range = announced[clients[i].addr]
      /\ \A i \in DOMAIN clients' : clients'[i].range = announced'[clients'[i].addr]
  BY DEF TypeOK, NothingUnclaimed, RangesOK, Table
<1>1. UNCHANGED <<phase, claimed, portRange>>
  BY DEF HostStep, SetSpeed, HostRecv, HostRecvKeepAlive, HostRecvTest, HostRecvGame, HostSend, HostKeepAlive
<1>2. Grows
  BY <1>1, SameGrows
<1>3. SUFFICES /\ RangesOK'
               /\ \E W : /\ \A x \in net' : x \in net \/ x[1] \in W
                        /\ \A w \in W : Rightful(w)'
  BY <1>2, NetRightful DEF NothingUnclaimed, RangesOK
<1>4. ASSUME announced' = announced
      PROVE  RangesOK'
  BY <1>0, <1>1, <1>4 DEF RangesOK, Ports
<1>5. ASSUME net' \subseteq net
      PROVE  \E W : /\ \A x \in net' : x \in net \/ x[1] \in W
                   /\ \A w \in W : Rightful(w)'
  <2> DEFINE W == {}
  <2>1. \A x \in net' : x \in net \/ x[1] \in W
    BY <1>5
  <2>2. \A w \in W : Rightful(w)'
    OBVIOUS
  <2> HIDE DEF W
  <2> QED BY <2>1, <2>2
<1>6. ASSUME NEW s \in Speed, SetSpeed(s)
      PROVE  announced' = announced /\ net' \subseteq net
  BY <1>6 DEF SetSpeed
<1>7. ASSUME NEW x \in net, HostRecvKeepAlive(x)
      PROVE  announced' = announced /\ net' \subseteq net
  BY <1>0, <1>7 DEF HostRecvKeepAlive, Hear
<1>8. ASSUME NEW x \in net, HostRecvTest(x)
      PROVE  /\ announced' = announced
             /\ \E W : /\ \A y \in net' : y \in net \/ y[1] \in W
                      /\ \A w \in W : Rightful(w)'
  <2> DEFINE W == {Wire(Host, x[1].src, ConnectionTest)}
  <2>1. announced' = announced
    BY <1>0, <1>8 DEF HostRecvTest, Hear
  <2>2. \A y \in net' : y \in net \/ y[1] \in W
    BY <1>8 DEF HostRecvTest, Transmit
  <2>3. \A w \in W : Rightful(w)'
    BY SignalRightful
  <2> QED BY <2>1, <2>2, <2>3
<1>9. ASSUME NEW x \in net, HostRecvGame(x)
      PROVE  /\ RangesOK'
             /\ \E W : /\ \A y \in net' : y \in net \/ y[1] \in W
                      /\ \A w \in W : Rightful(w)'
  <2> DEFINE a   == x[1].src
             pkt == x[1].pkt
             W   == {Wire(Host, b, Forwarded(pkt, a)) : b \in Owner(clients', pkt.to)}
  <2>1. x \in Wires \X Copies /\ x[1].dst = Host /\ pkt.type = "GamePacket"
    BY <1>9 DEF HostRecvGame, TypeOK
  <2>2. a \in Addr /\ pkt \in GamePackets({NoIp}, {UINT_MAX}, AnyRange) /\ a # Host
    BY <2>1, ToHost, HostApart
  <2>3. pkt.to \in GameAddr
    BY <2>2 DEF GamePackets
  <2>4. Rightful(x[1])
    BY DEF NothingUnclaimed
  <2>5. phase[a] # "gone" => Ports(pkt.range) \subseteq claimed[a]
    BY <2>1, <2>2, <2>4 DEF Rightful
  <2>6. announced' = [announced EXCEPT ![a] = pkt.range] /\ clients' = Announced(Touched(a), a, pkt.range)
    BY <1>9 DEF HostRecvGame, Hear
  <2>7. RangesOK'
    BY <1>0, <1>1, <2>2, <2>5, <2>6 DEF RangesOK, Ports
  <2>8. \A y \in net' : y \in net \/ y[1] \in W
    <3> DEFINE V == {Wire(Host, b, Forwarded(pkt, a)) :
                       b \in Owner(Announced(Touched(a), a, pkt.range), pkt.to)}
    <3>1. net' = net \ {x} \/ Transmit(net \ {x}, V)
      BY <1>9 DEF HostRecvGame
    <3>2. V = W
      BY <2>6
    <3> HIDE DEF V, W
    <3>3. CASE net' = net \ {x}
      BY <3>3
    <3>4. CASE Transmit(net \ {x}, V)
      <4>1. net \ {x} \subseteq net
        OBVIOUS
      <4>2. \A y \in net' : y \in net \/ y[1] \in V
        BY <3>4, <4>1, TransmitNew
      <4> QED BY <3>2, <4>2
    <3> QED BY <3>1, <3>3, <3>4
  <2>9. ASSUME NEW b \in Owner(clients', pkt.to)
        PROVE  Rightful(Wire(Host, b, Forwarded(pkt, a)))'
    <3>1. b \in Addr /\ pkt.to.ip = b.ip /\ pkt.to.port \in Ports(announced'[b])
      <4> DEFINE t == clients'
                 h == announced'
      <4>1. PICK i \in DOMAIN t : b = t[i].addr /\ Has(t[i], pkt.to)
        BY <1>0, OwnerProperties
      <4>2. b \in Addr
        BY <1>0, OwnerType
      <4>3. pkt.to.port \in Port
        BY <2>3 DEF GameAddr
      <4> QED BY <1>0, <4>1, <4>2, <4>3 DEF Has, Ports, In
    <3>2. phase'[b] # "gone" => pkt.to.port \in claimed'[b]
      BY <2>7, <3>1 DEF RangesOK, Ports
    <3>3. Forwarded(pkt, a).to = pkt.to
      BY <2>2, <3>1, ForwardedType
    <3> QED BY <3>1, <3>2, <3>3 DEF Rightful, Wire
  <2>10. \A w \in W : Rightful(w)'
    BY <2>9
  <2> QED BY <2>7, <2>8, <2>10
<1>10. ASSUME NEW src, NEW to \in Peers(Host), NEW d, HostSend(src, to, d)
       PROVE  /\ announced' = announced
              /\ \E W : /\ \A x \in net' : x \in net \/ x[1] \in W
                       /\ \A w \in W : Rightful(w)'
  <2> DEFINE m(b) == Wire(Host, b, GamePacket(src, HostIp, to, hostSpeed, NoRange, d))
             W == {m(b) : b \in Owner(clients, to)}
  <2>1. announced' = announced
    BY <1>10 DEF HostSend
  <2>2. \A x \in net' : x \in net \/ x[1] \in W
    BY <1>10 DEF HostSend, Transmit
  <2>3. to \in GameAddr
    BY DEF Peers, GameAddr
  <2>4. ASSUME NEW b \in Owner(clients, to), NEW w, w = m(b)
        PROVE  Rightful(w)'
    <3>1. b \in Addr /\ to.ip = b.ip /\ to.port \in Ports(announced[b])
      BY <1>0, <2>3, OwnerRightful
    <3>2. w.src = Host /\ w.dst = b /\ w.pkt.to = to
      BY <2>4 DEF Wire, GamePacket
    <3>3. phase'[b] # "gone" => to.port \in claimed'[b]
      BY <1>0, <1>1, <3>1 DEF RangesOK
    <3> QED BY <3>1, <3>2, <3>3 DEF Rightful
  <2>5. \A w \in W : Rightful(w)'
    BY <2>4
  <2> QED BY <2>1, <2>2, <2>5
<1>11. CASE HostKeepAlive
  <2> DEFINE kept == Survivors(clients)
             W == {Wire(Host, kept[i].addr, KeepAlive) : i \in DOMAIN kept}
  <2>1. \A a \in Addr : announced'[a] = announced[a] \/ announced'[a] = NoRange
    BY <1>11 DEF HostKeepAlive
  <2>2. RangesOK'
    BY <1>0, <1>1, <2>1, NoRangeHasNoPort DEF RangesOK, Ports
  <2>3. \A x \in net' : x \in net \/ x[1] \in W
    BY <1>11 DEF HostKeepAlive, Transmit
  <2>4. ASSUME NEW i \in DOMAIN kept, NEW w, w = Wire(Host, kept[i].addr, KeepAlive)
        PROVE  Rightful(w)'
    BY <2>4 DEF Rightful, Wire, KeepAlive
  <2>5. \A w \in W : Rightful(w)'
    BY <2>4
  <2> QED BY <2>2, <2>3, <2>5
<1> QED BY <1>4, <1>5, <1>6, <1>7, <1>8, <1>9, <1>10, <1>11 DEF HostStep, HostRecv

\* Nothing else announces or sends.
LEMMA OtherUnclaimed ==
    ASSUME TypeOK, NothingUnclaimed,
           \/ \E x \in net : Vanish(x)
           \/ \E p \in Process, q \in Port : Read(p, q)
           \/ \E p \in Process, v \in FrameLimit : SetFrameLimit(p, v)
           \/ Tick
           \/ UNCHANGED vars
    PROVE  NothingUnclaimed'
<1>1. net' \subseteq net /\ UNCHANGED <<phase, claimed, portRange, announced>>
  BY DEF Vanish, Read, SetFrameLimit, Tick, vars, hostVars, clientVars, historyVars
<1> QED BY <1>1 DEF NothingUnclaimed, Rightful, Ports

\* Every step keeps NothingUnclaimed.
LEMMA UnclaimedStep ==
    ASSUME TypeOK, TypeOK', Table, Table', NothingUnclaimed, [Next]_vars
    PROVE  NothingUnclaimed'
BY ClientUnclaimed, HostUnclaimed, OtherUnclaimed DEF Next

\* Nothing has been announced at first.
LEMMA InitUnclaimed == Init => NothingUnclaimed
BY NoRangeHasNoPort DEF Init, NothingUnclaimed

\* NothingUnclaimed and the invariant it rests on hold always.
LEMMA UnclaimedInvariant == Spec => [](TypeOK /\ Table /\ NothingUnclaimed)
<1>1. /\ TypeOK /\ Table /\ NothingUnclaimed
      /\ (TypeOK /\ Table)'
      /\ [Next]_vars
      => NothingUnclaimed'
  BY UnclaimedStep
<1> QED BY <1>1, InitUnclaimed, IInvCorrect, PTL DEF Spec

\* What a client's own range, the table and every packet say of ports, the client
\* has claimed: the host forwards nothing to a port of somebody else.
THEOREM UnclaimedCorrect == Spec => []NothingUnclaimed
BY UnclaimedInvariant, PTL

-----------------------------------------------------------------------------
(* Every step is one of Datagrams, or changes nothing there. *)

PromiseStep == Promise!Next \/ UNCHANGED <<Flying, claimed, inbox>>

IsGame(w) == w.pkt.type = "GamePacket"

\* A game packet without its wrapping is a datagram.
LEMMA LogicalType ==
    ASSUME NEW w \in Wires, IsGame(w)
    PROVE  Logical(w) \in Promise!Datagram
<1>1. /\ \A a \in Addr : a.ip \in Promise!Ips
      /\ HostIp \in Promise!Ips
      /\ Ip \subseteq Promise!Ips
      /\ GameAddr = Promise!GameAddr
  <2>1. Host \in Process /\ Host.ip = HostIp
    BY DEF Host, Process
  <2> QED BY <2>1, HostApart DEF Promise!Ips, Promise!GameAddr, GameAddr, Ip
<1>2. w.pkt \notin Signal
  BY DEF IsGame, Signal
<1>3. CASE w \in FromClient
  <2>1. /\ w.src \in Addr /\ w.dst = Host
        /\ w.pkt \in GamePackets({NoIp}, {UINT_MAX}, AnyRange)
    BY <1>2, <1>3 DEF FromClient
  <2>2. w.pkt.srcPort \in Port /\ w.pkt.to \in GameAddr /\ w.pkt.data \in Data
    BY <2>1 DEF GamePackets
  <2>3. [ip |-> w.src.ip, port |-> w.pkt.srcPort] \in Promise!GameAddr
    BY <1>1, <2>1, <2>2 DEF Promise!GameAddr
  <2> QED BY <1>1, <2>1, <2>2, <2>3 DEF Logical, Promise!Datagram
<1>4. CASE w \in FromHost
  <2>1. /\ w.dst \in Addr /\ w.dst # Host
        /\ w.pkt \in Own \cup Other
    BY <1>2, <1>4, HostApart DEF FromHost
  <2>2. /\ w.pkt.srcPort \in Port /\ w.pkt.to \in GameAddr /\ w.pkt.data \in Data
        /\ w.pkt.srcIp \in Ip \cup {HostIp}
    BY <2>1 DEF GamePackets, Own, Other
  <2>3. [ip |-> w.pkt.srcIp, port |-> w.pkt.srcPort] \in Promise!GameAddr
    BY <1>1, <2>2 DEF Promise!GameAddr
  <2> QED BY <1>1, <2>1, <2>2, <2>3 DEF Logical, Promise!Datagram
<1> QED BY <1>3, <1>4 DEF Wires

\* What flies after a step.
LEMMA FlyingNew ==
    ASSUME NEW M, \A x \in net' : IsGame(x[1]) => x \in net \/ Logical(x[1]) \in M
    PROVE  Flying' \subseteq Flying \cup M
BY DEF Flying, IsGame

\* What no longer flies after a step.
LEMMA FlyingKept ==
    ASSUME NEW M, \A x \in net : IsGame(x[1]) => x \in net' \/ Logical(x[1]) \in M
    PROVE  Flying \ M \subseteq Flying'
BY DEF Flying, IsGame

\* Packets that vanish are lost datagrams.
LEMMA LoseStep ==
    ASSUME Flying' \subseteq Flying, UNCHANGED <<claimed, inbox>>
    PROVE  PromiseStep
<1>1. Promise!Lose
  BY DEF Promise!Lose
<1> QED BY <1>1 DEF PromiseStep, Promise!Next

\* Signals are no datagrams.
LEMMA SignalStep ==
    ASSUME NEW N, N \subseteq net, NEW W, Transmit(N, W),
           \A w \in W : ~IsGame(w),
           UNCHANGED <<claimed, inbox>>
    PROVE  PromiseStep
<1>1. \A x \in net' : x \in net \/ x[1] \in W
  BY TransmitNew
<1>2. Flying' \subseteq Flying \cup {}
  BY <1>1, FlyingNew
<1> QED BY <1>2, LoseStep

\* A process p sends m, or nothing.
LEMMA SendStep ==
    ASSUME NEW p \in Process, NEW m \in Promise!Datagram, m.from.ip = p.ip,
           NEW W, \A w \in W : Logical(w) = m,
           Transmit(net, W), UNCHANGED <<claimed, inbox>>
    PROVE  PromiseStep
<1>1. net \subseteq net' /\ \A x \in net' : x \in net \/ x[1] \in W
  BY DEF Transmit
<1>2. Flying' \subseteq Flying \cup {m}
  <2> DEFINE M == {m}
  <2>1. \A x \in net' : IsGame(x[1]) => x \in net \/ Logical(x[1]) \in M
    BY <1>1
  <2> HIDE DEF M
  <2>2. Flying' \subseteq Flying \cup M
    BY <2>1, FlyingNew
  <2> QED BY <2>2 DEF M
<1>3. Flying \subseteq Flying'
  BY <1>1 DEF Flying
<1>4. CASE m \in Flying'
  <2>1. Flying' = Flying \cup {m}
    BY <1>2, <1>3, <1>4
  <2>2. Promise!Send(p, m)
    BY <2>1 DEF Promise!Send
  <2> QED BY <2>2 DEF PromiseStep, Promise!Next
<1>5. CASE m \notin Flying'
  <2>1. Flying' = Flying
    BY <1>2, <1>3, <1>5
  <2> QED BY <2>1 DEF PromiseStep
<1> QED BY <1>4, <1>5

\* The packet x arrives at the game of p.
LEMMA DeliverStep ==
    ASSUME TypeOK, NEW p \in Process, NEW x \in net, IsGame(x[1]),
           NEW ip, ip = Logical(x[1]).from.ip,
           x[1].pkt.to.ip = p.ip,
           p.ip = HostIp \/ x[1].pkt.to.port \in claimed[p],
           Deposit(p, ip, x[1].pkt),
           net' = net \ {x}, UNCHANGED claimed
    PROVE  PromiseStep
<1> DEFINE m == Logical(x[1])
<1>1. x[1] \in Wires
  BY DEF TypeOK
<1>2. m \in Promise!Datagram /\ m \in Flying
  BY <1>1, LogicalType DEF Flying, IsGame
<1>3. m.to = x[1].pkt.to /\ Arrival(ip, x[1].pkt) = Promise!Arrived(m)
  BY DEF Logical, Arrival, Promise!Arrived
<1>4. inbox' = [inbox EXCEPT ![p][m.to.port] = Append(@, Promise!Arrived(m))]
  BY <1>3 DEF Deposit
<1>5. Flying' \subseteq Flying \cup {}
  BY FlyingNew
<1>6. Flying \ {m} \subseteq Flying'
  <2> DEFINE M == {m}
  <2>1. \A y \in net : IsGame(y[1]) => y \in net' \/ Logical(y[1]) \in M
    OBVIOUS
  <2> HIDE DEF M
  <2>2. Flying \ M \subseteq Flying'
    BY <2>1, FlyingKept
  <2> QED BY <2>2 DEF M
<1>7. Flying' \in {Flying, Flying \ {m}}
  BY <1>5, <1>6
<1> HIDE DEF m
<1>8. Promise!Deliver(p, m)
  BY <1>2, <1>3, <1>4, <1>7 DEF Promise!Deliver
<1> QED BY <1>2, <1>8 DEF PromiseStep, Promise!Next

\* A client's steps send, claim, stop, deliver, or lose.
LEMMA ClientMaps ==
    ASSUME TypeOK, NothingUnclaimed, NEW a \in Addr, Client(a)
    PROVE  PromiseStep
<1> USE DEF hostVars, clientVars, historyVars
<1>0. a \in Process /\ a # Host /\ a.ip # HostIp /\ Host \in Process
  BY HostApart
<1>1. ASSUME net' \subseteq net, UNCHANGED <<claimed, inbox>>
      PROVE  PromiseStep
  <2>1. Flying' \subseteq Flying \cup {}
    BY <1>1, FlyingNew
  <2> QED BY <1>1, <2>1, LoseStep
<1>2. CASE Start(a)
  BY <1>1, <1>2 DEF Start
<1>3. CASE Stop(a)
  <2>1. Flying' = Flying
    BY <1>3 DEF Stop, Flying
  <2>2. Promise!Stop(a)
    BY <1>3, <2>1 DEF Stop, Promise!Stop
  <2> QED BY <1>0, <2>2 DEF PromiseStep, Promise!Next
<1>4. CASE SendProbe(a)
  <2> DEFINE W == {Wire(a, Host, ConnectionTest)}
  <2>1. Transmit(net, W) /\ UNCHANGED <<claimed, inbox>>
    BY <1>4 DEF SendProbe
  <2>2. \A w \in W : ~IsGame(w)
    BY DEF IsGame, Wire, ConnectionTest
  <2> HIDE DEF W
  <2> QED BY <2>1, <2>2, SignalStep
<1>5. CASE EndProbes(a)
  BY <1>1, <1>5 DEF EndProbes
<1>6. ASSUME NEW r \in PortRange, SetPortRange(a, r)
      PROVE  PromiseStep
  <2> DEFINE Q == {q \in Port : r.lo <= q /\ q <= r.hi}
  <2>1. Flying' = Flying
    BY <1>6 DEF SetPortRange, Flying
  <2>2. Promise!Claim(a, Q)
    BY <1>6, <2>1 DEF SetPortRange, Promise!Claim
  <2>3. Q \in SUBSET Port
    OBVIOUS
  <2> HIDE DEF Q
  <2> QED BY <1>0, <2>2, <2>3 DEF PromiseStep, Promise!Next
<1>7. CASE ClientKeepAlive(a)
  <2> DEFINE W == {Wire(a, Host, KeepAlive)}
  <2>1. Transmit(net, W) /\ UNCHANGED <<claimed, inbox>>
    BY <1>7 DEF ClientKeepAlive
  <2>2. \A w \in W : ~IsGame(w)
    BY DEF IsGame, Wire, KeepAlive
  <2> HIDE DEF W
  <2> QED BY <2>1, <2>2, SignalStep
<1>8. ASSUME NEW src \in Port, NEW to \in Peers(a), NEW d \in Data, ClientSend(a, src, to, d)
      PROVE  PromiseStep
  <2> DEFINE w == Wire(a, Host, GamePacket(src, NoIp, to, UINT_MAX, portRange[a], d))
             W == {w}
             m == Logical(w)
  <2>1. to \in GameAddr /\ portRange[a] \in AnyRange
    BY DEF Peers, GameAddr, TypeOK
  <2>2. w \in Wires
    BY <2>1, ClientPacketType
  <2>3. IsGame(w) /\ m.from.ip = a.ip
    BY DEF IsGame, Wire, GamePacket, Logical
  <2>4. Transmit(net, W) /\ UNCHANGED <<claimed, inbox>>
    BY <1>8 DEF ClientSend
  <2> HIDE DEF w
  <2>5. m \in Promise!Datagram
    BY <2>2, <2>3, LogicalType
  <2>6. \A v \in W : Logical(v) = m
    OBVIOUS
  <2> HIDE DEF W, m
  <2> QED BY <1>0, <2>3, <2>4, <2>5, <2>6, SendStep
<1>9. ASSUME NEW x \in net, RecvProbe(a, x)
      PROVE  PromiseStep
  BY <1>1, <1>9 DEF RecvProbe
<1>10. ASSUME NEW x \in net, ClientRecv(a, x)
       PROVE  PromiseStep
  <2> DEFINE pkt == x[1].pkt
  <2>1. CASE ~IsGame(x[1])
    BY <1>1, <1>10, <2>1 DEF ClientRecv, IsGame
  <2>2. CASE IsGame(x[1])
    <3>1. x[1] \in Wires /\ x[1].dst = a
      BY <1>10 DEF TypeOK, ClientRecv
    <3>2. x[1].src = Host
      BY <1>0, <3>1 DEF Wires, FromClient, FromHost
    <3>3. pkt.to.ip = a.ip /\ pkt.to.port \in claimed[a]
      BY <1>10, <2>2, <3>1, <3>2 DEF NothingUnclaimed, Rightful, IsGame, ClientRecv
    <3>4. pkt.srcIp = Logical(x[1]).from.ip
      BY <1>0, <3>1 DEF Logical
    <3>5. Deposit(a, pkt.srcIp, pkt) /\ net' = net \ {x} /\ UNCHANGED claimed
      BY <1>10, <2>2 DEF ClientRecv, IsGame
    <3> QED BY <1>0, <2>2, <3>3, <3>4, <3>5, DeliverStep
  <2> QED BY <2>1, <2>2
<1> QED BY <1>2, <1>3, <1>4, <1>5, <1>6, <1>7, <1>8, <1>9, <1>10 DEF Client

\* The host's steps send, deliver, or pass on what flies already.
LEMMA HostMaps ==
    ASSUME TypeOK, Table, NothingUnclaimed, HostStep
    PROVE  PromiseStep
<1> USE DEF hostVars, clientVars, historyVars
<1>0. Host \in Process /\ Host.ip = HostIp
  BY DEF Host, Process
<1>1. ASSUME net' \subseteq net, UNCHANGED <<claimed, inbox>>
      PROVE  PromiseStep
  <2>1. Flying' \subseteq Flying \cup {}
    BY <1>1, FlyingNew
  <2> QED BY <1>1, <2>1, LoseStep
<1>2. ASSUME NEW s \in Speed, SetSpeed(s)
      PROVE  PromiseStep
  BY <1>1, <1>2 DEF SetSpeed
<1>3. ASSUME NEW x \in net, HostRecvKeepAlive(x)
      PROVE  PromiseStep
  BY <1>1, <1>3 DEF HostRecvKeepAlive
<1>4. ASSUME NEW x \in net, HostRecvTest(x)
      PROVE  PromiseStep
  <2> DEFINE W == {Wire(Host, x[1].src, ConnectionTest)}
             N == net \ {x}
  <2>1. N \subseteq net /\ Transmit(N, W) /\ UNCHANGED <<claimed, inbox>>
    BY <1>4 DEF HostRecvTest
  <2>2. \A w \in W : ~IsGame(w)
    BY DEF IsGame, Wire, ConnectionTest
  <2> HIDE DEF W, N
  <2> QED BY <2>1, <2>2, SignalStep
<1>5. ASSUME NEW x \in net, HostRecvGame(x)
      PROVE  PromiseStep
  <2> DEFINE a     == x[1].src
             pkt   == x[1].pkt
             table == Announced(Touched(a), a, pkt.range)
  <2>1. x \in Wires \X Copies /\ x[1].dst = Host /\ IsGame(x[1]) /\ UNCHANGED claimed
    BY <1>5 DEF HostRecvGame, TypeOK, IsGame
  <2>2. a \in Addr /\ pkt \in GamePackets({NoIp}, {UINT_MAX}, AnyRange)
    BY <2>1, ToHost DEF IsGame
  <2>3. Logical(x[1]).from = [ip |-> a.ip, port |-> pkt.srcPort]
    BY <2>1 DEF Logical
  <2>4. CASE pkt.to.ip = HostIp
    <3>1. Deposit(Host, a.ip, pkt) /\ net' = net \ {x}
      BY <1>5, <2>4 DEF HostRecvGame
    <3>2. a.ip = Logical(x[1]).from.ip
      BY <2>3
    <3> QED BY <1>0, <2>1, <2>4, <3>1, <3>2, DeliverStep
  <2>5. CASE pkt.to.ip # HostIp
    <3> DEFINE W == {Wire(Host, b, Forwarded(pkt, a)) : b \in Owner(table, pkt.to)}
               N == net \ {x}
               m == Logical(x[1])
               M == {m}
    <3>1. Transmit(N, W) /\ UNCHANGED <<claimed, inbox>>
      BY <1>5, <2>5 DEF HostRecvGame
    <3>2. Touched(a) \in Seq(EntryType) /\ pkt.range \in AnyRange
      BY <2>2, TouchedProperties DEF TypeOK, GamePackets
    <3>3. Owner(table, pkt.to) \subseteq Addr
      BY <3>2, AnnouncedProperties, OwnerType
    <3>4. ASSUME NEW b \in Addr, NEW w, w = Wire(Host, b, Forwarded(pkt, a))
          PROVE  Logical(w) = m
      <4>1. /\ Forwarded(pkt, a).srcIp = a.ip
            /\ Forwarded(pkt, a).srcPort = pkt.srcPort
            /\ Forwarded(pkt, a).to = pkt.to
            /\ Forwarded(pkt, a).data = pkt.data
        BY <2>2, <3>4, ForwardedType
      <4>2. w.dst = b /\ b # Host /\ w.pkt = Forwarded(pkt, a)
        BY <3>4, HostApart DEF Wire
      <4> QED BY <2>1, <4>1, <4>2 DEF Logical
    <3>5. \A w \in W : Logical(w) \in M
      BY <3>3, <3>4
    <3>6. N \subseteq net
      OBVIOUS
    <3>7. m \in Flying
      BY <2>1 DEF Flying, IsGame
    <3> HIDE DEF W, N, m, M
    <3>8. \A y \in net' : y \in net \/ y[1] \in W
      BY <3>1, <3>6, TransmitNew
    <3>9. Flying' \subseteq Flying \cup M
      BY <3>5, <3>8, FlyingNew
    <3>10. Flying' \subseteq Flying
      BY <3>7, <3>9 DEF M
    <3> QED BY <3>1, <3>10, LoseStep
  <2> QED BY <2>4, <2>5
<1>6. ASSUME NEW src \in Port, NEW to \in Peers(Host), NEW d \in Data, HostSend(src, to, d)
      PROVE  PromiseStep
  <2> DEFINE w(b) == Wire(Host, b, GamePacket(src, HostIp, to, hostSpeed, NoRange, d))
             W == {w(b) : b \in Owner(clients, to)}
             m == [from |-> [ip |-> HostIp, port |-> src], to |-> to, data |-> d]
  <2>1. to \in GameAddr /\ hostSpeed \in Speed /\ Owner(clients, to) \subseteq Addr
    BY OwnerType DEF Peers, GameAddr, TypeOK
  <2>2. Transmit(net, W) /\ UNCHANGED <<claimed, inbox>>
    BY <1>6 DEF HostSend
  <2>3. ASSUME NEW b \in Addr
        PROVE  Logical(w(b)) = m
    BY HostApart DEF Wire, GamePacket, Logical
  <2>4. \A v \in W : Logical(v) = m
    BY <2>1, <2>3
  <2>5. m \in Promise!Datagram
    BY <1>0, <2>1 DEF Promise!Datagram, Promise!GameAddr, Promise!Ips, GameAddr
  <2>6. m.from.ip = Host.ip
    BY <1>0
  <2> HIDE DEF W, m
  <2> QED BY <1>0, <2>2, <2>4, <2>5, <2>6, SendStep
<1>7. CASE HostKeepAlive
  <2> DEFINE kept == Survivors(clients)
             W == {Wire(Host, kept[i].addr, KeepAlive) : i \in DOMAIN kept}
  <2>1. net \subseteq net /\ Transmit(net, W) /\ UNCHANGED <<claimed, inbox>>
    BY <1>7 DEF HostKeepAlive
  <2>2. \A w \in W : ~IsGame(w)
    BY DEF IsGame, Wire, KeepAlive
  <2> HIDE DEF W
  <2> QED BY <2>1, <2>2, SignalStep
<1> QED BY <1>2, <1>3, <1>4, <1>5, <1>6, <1>7 DEF HostStep, HostRecv

\* So every step of the proxies is a step of Datagrams.
LEMMA StepMaps ==
    ASSUME TypeOK, Table, NothingUnclaimed, [Next]_vars
    PROVE  PromiseStep
<1> USE DEF hostVars, clientVars, historyVars
<1>1. ASSUME net' \subseteq net, UNCHANGED <<claimed, inbox>>
      PROVE  PromiseStep
  <2>1. Flying' \subseteq Flying \cup {}
    BY <1>1, FlyingNew
  <2> QED BY <1>1, <2>1, LoseStep
<1>2. ASSUME NEW x \in net, Vanish(x)
      PROVE  PromiseStep
  BY <1>1, <1>2 DEF Vanish
<1>3. ASSUME NEW p \in Process, NEW q \in Port, Read(p, q)
      PROVE  PromiseStep
  <2>1. Flying' = Flying
    BY <1>3 DEF Read, Flying
  <2>2. Promise!Read(p, q)
    BY <1>3, <2>1 DEF Read, Promise!Read
  <2> QED BY <2>2 DEF PromiseStep, Promise!Next
<1>4. ASSUME NEW p \in Process, NEW v \in FrameLimit, SetFrameLimit(p, v)
      PROVE  PromiseStep
  BY <1>1, <1>4 DEF SetFrameLimit
<1>5. CASE Tick
  BY <1>1, <1>5 DEF Tick
<1>6. CASE UNCHANGED vars
  BY <1>1, <1>6 DEF vars
<1> QED BY <1>2, <1>3, <1>4, <1>5, <1>6, ClientMaps, HostMaps DEF Next

\* The proxies keep the promise of Datagrams.  A packet that was wrapped, sent
\* to the host, looked up and sent on reaches the game it was for with its
\* sender's address, or nobody.
THEOREM CarriesCorrect == Spec => CarriesDatagrams
<1>1. Init => Promise!Init
  BY DEF Init, Promise!Init, Flying
<1>2. TypeOK /\ Table /\ NothingUnclaimed /\ [Next]_vars => [Promise!Next]_(Promise!vars)
  BY StepMaps DEF PromiseStep, Promise!vars
<1> QED BY <1>1, <1>2, UnclaimedInvariant, PTL DEF Spec, CarriesDatagrams, Promise!Spec
=============================================================================
