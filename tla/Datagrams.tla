------------------------------ MODULE Datagrams ------------------------------
(***************************************************************************)
(* What the games are promised by the proxies underneath them: datagrams   *)
(* between game addresses, each an ip and a port.  A datagram may be lost, *)
(* repeated or overtaken, but it arrives as it was sent, at a process that *)
(* has the ip and has claimed the port it was sent to, and it names its    *)
(* sender truly.  What has arrived is read in order, port by port.         *)
(***************************************************************************)
EXTENDS Sequences

CONSTANTS Process,   \* records with a field ip
          Port,
          Data,
          HostIp     \* the host's own address; it hears every port

VARIABLES flying,   \* datagrams that have not arrived for the last time
          claimed,  \* per process, the ports it has claimed so far
          inbox     \* per process and port, what has arrived

vars == <<flying, claimed, inbox>>

Ips == {p.ip : p \in Process}
GameAddr == [ip: Ips, port: Port]
Datagram == [from: GameAddr, to: GameAddr, data: Data]
Arrived(m) == [from |-> m.from, data |-> m.data]

Init ==
    /\ flying = {}
    /\ claimed = [p \in Process |-> {}]
    /\ inbox = [p \in Process |-> [q \in Port |-> <<>>]]

Lose ==
    /\ flying' \in SUBSET flying
    /\ UNCHANGED <<claimed, inbox>>

Send(p, m) ==
    /\ m.from.ip = p.ip
    /\ flying' = flying \cup {m}
    /\ UNCHANGED <<claimed, inbox>>

Claim(p, Q) ==
    /\ claimed' = [claimed EXCEPT ![p] = @ \cup Q]
    /\ UNCHANGED <<flying, inbox>>

Deliver(p, m) ==
    /\ m \in flying
    /\ m.to.ip = p.ip
    /\ p.ip = HostIp \/ m.to.port \in claimed[p]
    /\ inbox' = [inbox EXCEPT ![p][m.to.port] = Append(@, Arrived(m))]
    /\ flying' \in {flying, flying \ {m}}
    /\ UNCHANGED claimed

Read(p, q) ==
    /\ inbox[p][q] # <<>>
    /\ inbox' = [inbox EXCEPT ![p][q] = Tail(@)]
    /\ UNCHANGED <<flying, claimed>>

Stop(p) ==
    /\ inbox' = [inbox EXCEPT ![p] = [q \in Port |-> <<>>]]
    /\ claimed' = [claimed EXCEPT ![p] = {}]
    /\ UNCHANGED flying

Next ==
    \/ Lose
    \/ \E p \in Process :
          \/ \E m \in Datagram : Send(p, m) \/ Deliver(p, m)
          \/ \E Q \in SUBSET Port : Claim(p, Q)
          \/ \E q \in Port : Read(p, q)
          \/ Stop(p)

Spec == Init /\ [][Next]_vars
=============================================================================
