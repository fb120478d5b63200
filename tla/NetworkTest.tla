----------------------------- MODULE NetworkTest -----------------------------
(***************************************************************************)
(* The connection test of the launcher (EmperorLauncher/NetworkTest.cpp)   *)
(* against a host that may start or stop meanwhile: probes over UDP until  *)
(* one is answered, then a connection over TCP that says QUIT.             *)
(*                                                                         *)
(* Datagrams may be lost or overtake each other.  A probe that finds no    *)
(* socket comes back as an error, which costs a later recvfrom, and so may *)
(* a keepalive of the host's.                                              *)
(***************************************************************************)
EXTENDS Integers, Sequences

CONSTANTS
    HostAddr,  \* the addresses of the host
    Asked,     \* the address in the dialog, one of them
    Probes     \* bound: the code sends 15

VARIABLES
    host,     \* "off", "udp" when it has bound its UDP socket, "on"
    stalled,  \* somebody keeps the mutex of the lobby server
    udpOpen,  \* whether the host's UDP port can be reached
    tcpOpen,  \* per address, whether its TCP port can be
    reply,    \* the address the host's answers come from
    pc,       \* where testNetwork is
    sent,     \* probes sent
    addr,     \* serverAddr
    wire,     \* datagrams under way
    rx,       \* what recvfrom will return, in order
    udpOk, tcpOk,
    conn,     \* the TCP connection
    line,     \* what was last said over it
    inTime,   \* history: an answer came while reads enough were left for it
    answered  \* history: what the host has answered or sent

pathVars == <<udpOpen, tcpOpen, reply>>
hostVars == <<host, stalled, pathVars, answered>>
udpVars  == <<sent, addr, wire, rx, udpOk, inTime>>
tcpVars  == <<tcpOk, conn, line>>
vars     == <<hostVars, pc, udpVars, tcpVars>>

Datagram == [no: 1 .. Probes, kind: {"probe", "answer", "error", "keepalive"}, at: HostAddr]

TypeOK ==
    /\ host \in {"off", "udp", "on"} /\ stalled \in BOOLEAN
    /\ udpOpen \in BOOLEAN /\ tcpOpen \in [HostAddr -> BOOLEAN] /\ reply \in HostAddr
    /\ pc \in {"send", "recv", "connect", "select", "quit", "answer", "done"}
    /\ sent \in 0 .. Probes
    /\ addr \in HostAddr
    /\ wire \subseteq Datagram
    /\ rx \in Seq(Datagram) /\ \A i \in DOMAIN rx : rx[i].kind # "probe"
    /\ udpOk \in BOOLEAN /\ tcpOk \in BOOLEAN
    /\ conn \in {"none", "pending", "up", "failed"}
    /\ line \in {"none", "QUIT", "607"}
    /\ inTime \in BOOLEAN /\ answered \subseteq {"probe", "QUIT", "keepalive"}

Init ==
    /\ host \in {"off", "on"} /\ stalled \in BOOLEAN
    /\ udpOpen \in BOOLEAN /\ tcpOpen \in [HostAddr -> BOOLEAN] /\ reply \in HostAddr
    /\ pc = "send" /\ sent = 0 /\ addr = Asked
    /\ wire = {} /\ rx = <<>>
    /\ udpOk = FALSE /\ tcpOk = FALSE
    /\ conn = "none" /\ line = "none"
    /\ inTime = FALSE /\ answered = {}

-----------------------------------------------------------------------------
(* The test over UDP. *)

SendProbe ==
    /\ pc = "send"
    /\ sent' = sent + 1
    /\ wire' = wire \cup {[no |-> sent', kind |-> "probe", at |-> addr]}
    /\ pc' = "recv"
    /\ UNCHANGED <<hostVars, addr, rx, udpOk, inTime, tcpVars>>

\* Whether what recvfrom returned ends the loop.
Accept(m) == m.kind = "answer"

\* Whether there is another round.  The mutant has one less.
MoreButOne(k) == k < Probes - 1
More(k)       == k < Probes

NextRound == pc' = IF More(sent) THEN "send" ELSE "connect"

RecvNothing ==
    /\ pc = "recv" /\ rx = <<>>
    /\ NextRound
    /\ UNCHANGED <<hostVars, udpVars, tcpVars>>

\* recvfrom writes the sender over serverAddr, which the rest of the test uses.
RecvProbe ==
    /\ pc = "recv" /\ rx # <<>>
    /\ rx' = Tail(rx)
    /\ addr' = IF Head(rx).kind = "error" THEN addr ELSE Head(rx).at
    /\ udpOk' = Accept(Head(rx))
    /\ IF udpOk' THEN pc' = "connect" ELSE NextRound
    /\ UNCHANGED <<hostVars, sent, wire, inTime, tcpVars>>

-----------------------------------------------------------------------------
(* The test over TCP. *)

Connect ==
    /\ pc = "connect"
    /\ conn' = "pending" /\ pc' = "select"
    /\ UNCHANGED <<hostVars, udpVars, tcpOk, line>>

\* select returns, at the latest after three seconds; the code goes on whatever
\* has come of it.
Select ==
    /\ pc = "select"
    /\ pc' = "quit"
    /\ UNCHANGED <<hostVars, udpVars, tcpVars>>

SendQuit ==
    /\ pc = "quit"
    /\ IF conn = "up" THEN line' = "QUIT" /\ pc' = "answer"
                      ELSE UNCHANGED line /\ pc' = "done"
    /\ UNCHANGED <<hostVars, udpVars, tcpOk, conn>>

\* recv returns the answer, or nothing after three seconds or on an error.
RecvAnswer ==
    /\ pc = "answer"
    /\ tcpOk' = (line = "607")
    /\ pc' = "done"
    /\ UNCHANGED <<hostVars, udpVars, conn, line>>

-----------------------------------------------------------------------------
(* The host and the network. *)

HostStart ==
    /\ host = "off"
    /\ host' = "udp"
    /\ UNCHANGED <<stalled, pathVars, answered, pc, udpVars, tcpVars>>

HostListen ==
    /\ host = "udp"
    /\ host' = "on"
    /\ UNCHANGED <<stalled, pathVars, answered, pc, udpVars, tcpVars>>

HostStop ==
    /\ host # "off"
    /\ host' = "off" /\ stalled' = FALSE
    /\ conn' = IF conn = "up" THEN "failed" ELSE conn
    /\ line' \in IF line = "607" THEN {"607", "none"} ELSE {"none"}
    /\ UNCHANGED <<pathVars, answered, pc, udpVars, tcpOk>>

Stall ==
    /\ host = "on"
    /\ stalled' = ~stalled
    /\ UNCHANGED <<host, pathVars, answered, pc, udpVars, tcpVars>>

\* A probe arrives: the host sends it back, or its machine says there is none.
Probed(m) ==
    /\ m \in wire /\ m.kind = "probe" /\ udpOpen
    /\ \/ /\ host = "off"
          /\ wire' = (wire \ {m}) \cup {[m EXCEPT !.kind = "error"]}
          /\ UNCHANGED answered
       \/ /\ host # "off"
          /\ wire' = (wire \ {m}) \cup {[m EXCEPT !.kind = "answer", !.at = reply]}
          /\ answered' = answered \cup {"probe"}
    /\ UNCHANGED <<host, stalled, pathVars, pc, sent, addr, rx, udpOk, inTime, tcpVars>>

\* Whoever has sent a probe is a client of the host's, and the keepalive thread
\* writes to each every ten seconds: at most once during a test.
Keepalive ==
    /\ host # "off" /\ udpOpen /\ "probe" \in answered /\ "keepalive" \notin answered
    /\ wire' = wire \cup {[no |-> 1, kind |-> "keepalive", at |-> reply]}
    /\ answered' = answered \cup {"keepalive"}
    /\ UNCHANGED <<host, stalled, pathVars, pc, sent, addr, rx, udpOk, inTime, tcpVars>>

\* The calls of recvfrom that are left.
ReadsLeft ==
    IF pc \in {"send", "recv"} THEN Probes - sent + (IF pc = "recv" THEN 1 ELSE 0) ELSE 0

Arrive(m) ==
    /\ m \in wire /\ m.kind # "probe"
    /\ wire' = wire \ {m}
    /\ rx' = Append(rx, m)
    /\ inTime' = (inTime \/ (m.kind = "answer" /\ Len(rx) < ReadsLeft))
    /\ UNCHANGED <<hostVars, pc, sent, addr, udpOk, tcpVars>>

Lose(m) ==
    /\ m \in wire
    /\ wire' = wire \ {m}
    /\ UNCHANGED <<hostVars, pc, sent, addr, rx, udpOk, inTime, tcpVars>>

Establish ==
    /\ conn = "pending" /\ pc \in {"select", "quit"}
    /\ conn' = IF host = "on" /\ tcpOpen[addr] THEN "up" ELSE "failed"
    /\ UNCHANGED <<hostVars, pc, udpVars, tcpOk, line>>

\* The lobby server accepts, takes the mutex and handles the line.
HandleQuit ==
    /\ conn = "up" /\ line = "QUIT" /\ ~stalled
    /\ line' = "607"
    /\ answered' = answered \cup {"QUIT"}
    /\ UNCHANGED <<host, stalled, pathVars, pc, udpVars, tcpOk, conn>>

Test == SendProbe \/ RecvNothing \/ RecvProbe \/ Connect \/ Select \/ SendQuit \/ RecvAnswer
Environment ==
    \/ HostStart \/ HostListen \/ HostStop \/ Stall \/ Keepalive \/ Establish \/ HandleQuit
    \/ \E m \in wire : Probed(m) \/ Arrive(m) \/ Lose(m)

Next == Test \/ Environment

Spec == Init /\ [][Next]_vars

-----------------------------------------------------------------------------
(* Properties. *)

\* The two verdicts of the dialog are true.  Over UDP an answer counts if and
\* only if it comes before the last read, and not behind so many errors that none
\* is left for it; and TCP is fine only if a lobby server handled the QUIT.
Verdicts ==
    /\ pc \notin {"send", "recv"} => (udpOk <=> inTime)
    /\ tcpOk => "QUIT" \in answered
=============================================================================
