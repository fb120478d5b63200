----------------------------- MODULE PartsProofs -----------------------------
(***************************************************************************)
(* What holds of the small parts of MCParts for every value of the         *)
(* constants, each from an invariant of its own: a part changes only while *)
(* it runs, so that what one keeps the others cannot break.                *)
(***************************************************************************)
EXTENDS MCParts, PointerVectorProofs, TLAPS

\* A step of the whole is one of each part, or none of that part.
LEMMA EachPart ==
    ASSUME [PartsNext]_partsVars
    PROVE  /\ [Next]_vars /\ [S!Next]_(S!vars) /\ [N!Next]_(N!vars)
           /\ [F!Next]_(F!vars) /\ [C!Next]_(C!vars) /\ [V!Next]_(V!vars)
<1> USE DEF partsVars, vectorVars, settingsVars, networkVars, frameVars, discVars
<1>1. [Next]_vars
  BY DEF PartsNext
<1>2. [S!Next]_(S!vars)
  BY DEF PartsNext, S!vars, S!procVars, S!history
<1>3. [N!Next]_(N!vars)
  BY DEF PartsNext, N!vars, N!hostVars, N!pathVars, N!udpVars, N!tcpVars
<1>4. [F!Next]_(F!vars)
  BY DEF PartsNext, F!vars, F!hookVars, F!timeVars
<1>5. [C!Next]_(C!vars)
  BY DEF PartsNext, C!vars, C!args, C!history
<1>6. [V!Next]_(V!vars)
  BY DEF PartsNext, V!vars
<1> QED BY <1>1, <1>2, <1>3, <1>4, <1>5, <1>6

-----------------------------------------------------------------------------
(***************************************************************************)
(* AcceptLoop, for any number of connections.  Its properties need to know *)
(* what the slot holds at each step of the accept loop and that, while no  *)
(* thread has been late, every running thread's own connection exists.     *)
(***************************************************************************)
\* The slot holds the newest connection or, between an accept and the next
\* emplace_back, what it held before, or nothing.
SlotInv ==
    /\ loop = "appending" => accepted > 0 /\ slot \in {0, accepted - 1}
    /\ loop = "spawning" => accepted > 0
    /\ loop # "appending" => slot = accepted

\* Threads are made in the order of the connections, each after its own was
\* appended.
ThreadInv ==
    \A t \in Conn :
        /\ thread[t] # "none" =>
              t <= accepted /\ (loop # "accepting" => t < accepted)
        /\ thread[t] = "starting" => serves[t] = 0
        /\ serves[t] # 0 => thread[t] \in Busy \cup {"ended"}

\* While no thread was late each busy one has its own connection; it exists from
\* the emplace_back before the thread to the teardown by it.
OwnInv ==
    late = {} =>
        /\ loop = "spawning" => accepted \in connections
        /\ \A t \in Conn :
              /\ thread[t] \in Busy => serves[t] = t
              /\ thread[t] \in Busy \cup {"starting"} => t \in connections

IInv == TypeOK /\ SlotInv /\ ThreadInv /\ OwnInv /\ OwnUnlessLate /\ NeverEarlier /\ FaultHasCause

\* The loop begins in it.
LEMMA InitInv == Init => IInv
BY MaxConnAssumption
   DEF Init, IInv, TypeOK, Busy, Conn, SlotInv, ThreadInv, OwnInv, OwnUnlessLate,
       NeverEarlier, FaultHasCause

\* The accept loop's own steps.
LEMMA LoopStepInv ==
    ASSUME IInv, Accept \/ EmplaceBack \/ Detach
    PROVE  IInv'
<1> USE MaxConnAssumption
    DEF IInv, TypeOK, Busy, Conn, SlotInv, ThreadInv, OwnInv, OwnUnlessLate,
        NeverEarlier, FaultHasCause, serverVars, threadVars, New
<1>1. CASE Accept
  BY <1>1 DEF Accept
<1>2. CASE EmplaceBack
  BY <1>2 DEF EmplaceBack
<1>3. CASE Detach
  BY <1>3 DEF Detach
<1> QED BY <1>1, <1>2, <1>3

\* A thread that starts in time reads its own connection, any other a later one
\* or nothing.
LEMMA StartInv ==
    ASSUME IInv, NEW t \in Conn, Start(t)
    PROVE  IInv'
<1> USE MaxConnAssumption DEF IInv, TypeOK, Busy, Conn, Start, serverVars
<1>1. t <= accepted /\ (loop # "accepting" => t < accepted)
  BY DEF ThreadInv
<1>2. slot # 0 => slot >= t
  BY <1>1 DEF SlotInv
<1>3. t = accepted => slot = t /\ t # 0
  BY <1>1 DEF SlotInv
<1>4. TypeOK' /\ SlotInv' /\ ThreadInv'
  BY DEF SlotInv, ThreadInv
<1>5. late' = {} => late = {} /\ t = accepted
  OBVIOUS
<1>6. OwnInv'
  BY <1>3, <1>5 DEF OwnInv
<1>7. OwnUnlessLate' /\ NeverEarlier' /\ FaultHasCause'
  BY <1>2, <1>3 DEF OwnUnlessLate, NeverEarlier, FaultHasCause
<1> QED BY <1>4, <1>6, <1>7

\* A thread that serves or closes; only its own connection is destroyed by it
\* as long as none was late.
LEMMA ThreadStepInv ==
    ASSUME IInv, NEW t \in Conn, Dangle(t) \/ Hangup(t) \/ Leave(t) \/ Teardown(t)
    PROVE  IInv'
<1> USE MaxConnAssumption
    DEF IInv, TypeOK, Busy, Conn, SlotInv, ThreadInv, OwnInv, OwnUnlessLate,
        NeverEarlier, FaultHasCause, serverVars, threadVars
<1>1. CASE Dangle(t)
  BY <1>1 DEF Dangle
<1>2. CASE Hangup(t)
  BY <1>2 DEF Hangup
<1>3. CASE Leave(t)
  BY <1>3 DEF Leave
<1>4. CASE Teardown(t)
  <2>1. UNCHANGED <<accepted, loop, slot, connected, serves, fault, late>>
    BY <1>4 DEF Teardown
  <2>2. connections' = connections \ {serves[t]} /\ thread' = [thread EXCEPT ![t] = "ended"]
    BY <1>4 DEF Teardown, Destroyed
  <2>3. TypeOK' /\ SlotInv' /\ ThreadInv' /\ NeverEarlier' /\ FaultHasCause' /\ OwnUnlessLate'
    <3>1. TypeOK'
      BY <2>1, <2>2
    <3>2. SlotInv' /\ NeverEarlier' /\ FaultHasCause'
      BY <2>1
    <3>3. ThreadInv' /\ OwnUnlessLate'
      BY <2>1, <2>2, <1>4 DEF Teardown
    <3> QED BY <3>1, <3>2, <3>3
  <2>4. thread[t] = "closing" /\ (late = {} => serves[t] = t)
    BY <1>4 DEF Teardown
  <2>5. ASSUME late = {}, loop = "spawning" PROVE accepted \in connections'
    <3>1. t < accepted /\ accepted \in connections
      BY <2>4, <2>5
    <3> QED BY <2>2, <2>4, <2>5, <3>1
  <2>6. ASSUME late = {}, NEW u \in Conn, thread'[u] \in Busy \cup {"starting"}
        PROVE  u \in connections' /\ (thread'[u] \in Busy => serves[u] = u)
    BY <2>2, <2>4, <2>6
  <2>7. OwnInv'
    BY <2>1, <2>5, <2>6
  <2> QED BY <2>3, <2>7
<1> QED BY <1>1, <1>2, <1>3, <1>4

\* So the invariant holds throughout.
THEOREM AcceptInv == Spec => []IInv
<1>1. IInv /\ [Next]_vars => IInv'
  <2> SUFFICES ASSUME IInv, [Next]_vars PROVE IInv'
    OBVIOUS
  <2>1. CASE UNCHANGED vars
    BY <2>1 DEF IInv, TypeOK, Busy, Conn, SlotInv, ThreadInv, OwnInv, OwnUnlessLate,
                NeverEarlier, FaultHasCause, vars, serverVars, threadVars
  <2>2. CASE Accept \/ EmplaceBack \/ Detach
    BY <2>2, LoopStepInv
  <2>3. ASSUME NEW t \in Conn, Start(t) PROVE IInv'
    BY <2>3, StartInv
  <2>4. ASSUME NEW t \in Conn, Dangle(t) \/ Hangup(t) \/ Leave(t) \/ Teardown(t) PROVE IInv'
    BY <2>4, ThreadStepInv
  <2> QED BY <2>1, <2>2, <2>3, <2>4 DEF Next
<1> QED BY InitInv, <1>1, PTL DEF Spec

\* Types: in particular nobody is given a connection that was not accepted yet.
THEOREM AcceptTypeCorrect == Spec => []TypeOK
BY AcceptInv, PTL DEF IInv

\* Without a late thread everyone serves the connection it was made for.
THEOREM OwnCorrect == Spec => []OwnUnlessLate
BY AcceptInv, PTL DEF IInv

\* A late thread gets a later connection, never an earlier one.
THEOREM NeverEarlierCorrect == Spec => []NeverEarlier
BY AcceptInv, PTL DEF IInv

\* Without a late thread the server does not die of a pointer to a connection.
THEOREM FaultCorrect == Spec => []FaultHasCause
BY AcceptInv, PTL DEF IInv

-----------------------------------------------------------------------------
(***************************************************************************)
(* NetworkTest.  An answer is in time exactly if it stands among the       *)
(* datagrams that the reads left to the test will return, and a 607 over   *)
(* TCP is only ever the server's.                                          *)
(***************************************************************************)
Probing == testAt \in {"send", "recv"}

NetworkInv ==
    /\ N!TypeOK
    /\ testAt = "send" => probed < Probes
    /\ Probing => ~udpOk /\ (inTime <=> \E i \in 1 .. Len(rx) : i <= N!ReadsLeft /\ rx[i].kind = "answer")
    /\ line = "607" => "QUIT" \in answered
    /\ N!Verdicts

\* The test begins in it.
LEMMA NetworkInit == N!Init => NetworkInv
<1> SUFFICES ASSUME N!Init PROVE NetworkInv
  OBVIOUS
<1>1. rx = <<>> /\ rx \in Seq(N!Datagram) /\ Len(rx) = 0 /\ DOMAIN rx = {}
  BY DEF N!Init
<1>2. N!TypeOK
  <2>1. Asked \in HostAddr /\ Probes \in Nat
    BY PartsAssumption
  <2>2. \A i \in DOMAIN rx : rx[i].kind # "probe"
    BY <1>1
  <2>3. probed \in 0 .. Probes /\ addr \in HostAddr /\ wire \subseteq N!Datagram
    BY <2>1 DEF N!Init
  <2>4. /\ host \in {"off", "udp", "on"} /\ testAt = "send" /\ conn = "none" /\ line = "none"
        /\ answered = {} /\ udpOk = FALSE /\ tcpOk = FALSE /\ inTime = FALSE
        /\ stalled \in BOOLEAN /\ udpOpen \in BOOLEAN /\ tcpOpen \in [HostAddr -> BOOLEAN] /\ reply \in HostAddr
    BY DEF N!Init
  <2> QED BY <1>1, <2>2, <2>3, <2>4 DEF N!TypeOK
<1>3. ~inTime /\ ~\E i \in 1 .. Len(rx) : i <= N!ReadsLeft /\ rx[i].kind = "answer"
  BY <1>1 DEF N!Init
<1>4. testAt = "send" /\ probed = 0 /\ ~udpOk /\ ~tcpOk /\ line = "none"
  BY DEF N!Init
<1>5. probed < Probes
  BY <1>4, PartsAssumption
<1> QED BY <1>2, <1>3, <1>4, <1>5 DEF NetworkInv, Probing, N!Verdicts

\* What a sequence of datagrams is without its first, and with one more.
LEMMA RxFacts ==
    ASSUME NEW D, NEW s \in Seq(D)
    PROVE  /\ Len(s) \in Nat
           /\ s # <<>> => /\ Head(s) = s[1] /\ 1 \in 1 .. Len(s) /\ Tail(s) \in Seq(D)
                          /\ Len(Tail(s)) = Len(s) - 1
                          /\ \A i \in 1 .. Len(s) - 1 : Tail(s)[i] = s[i + 1]
           /\ \A x \in D : /\ Append(s, x) \in Seq(D) /\ Len(Append(s, x)) = Len(s) + 1
                           /\ \A i \in 1 .. Len(s) : Append(s, x)[i] = s[i]
                           /\ Append(s, x)[Len(s) + 1] = x
OBVIOUS

\* A read takes the first datagram, and there is one read less.
LEMMA NetworkReads ==
    ASSUME NetworkInv, N!RecvNothing \/ N!RecvProbe
    PROVE  NetworkInv'
<1> USE PartsAssumption
<1>1. testAt = "recv" /\ probed \in 0 .. Probes /\ rx \in Seq(N!Datagram) /\ ~udpOk
  BY DEF N!RecvNothing, N!RecvProbe, NetworkInv, N!TypeOK, Probing
<1>2. inTime <=> \E i \in 1 .. Len(rx) : i <= Probes - probed + 1 /\ rx[i].kind = "answer"
  BY <1>1 DEF NetworkInv, Probing, N!ReadsLeft
<1>3. CASE N!RecvNothing
  <2>1. rx = <<>> /\ N!NextRound /\ UNCHANGED <<N!hostVars, N!udpVars, N!tcpVars>>
    BY <1>3 DEF N!RecvNothing
  <2>2. ~inTime
    BY <1>2, <2>1
  <2> QED BY <1>1, <2>1, <2>2 DEF N!NextRound, N!More, NetworkInv, N!TypeOK, Probing, N!Verdicts,
                     N!hostVars, N!pathVars, N!udpVars, N!tcpVars
<1>4. CASE N!RecvProbe
  <2>1. /\ rx # <<>> /\ rx' = Tail(rx)
        /\ addr' = IF Head(rx).kind = "error" THEN addr ELSE Head(rx).at
        /\ udpOk' = (Head(rx).kind = "answer")
        /\ IF udpOk' THEN testAt' = "connect" ELSE N!NextRound
        /\ UNCHANGED <<N!hostVars, probed, wire, inTime, N!tcpVars>>
    BY <1>4 DEF N!RecvProbe, N!Accept
  <2>2. /\ Len(rx) \in Nat /\ Head(rx) = rx[1] /\ 1 \in 1 .. Len(rx) /\ rx' \in Seq(N!Datagram)
        /\ Len(rx') = Len(rx) - 1 /\ \A i \in 1 .. Len(rx) - 1 : rx'[i] = rx[i + 1]
    BY <1>1, <2>1, RxFacts
  <2>3. Head(rx) \in N!Datagram
    BY <1>1, <2>1
  <2>4. N!TypeOK'
    <3>1. addr' \in HostAddr
      BY <2>1, <2>3 DEF N!Datagram, NetworkInv, N!TypeOK
    <3>2. \A i \in DOMAIN rx' : rx'[i].kind # "probe"
      <4>1. DOMAIN rx = 1 .. Len(rx) /\ DOMAIN rx' = 1 .. Len(rx')
        BY <1>1, <2>2
      <4>2. \A i \in 1 .. Len(rx') : i + 1 \in 1 .. Len(rx) /\ rx'[i] = rx[i + 1]
        BY <2>2
      <4>3. \A i \in 1 .. Len(rx) : rx[i].kind # "probe"
        BY <4>1 DEF NetworkInv, N!TypeOK
      <4> QED BY <4>1, <4>2, <4>3
    <3>3. udpOk' \in BOOLEAN /\ testAt' \in {"send", "connect"}
      BY <2>1 DEF N!NextRound
    <3> QED BY <2>1, <2>2, <3>1, <3>2, <3>3
            DEF NetworkInv, N!TypeOK, N!hostVars, N!pathVars, N!udpVars, N!tcpVars
  <2>5. CASE Head(rx).kind = "answer"
    <3>1. inTime
      BY <1>1, <1>2, <2>2, <2>5
    <3> QED BY <2>1, <2>4, <2>5, <3>1 DEF NetworkInv, Probing, N!Verdicts, N!hostVars, N!pathVars, N!tcpVars
  <2>6. CASE Head(rx).kind # "answer"
    <3>1. inTime <=> \E i \in 1 .. Len(rx') : i <= Probes - probed /\ rx'[i].kind = "answer"
      <4>1. ASSUME inTime PROVE \E i \in 1 .. Len(rx') : i <= Probes - probed /\ rx'[i].kind = "answer"
        <5>1. PICK i \in 1 .. Len(rx) : i <= Probes - probed + 1 /\ rx[i].kind = "answer"
          BY <1>2, <4>1
        <5>2. i # 1
          BY <2>2, <2>6, <5>1
        <5>3. /\ i - 1 \in 1 .. Len(rx) - 1 /\ i - 1 <= Probes - probed /\ (i - 1) + 1 = i
          BY <1>1, <2>2, <5>1, <5>2
        <5> QED BY <2>2, <5>1, <5>3
      <4>2. ASSUME NEW i \in 1 .. Len(rx'), i <= Probes - probed, rx'[i].kind = "answer" PROVE inTime
        <5>1. i + 1 \in 1 .. Len(rx) /\ i + 1 <= Probes - probed + 1 /\ rx[i + 1].kind = "answer"
          BY <1>1, <2>2, <4>2
        <5> QED BY <1>2, <5>1
      <4> QED BY <4>1, <4>2
    <3>2. ~udpOk' /\ inTime' = inTime /\ probed' = probed /\ N!NextRound
      BY <2>1, <2>6
    <3>3. CASE probed < Probes
      <4>1. testAt' = "send" /\ N!ReadsLeft' = Probes - probed
        BY <1>1, <3>2, <3>3 DEF N!NextRound, N!More, N!ReadsLeft
      <4> QED BY <2>1, <2>4, <3>1, <3>2, <3>3, <4>1
              DEF NetworkInv, Probing, N!Verdicts, N!hostVars, N!pathVars, N!tcpVars
    <3>4. CASE ~(probed < Probes)
      <4>1. testAt' = "connect" /\ ~inTime
        BY <1>1, <3>1, <3>2, <3>4 DEF N!NextRound, N!More
      <4> QED BY <2>1, <2>4, <3>2, <4>1
              DEF NetworkInv, Probing, N!Verdicts, N!hostVars, N!pathVars, N!tcpVars
    <3> QED BY <3>3, <3>4
  <2> QED BY <2>5, <2>6
<1> QED BY <1>3, <1>4

\* So do the other steps of the test.
LEMMA NetworkTests ==
    ASSUME NetworkInv,
           N!SendProbe \/ N!Connect \/ N!Select \/ N!SendQuit \/ N!RecvAnswer
    PROVE  NetworkInv'
<1> USE PartsAssumption
<1>1. CASE N!SendProbe
  <2>1. /\ testAt = "send" /\ testAt' = "recv" /\ probed' = probed + 1
        /\ wire' = wire \cup {[no |-> probed', kind |-> "probe", at |-> addr]}
        /\ UNCHANGED <<N!hostVars, addr, rx, udpOk, inTime, N!tcpVars>>
    BY <1>1 DEF N!SendProbe
  <2>2. probed \in 0 .. Probes /\ probed < Probes /\ addr \in HostAddr /\ wire \subseteq N!Datagram
    BY <2>1 DEF NetworkInv, N!TypeOK
  <2>3. probed' \in 1 .. Probes /\ wire' \subseteq N!Datagram
    BY <2>1, <2>2 DEF N!Datagram
  <2>4. N!ReadsLeft' = N!ReadsLeft
    BY <2>1, <2>2 DEF N!ReadsLeft
  <2>5. N!TypeOK'
    BY <2>1, <2>3 DEF NetworkInv, N!TypeOK, N!hostVars, N!pathVars, N!tcpVars
  <2> QED BY <2>1, <2>4, <2>5 DEF NetworkInv, Probing, N!Verdicts, N!hostVars, N!pathVars, N!tcpVars
<1>2. CASE N!Connect \/ N!Select \/ N!SendQuit \/ N!RecvAnswer
  <2>1. /\ testAt \notin {"send", "recv"} /\ testAt' \in {"select", "quit", "answer", "done"}
        /\ UNCHANGED <<N!hostVars, N!udpVars>>
        /\ conn' \in {conn, "pending"} /\ line' \in {line, "QUIT"}
    BY <1>2 DEF N!Connect, N!Select, N!SendQuit, N!RecvAnswer, N!tcpVars
  <2>2. tcpOk' \in BOOLEAN /\ (tcpOk' => "QUIT" \in answered)
    <3>1. tcpOk \in BOOLEAN /\ (tcpOk \/ line = "607" => "QUIT" \in answered)
      BY DEF NetworkInv, N!TypeOK, N!Verdicts
    <3>2. CASE N!RecvAnswer
      BY <3>1, <3>2 DEF N!RecvAnswer
    <3>3. CASE N!Connect \/ N!Select \/ N!SendQuit
      BY <3>1, <3>3 DEF N!Connect, N!Select, N!SendQuit, N!tcpVars
    <3> QED BY <1>2, <3>2, <3>3
  <2>3. N!TypeOK'
    BY <2>1, <2>2 DEF NetworkInv, N!TypeOK, N!hostVars, N!pathVars, N!udpVars
  <2> QED BY <2>1, <2>2, <2>3 DEF NetworkInv, Probing, N!Verdicts, N!hostVars, N!udpVars
<1> QED BY <1>1, <1>2

\* And what the host and the network do.
LEMMA NetworkEnvironment ==
    ASSUME NetworkInv, N!Environment
    PROVE  NetworkInv'
<1> USE PartsAssumption
<1>1. CASE N!HostStart \/ N!HostListen \/ N!HostStop \/ N!Stall \/ N!Establish \/ N!HandleQuit
  <2>1. /\ UNCHANGED <<N!pathVars, testAt, N!udpVars, tcpOk>>
        /\ host' \in {"off", "udp", "on", host}
        /\ conn' \in {conn, "up", "failed"}
        /\ \/ line' \in {line, "none"} /\ answered' = answered
           \/ line' = "607" /\ answered' = answered \cup {"QUIT"}
    <3>1. CASE N!HostStart \/ N!HostListen
      BY <3>1 DEF N!HostStart, N!HostListen, N!tcpVars
    <3>2. CASE N!HostStop
      BY <3>2 DEF N!HostStop, N!tcpVars
    <3>3. CASE N!Stall
      BY <3>3 DEF N!Stall, N!tcpVars
    <3>4. CASE N!Establish
      BY <3>4 DEF N!Establish, N!hostVars
    <3>5. CASE N!HandleQuit
      BY <3>5 DEF N!HandleQuit
    <3> QED BY <1>1, <3>1, <3>2, <3>3, <3>4, <3>5
  <2>2. stalled' \in BOOLEAN
    BY <1>1 DEF N!HostStart, N!HostListen, N!HostStop, N!Stall, N!Establish, N!HandleQuit, N!hostVars,
                NetworkInv, N!TypeOK
  <2>3. N!ReadsLeft' = N!ReadsLeft
    BY <2>1 DEF N!ReadsLeft, N!udpVars
  <2>4. N!TypeOK'
    <3>1. host' \in {"off", "udp", "on"} /\ conn' \in {"none", "pending", "up", "failed"}
      BY <2>1 DEF NetworkInv, N!TypeOK
    <3>2. line' \in {"none", "QUIT", "607"} /\ answered' \subseteq {"probe", "QUIT", "keepalive"}
      BY <2>1 DEF NetworkInv, N!TypeOK
    <3>3. UNCHANGED <<N!pathVars, testAt, N!udpVars, tcpOk>>
      BY <2>1
    <3> QED BY <2>2, <3>1, <3>2, <3>3 DEF NetworkInv, N!TypeOK, N!pathVars, N!udpVars
  <2> QED BY <2>1, <2>3, <2>4 DEF NetworkInv, Probing, N!Verdicts, N!pathVars, N!udpVars
<1>2. CASE N!Keepalive \/ \E m \in wire : N!Probed(m) \/ N!Lose(m)
  <2>1. /\ UNCHANGED <<host, stalled, N!pathVars, testAt, probed, addr, rx, udpOk, inTime, N!tcpVars>>
        /\ answered \subseteq answered' /\ answered' \subseteq answered \cup {"probe", "keepalive"}
    BY <1>2 DEF N!Keepalive, N!Probed, N!Lose, N!hostVars
  <2>2. wire' \subseteq N!Datagram
    <3>1. wire \subseteq N!Datagram /\ reply \in HostAddr
      BY DEF NetworkInv, N!TypeOK
    <3>2. CASE N!Keepalive
      BY <3>1, <3>2 DEF N!Keepalive, N!Datagram
    <3>3. ASSUME NEW m \in wire, N!Probed(m) PROVE wire' \subseteq N!Datagram
      <4>1. m \in N!Datagram
        BY <3>1
      <4>2. [m EXCEPT !.kind = "error"] \in N!Datagram
        BY <4>1 DEF N!Datagram
      <4>3. [m EXCEPT !.kind = "answer", !.at = reply] \in N!Datagram
        BY <3>1, <4>1 DEF N!Datagram
      <4> QED BY <3>1, <3>3, <4>2, <4>3 DEF N!Probed
    <3>4. ASSUME NEW m \in wire, N!Lose(m) PROVE wire' \subseteq N!Datagram
      BY <3>1, <3>4 DEF N!Lose
    <3> QED BY <1>2, <3>2, <3>3, <3>4
  <2>3. N!ReadsLeft' = N!ReadsLeft
    BY <2>1 DEF N!ReadsLeft
  <2>4. N!TypeOK'
    BY <2>1, <2>2 DEF NetworkInv, N!TypeOK, N!pathVars, N!tcpVars
  <2> QED BY <2>1, <2>3, <2>4 DEF NetworkInv, Probing, N!Verdicts, N!tcpVars
<1>3. ASSUME NEW m \in wire, N!Arrive(m) PROVE NetworkInv'
  <2>1. /\ m.kind # "probe" /\ wire' = wire \ {m} /\ rx' = Append(rx, m)
        /\ inTime' = (inTime \/ (m.kind = "answer" /\ Len(rx) < N!ReadsLeft))
        /\ UNCHANGED <<N!hostVars, testAt, probed, addr, udpOk, N!tcpVars>>
    BY <1>3 DEF N!Arrive
  <2>2. m \in N!Datagram /\ rx \in Seq(N!Datagram) /\ probed \in 0 .. Probes
    BY DEF NetworkInv, N!TypeOK
  <2>3. /\ Len(rx) \in Nat /\ rx' \in Seq(N!Datagram) /\ Len(rx') = Len(rx) + 1
        /\ \A i \in 1 .. Len(rx) : rx'[i] = rx[i]
        /\ rx'[Len(rx) + 1] = m
    BY <2>1, <2>2, RxFacts
  <2>4. N!ReadsLeft' = N!ReadsLeft /\ N!ReadsLeft \in Int
    BY <2>1, <2>2 DEF N!ReadsLeft
  <2>5. N!TypeOK'
    <3>1. \A i \in DOMAIN rx' : rx'[i].kind # "probe"
      BY <2>1, <2>2, <2>3 DEF NetworkInv, N!TypeOK
    <3>2. wire' \subseteq N!Datagram /\ inTime' \in BOOLEAN
      BY <2>1 DEF NetworkInv, N!TypeOK
    <3> QED BY <2>1, <2>3, <3>1, <3>2 DEF NetworkInv, N!TypeOK, N!hostVars, N!pathVars, N!tcpVars
  <2>6. CASE Probing
    <3> DEFINE R == N!ReadsLeft
               W(s) == \E i \in 1 .. Len(s) : i <= R /\ s[i].kind = "answer"
    <3>1. inTime <=> W(rx)
      BY <2>6 DEF NetworkInv
    <3> HIDE DEF R
    <3>2. W(rx') <=> W(rx) \/ (m.kind = "answer" /\ Len(rx) < R)
      <4>1. R \in Int
        BY <2>4 DEF R
      <4>2. \A i \in 1 .. Len(rx') : i \in 1 .. Len(rx) \/ i = Len(rx) + 1
        BY <2>3
      <4>3. Len(rx) + 1 \in 1 .. Len(rx') /\ \A i \in 1 .. Len(rx) : i \in 1 .. Len(rx')
        BY <2>3
      <4>4. Len(rx) + 1 <= R <=> Len(rx) < R
        BY <2>3, <4>1
      <4> QED BY <2>3, <4>2, <4>3, <4>4
    <3>3. inTime' <=> W(rx')
      BY <2>1, <3>1, <3>2 DEF R
    <3>4. inTime' <=> \E i \in 1 .. Len(rx') : i <= N!ReadsLeft' /\ rx'[i].kind = "answer"
      BY <2>4, <3>3 DEF R
    <3> QED BY <2>1, <2>5, <2>6, <3>4 DEF NetworkInv, Probing, N!Verdicts, N!hostVars, N!tcpVars
  <2>7. CASE ~Probing
    <3>1. N!ReadsLeft = 0 /\ inTime' = inTime
      BY <2>1, <2>3, <2>7 DEF Probing, N!ReadsLeft, NetworkInv, N!TypeOK
    <3> QED BY <2>1, <2>5, <2>7, <3>1 DEF NetworkInv, Probing, N!Verdicts, N!hostVars, N!tcpVars
  <2> QED BY <2>6, <2>7
<1> QED BY <1>1, <1>2, <1>3 DEF N!Environment

\* The invariant of the network test holds throughout.
LEMMA NetworkCorrect == PartsSpec => []NetworkInv
<1>1. PartsInit => NetworkInv
  BY NetworkInit DEF PartsInit
<1>2. NetworkInv /\ [PartsNext]_partsVars => NetworkInv'
  <2> SUFFICES ASSUME NetworkInv, [PartsNext]_partsVars PROVE NetworkInv'
    OBVIOUS
  <2>1. CASE N!Next
    BY <2>1, NetworkReads, NetworkTests, NetworkEnvironment DEF N!Next, N!Test
  <2>2. CASE UNCHANGED N!vars
    BY <2>2 DEF NetworkInv, N!TypeOK, Probing, N!Verdicts, N!ReadsLeft,
                N!vars, N!hostVars, N!pathVars, N!udpVars, N!tcpVars
  <2> QED BY <2>1, <2>2, EachPart
<1> QED BY <1>1, <1>2, PTL DEF PartsSpec

\* What the dialog says of the connection is true, however many probes are sent
\* and whatever is lost, delayed or reordered: UDP works if and only if an answer
\* came while a read was left for it, and TCP if a lobby server handled the QUIT.
THEOREM VerdictsCorrect == PartsSpec => []Verdicts
BY NetworkCorrect, PTL DEF NetworkInv, Verdicts

-----------------------------------------------------------------------------
(***************************************************************************)
(* CdCheck.  While a check goes on there is something to check, a look is  *)
(* left, the looks taken are those counted, and none has seen the right    *)
(* disc.                                                                   *)
(***************************************************************************)
DiscInv ==
    /\ C!TypeOK
    /\ checkAt # "idle" => C!Checked(cdIndex) /\ looks < C!Looks
    /\ checkAt = "look" => taken = looks
    /\ taken = 0 => seen = {}
    /\ checkAt = "sleep" => taken = looks + 1 /\ ~result
    /\ C!CheckIsRight

\* The label of a disc is that of the disc that belongs to the number.
LEMMA WantedBelongs ==
    ASSUME C!TypeOK, C!Checked(cdIndex)
    PROVE  \A d \in C!Discs \cup {"none"} : d \in C!Wanted <=> d # "none" /\ C!Belongs(cdIndex, d)
<1>1. cdIndex \in C!Bits \cup {C!AnyCd}
  BY DEF C!TypeOK, C!Checked
<1>2. CASE cdIndex = C!AnyCd
  BY <1>2 DEF C!Wanted, C!Belongs, C!Discs, C!House
<1>3. CASE cdIndex # C!AnyCd
  <2>1. C!Wanted = {C!Label(cdIndex)}
    BY <1>3 DEF C!Wanted
  <2>2. \A d : C!Belongs(cdIndex, d) <=> d = C!Label(cdIndex)
    BY <1>1, <1>3 DEF C!Bits, C!AnyCd, C!Belongs, C!Label
  <2>3. C!Label(cdIndex) # "none"
    BY <1>1, <1>3 DEF C!Bits, C!AnyCd, C!Label
  <2> QED BY <2>1, <2>2, <2>3
<1> QED BY <1>2, <1>3

\* No check has been made at first.
LEMMA DiscInit == C!Init => DiscInv
<1> SUFFICES ASSUME C!Init PROVE DiscInv
  OBVIOUS
<1>1. /\ cdIndex = 0 /\ patient = FALSE /\ looks = 0 /\ checkAt = "idle" /\ result = TRUE /\ seen = {} /\ taken = 0
      /\ music \in SUBSET C!House /\ disc \in C!Discs \cup {"none"}
  BY DEF C!Init
<1>2. path \in [C!Bits \cup {C!AnyCd} -> C!Places]
  <2>1. \A cd \in C!Bits : C!CfgInstalled(cd) \in C!Places
    BY DEF C!Bits, C!CfgInstalled, C!Label, C!Places, C!House
  <2>2. PICK any \in C!House :
          \/ path = [cd \in C!Bits \cup {C!AnyCd} |-> "drive"]
          \/ path = [cd \in C!Bits \cup {C!AnyCd} |-> IF cd = C!AnyCd THEN any ELSE C!CfgInstalled(cd)]
          \/ path = [cd \in C!Bits \cup {C!AnyCd} |-> IF cd = C!AnyCd THEN any ELSE "null"]
    BY DEF C!Init
  <2>3. any \in C!Places /\ "drive" \in C!Places /\ "null" \in C!Places
    BY DEF C!Places
  <2> QED BY <2>1, <2>2, <2>3
<1>3. C!TypeOK
  <2>1. Retries \in Nat /\ cdIndex # C!AnyCd /\ cdIndex \in 0 .. 15
    BY <1>1, PartsAssumption DEF C!AnyCd
  <2>2. looks \in 0 .. IF cdIndex = C!AnyCd THEN Limit ELSE Retries
    BY <1>1, <2>1
  <2>3. music \subseteq C!House /\ seen \subseteq C!Discs \cup {"none"} /\ disc \in C!Discs \cup {"none"}
    BY <1>1
  <2>4. taken \in Nat /\ patient \in BOOLEAN /\ result \in BOOLEAN /\ checkAt \in {"idle", "look", "sleep"}
    BY <1>1
  <2> QED BY <1>2, <2>1, <2>2, <2>3, <2>4 DEF C!TypeOK
<1>4. ~C!Checked(cdIndex)
  BY <1>1, <1>2 DEF C!Checked, C!Bits, C!AnyCd
<1> QED BY <1>1, <1>3, <1>4 DEF DiscInv, C!CheckIsRight

\* A check looks once more after each look that fails, but for the last.
LEMMA DiscStep == DiscInv /\ [C!Next]_(C!vars) => DiscInv'
<1> SUFFICES ASSUME DiscInv, [C!Next]_(C!vars) PROVE DiscInv'
  OBVIOUS
<1>0. /\ Retries \in Nat /\ Limit \in Nat \ {0}
      /\ path \in [C!Bits \cup {C!AnyCd} -> C!Places]
      /\ music \subseteq C!House /\ disc \in C!Discs \cup {"none"}
      /\ seen \subseteq C!Discs \cup {"none"} /\ taken \in Nat
      /\ cdIndex \in 0 .. 15 /\ patient \in BOOLEAN /\ result \in BOOLEAN
      /\ looks \in 0 .. IF cdIndex = C!AnyCd THEN Limit ELSE Retries
  BY PartsAssumption DEF DiscInv, C!TypeOK
<1>1. ASSUME NEW cd \in C!Bits \cup {0, 3, C!AnyCd}, NEW a2 \in BOOLEAN, C!doCdCheck(cd, a2) PROVE DiscInv'
  <2>1. /\ cdIndex' = cd /\ patient' = a2 /\ looks' = 0 /\ seen' = {} /\ taken' = 0
        /\ checkAt' = (IF C!Checked(cd) THEN "look" ELSE "idle")
        /\ result' = ~C!Checked(cd)
        /\ UNCHANGED <<path, music, disc>>
    BY <1>1 DEF C!doCdCheck
  <2>2. C!TypeOK'
    <3>1. cd \in 0 .. 15
      BY DEF C!Bits, C!AnyCd
    <3>2. result' \in BOOLEAN /\ checkAt' \in {"idle", "look", "sleep"}
      BY <2>1
    <3>3. cdIndex' \in 0 .. 15 /\ patient' \in BOOLEAN /\ seen' \subseteq C!Discs \cup {"none"}
      BY <1>0, <2>1, <3>1
    <3>4. looks' \in 0 .. IF cdIndex' = C!AnyCd THEN Limit ELSE Retries
      BY <1>0, <2>1
    <3>5. UNCHANGED <<path, music, disc>> /\ taken' \in Nat
      BY <2>1
    <3> QED BY <1>0, <3>2, <3>3, <3>4, <3>5 DEF C!TypeOK
  <2>3. 0 < C!Looks'
    BY <1>0, <2>1 DEF C!Looks
  <2>4. C!Checked(cdIndex)' <=> C!Checked(cd)
    BY <2>1 DEF C!Checked
  <2> QED BY <2>1, <2>2, <2>3, <2>4 DEF DiscInv, C!CheckIsRight
<1>2. CASE C!Look
  <2>1. /\ checkAt = "look" /\ result' = C!Ok /\ checkAt' = (IF C!Ok THEN "idle" ELSE "sleep")
        /\ seen' = seen \cup {disc} /\ taken' = taken + 1
        /\ UNCHANGED <<path, music, disc, cdIndex, patient, looks>>
    BY <1>2 DEF C!Look, C!args
  <2>2. C!Checked(cdIndex) /\ looks < C!Looks /\ taken = looks
    BY <2>1 DEF DiscInv
  <2>3. C!TypeOK'
    <3>1. C!Ok \in BOOLEAN
      <4>1. CASE path[cdIndex] = "drive"
        <5>1. C!Ok = (disc \in C!Wanted)
          BY <4>1 DEF C!Ok
        <5> QED BY <5>1
      <4>2. CASE path[cdIndex] # "drive"
        <5>1. C!Ok = (path[cdIndex] \in music)
          BY <4>2 DEF C!Ok
        <5> QED BY <5>1
      <4> QED BY <4>1, <4>2
    <3> QED BY <1>0, <2>1, <3>1 DEF C!TypeOK
  <2>4. disc \in C!Wanted <=> disc # "none" /\ C!Belongs(cdIndex, disc)
    BY <1>0, <2>2, WantedBelongs DEF DiscInv
  <2>5. C!SeenRight' <=> C!Ok
    <3>1. CASE path[cdIndex] = "drive"
      <4>1. taken > 0 => ~\E d \in seen \ {"none"} : C!Belongs(cdIndex, d)
        BY <2>1, <2>2, <3>1 DEF DiscInv, C!CheckIsRight, C!SeenRight
      <4>2. taken = 0 => seen = {}
        BY <2>1 DEF DiscInv
      <4>3. C!SeenRight' <=> \E d \in (seen \cup {disc}) \ {"none"} : C!Belongs(cdIndex, d)
        BY <2>1, <3>1 DEF C!SeenRight, C!Belongs
      <4>4. C!Ok <=> disc \in C!Wanted
        BY <3>1 DEF C!Ok
      <4> QED BY <1>0, <2>4, <4>1, <4>2, <4>3, <4>4
    <3>2. CASE path[cdIndex] # "drive"
      BY <2>1, <3>2 DEF C!Ok, C!SeenRight
    <3> QED BY <3>1, <3>2
  <2>6. C!Checked(cdIndex)' /\ C!Looks' = C!Looks
    BY <2>1, <2>2 DEF C!Checked, C!Looks
  <2>7. CASE C!Ok
    BY <1>0, <2>1, <2>2, <2>3, <2>5, <2>7 DEF DiscInv, C!CheckIsRight
  <2>8. CASE ~C!Ok
    BY <1>0, <2>1, <2>2, <2>3, <2>5, <2>6, <2>8 DEF DiscInv, C!CheckIsRight
  <2> QED BY <2>7, <2>8
<1>3. CASE C!Wake
  <2>1. /\ checkAt = "sleep"
        /\ IF looks + 1 < C!Looks THEN checkAt' = "look" /\ looks' = looks + 1
                                  ELSE checkAt' = "idle" /\ looks' = looks
        /\ UNCHANGED <<path, music, disc, cdIndex, patient, result, seen, taken>>
    BY <1>3 DEF C!Wake, C!args, C!history
  <2>2. C!Checked(cdIndex) /\ looks < C!Looks /\ ~result /\ taken = looks + 1
    BY <2>1 DEF DiscInv
  <2>3. C!Looks' = C!Looks /\ C!Checked(cdIndex)' /\ (C!SeenRight' <=> C!SeenRight)
    BY <2>1, <2>2 DEF C!Looks, C!Checked, C!SeenRight, C!Belongs
  <2>4. C!Looks <= (IF cdIndex = C!AnyCd THEN Limit ELSE Retries) + 1
    BY <1>0 DEF C!Looks
  <2>5. C!TypeOK'
    <3>1. looks' \in 0 .. IF cdIndex = C!AnyCd THEN Limit ELSE Retries
      <4>1. CASE cdIndex = C!AnyCd
        BY <1>0, <2>1, <2>2, <4>1 DEF C!Looks
      <4>2. CASE cdIndex # C!AnyCd
        BY <1>0, <2>1, <2>2, <4>2 DEF C!Looks
      <4> QED BY <4>1, <4>2
    <3>2. checkAt' \in {"idle", "look", "sleep"}
      BY <2>1
    <3> QED BY <1>0, <2>1, <3>1, <3>2 DEF C!TypeOK
  <2>6. ~C!SeenRight
    BY <1>0, <2>1, <2>2 DEF DiscInv, C!CheckIsRight
  <2>7. CASE looks + 1 < C!Looks
    BY <2>1, <2>2, <2>3, <2>5, <2>6, <2>7 DEF DiscInv, C!CheckIsRight
  <2>8. CASE ~(looks + 1 < C!Looks)
    <3>1. taken = IF cdIndex = C!AnyCd THEN Limit ELSE IF patient THEN 1 + Retries ELSE 1
      BY <1>0, <2>2, <2>8 DEF C!Looks
    <3>2. path[cdIndex] # "drive" => music # C!House
      <4>1. ASSUME path[cdIndex] # "drive" PROVE path[cdIndex] \in C!House
        BY <1>0, <2>2, <4>1 DEF C!Checked, C!Places
      <4> QED BY <2>6, <4>1 DEF C!SeenRight
    <3>3. C!CheckIsRight'
      BY <2>1, <2>2, <2>3, <2>6, <2>8, <3>1, <3>2 DEF C!CheckIsRight, C!AnyCd
    <3> QED BY <2>1, <2>5, <2>8, <3>3 DEF DiscInv
  <2> QED BY <2>7, <2>8
<1>4. ASSUME NEW d \in C!Discs \cup {"none"}, C!ChangeDisc(d) PROVE DiscInv'
  <2>1. disc' = d /\ UNCHANGED <<path, music, cdIndex, patient, looks, checkAt, result, seen, taken>>
    BY <1>4 DEF C!ChangeDisc, C!args, C!history
  <2>2. C!TypeOK'
    BY <1>0, <2>1 DEF C!TypeOK, DiscInv
  <2>3. C!CheckIsRight'
    BY <2>1 DEF DiscInv, C!CheckIsRight, C!SeenRight, C!Checked, C!Belongs, C!AnyCd
  <2> QED BY <2>1, <2>2, <2>3 DEF DiscInv, C!Checked, C!Looks
<1>5. CASE UNCHANGED C!vars
  BY <1>5 DEF DiscInv, C!TypeOK, C!Checked, C!Looks, C!CheckIsRight, C!SeenRight, C!Belongs, C!AnyCd,
              C!vars, C!args, C!history
<1> QED BY <1>1, <1>2, <1>3, <1>4, <1>5 DEF C!Next

\* The invariant of the CD check holds throughout.
LEMMA DiscCorrect == PartsSpec => []DiscInv
<1>1. PartsInit => DiscInv
  BY DiscInit DEF PartsInit
<1> QED BY <1>1, DiscStep, EachPart, PTL DEF PartsSpec

\* Whatever discs come and go, for any number of looks: a check ends at the first
\* look that finds the right disc in, and fails only after all its looks, none of
\* which did.
THEOREM CheckCorrect == PartsSpec => []CheckIsRight
BY DiscCorrect, PTL DEF DiscInv, CheckIsRight

-----------------------------------------------------------------------------
(***************************************************************************)
(* FrameLimiter.  A device has its EndScene hooked; while the limiter      *)
(* sleeps, the ticks gone by and those left to sleep make a frame's time   *)
(* but for less than a millisecond, and so they do when it has woken.      *)
(***************************************************************************)
FrameTime == Freq \div TargetFps

FrameInv ==
    /\ F!TypeOK
    /\ hasDevice \/ drawAt # "draw" => sceneHooks = 1
    /\ drawAt = "sleep" => since + wait + Ms > FrameTime
    /\ drawAt = "scene" => since + Ms > FrameTime

\* What division leaves is less than the divisor.
LEMMA DivisionFacts ==
    ASSUME NEW d \in Int, NEW m \in Nat \ {0}
    PROVE  d \div m \in Int /\ (d \div m) * m <= d /\ d < (d \div m) * m + m
OBVIOUS

\* The sleep ends no later than the frame's time, and at most by less than a
\* millisecond before it.
LEMMA SleepFacts ==
    ASSUME NEW t \in Nat
    PROVE  /\ FrameTime \in Nat /\ F!Remaining(t) * Ms \in Nat
           /\ F!Remaining(t) * Ms = 0 \/ t + F!Remaining(t) * Ms <= FrameTime
           /\ t + F!Remaining(t) * Ms + Ms > FrameTime
<1>1. Freq \in Nat /\ TargetFps \in Nat \ {0} /\ Ms \in Nat \ {0}
  BY PartsAssumption
<1>2. FrameTime \in Nat
  BY <1>1, DivisionFacts DEF FrameTime
<1> DEFINE d == FrameTime - t
           q == d \div Ms
<1>3. d \in Int /\ q \in Int /\ q * Ms <= d /\ d < q * Ms + Ms
  BY <1>1, <1>2, DivisionFacts
<1>4. CASE d > 0
  <2>1. F!Remaining(t) = q
    BY <1>4 DEF F!Remaining, FrameTime
  <2>2. q * Ms \in Nat
    <3>1. q >= 0
      BY <1>1, <1>3, <1>4
    <3> QED BY <1>1, <1>3, <3>1
  <2> HIDE DEF q
  <2> QED BY <1>1, <1>2, <1>3, <2>1, <2>2
<1>5. CASE ~(d > 0)
  <2>1. F!Remaining(t) = 0
    BY <1>5 DEF F!Remaining, FrameTime
  <2> QED BY <1>1, <1>2, <1>5, <2>1
<1> QED BY <1>4, <1>5

\* There is no device at first.
LEMMA FrameInit == F!Init => FrameInv
<1> SUFFICES ASSUME F!Init PROVE FrameInv
  OBVIOUS
<1>1. MaxTime \in Nat /\ 0 \in 0 .. MaxTime /\ 0 \in 0 .. 1
  BY PartsAssumption
<1>2. F!TypeOK
  BY <1>1 DEF F!Init, F!TypeOK
<1> QED BY <1>2 DEF F!Init, FrameInv

\* The detours are made once, with the first object and the first device, and a
\* tick takes from the sleep what it adds to the frame.
LEMMA FrameStep == FrameInv /\ [F!Next]_(F!vars) => FrameInv'
<1> SUFFICES ASSUME FrameInv, [F!Next]_(F!vars) PROVE FrameInv'
  OBVIOUS
<1>0. /\ Ms \in Nat \ {0} /\ FrameTime \in Nat /\ MaxTime \in Nat /\ MaxTime > FrameTime
      /\ createHooks \in 0 .. 1 /\ sceneHooks \in 0 .. 1
      /\ since \in 0 .. MaxTime /\ wait \in 0 .. MaxTime
  BY PartsAssumption, DivisionFacts DEF FrameInv, F!TypeOK, FrameTime
<1>1. ASSUME NEW got \in {"none", "2D", "3D"}, F!DirectDrawCreateEx(got) PROVE FrameInv'
  <2>1. /\ drawAt = "draw" /\ hasDevice' = FALSE /\ hasD3D' \in BOOLEAN /\ crashed' \in BOOLEAN
        /\ createHooks' \in 0 .. 1
        /\ UNCHANGED <<sceneHooks, since, drawAt, wait>>
    BY <1>0, <1>1 DEF F!DirectDrawCreateEx, F!Attach, F!timeVars
  <2> QED BY <2>1 DEF FrameInv, F!TypeOK
<1>2. ASSUME NEW ok \in BOOLEAN, F!CreateDevice(ok) PROVE FrameInv'
  <2>1. /\ drawAt = "draw" /\ hasDevice' = ok /\ crashed' \in BOOLEAN
        /\ sceneHooks' \in 0 .. 1 /\ (ok => sceneHooks' = 1) /\ since' \in 0 .. MaxTime
        /\ UNCHANGED <<createHooks, hasD3D, drawAt, wait>>
    BY <1>0, <1>2 DEF F!CreateDevice, F!Attach
  <2> QED BY <2>1 DEF FrameInv, F!TypeOK
<1>3. CASE F!EndScene
  <2>1. /\ hasDevice /\ drawAt' = "sleep" /\ wait' = F!Remaining(since) * Ms
        /\ UNCHANGED <<createHooks, sceneHooks, hasD3D, hasDevice, crashed, since>>
    BY <1>3 DEF F!EndScene, F!hookVars
  <2>2. since \in Nat
    BY <1>0
  <2>3. wait' \in Nat /\ (wait' = 0 \/ since + wait' <= FrameTime) /\ since + wait' + Ms > FrameTime
    BY <2>1, <2>2, SleepFacts
  <2>4. wait' \in 0 .. MaxTime
    <3>1. wait' <= FrameTime
      <4> DEFINE w == wait'
      <4>1. w \in Nat /\ (w = 0 \/ since + w <= FrameTime)
        BY <2>3
      <4> HIDE DEF w
      <4>2. w <= FrameTime
        BY <1>0, <2>2, <4>1
      <4> QED BY <4>2 DEF w
    <3> QED BY <1>0, <2>3, <3>1
  <2>5. F!TypeOK'
    BY <2>1, <2>4 DEF FrameInv, F!TypeOK
  <2>6. sceneHooks = 1
    BY <2>1 DEF FrameInv
  <2>7. FrameTime' = FrameTime
    BY DEF FrameTime
  <2> QED BY <2>1, <2>3, <2>5, <2>6, <2>7 DEF FrameInv
<1>4. CASE F!Wake
  BY <1>0, <1>4 DEF FrameInv, F!TypeOK, F!Wake, F!hookVars
<1>5. CASE F!Present
  BY <1>0, <1>5 DEF FrameInv, F!TypeOK, F!Present, F!hookVars
<1>6. CASE F!Tick
  BY <1>0, <1>6 DEF FrameInv, F!TypeOK, F!Tick, F!hookVars
<1>7. CASE F!Crashed \/ UNCHANGED F!vars
  BY <1>7 DEF FrameInv, F!TypeOK, F!Crashed, F!vars, F!hookVars, F!timeVars
<1> QED BY <1>1, <1>2, <1>3, <1>4, <1>5, <1>6, <1>7 DEF F!Next

\* The invariant of the limiter holds throughout.
LEMMA FrameCorrect == PartsSpec => []FrameInv
<1>1. PartsInit => FrameInv
  BY FrameInit DEF PartsInit
<1> QED BY <1>1, FrameStep, EachPart, PTL DEF PartsSpec

\* For every frame rate and clock: every frame of every device, however often the
\* game creates it anew, is shorter than its time by less than a millisecond, and
\* the limiter makes none last longer than that.
THEOREM FramesCorrect == PartsSpec => FramesTakeTheirTime
<1> DEFINE A == /\ F!Present => sceneHooks = 1 /\ since + Ms > Freq \div TargetFps
                /\ F!EndScene => wait' = 0 \/ since + wait' <= Freq \div TargetFps
<1>1. FrameInv => A
  <2> SUFFICES ASSUME FrameInv PROVE A
    OBVIOUS
  <2>1. F!Present => sceneHooks = 1 /\ since + Ms > FrameTime
    BY DEF F!Present, FrameInv
  <2>2. ASSUME F!EndScene PROVE wait' = 0 \/ since + wait' <= FrameTime
    <3>1. since \in Nat
      BY PartsAssumption DEF FrameInv, F!TypeOK
    <3> QED BY <2>2, <3>1, SleepFacts DEF F!EndScene
  <2> QED BY <2>1, <2>2 DEF FrameTime
<1> QED BY <1>1, FrameCorrect, PTL DEF FramesTakeTheirTime, F!FramesTakeTheirTime

-----------------------------------------------------------------------------
(***************************************************************************)
(* Settings.  Nobody but a launcher itself writes while it is not crossed, *)
(* so that what it has gone through of its values is the same on both      *)
(* sides: what it read and the last write, what it wrote and the registry, *)
(* what its game read and the dialog.                                      *)
(***************************************************************************)
\* The values before the nth of g are those of h.
Before(n, g, h) == \A k \in 1 .. 6 : k < n => g[S!Names[k]] = h[S!Names[k]]

\* Those from the nth on.
From(n, g, h)   == \A k \in 1 .. 6 : k >= n => g[S!Names[k]] = h[S!Names[k]]

LauncherInv(l) ==
    /\ phase[l] \in {"closed", "open", "playing"} => next[l] = 1
    /\ l \notin crossed =>
          /\ phase[l] = "opening" /\ whole => /\ Before(next[l], settings[l], last)
                                              /\ From(next[l], settings[l], S!Default)
          /\ phase[l] = "writing" => Before(next[l], reg, settings[l])
          /\ phase[l] \in {"open", "starting"} => Before(7, reg, settings[l])
          /\ phase[l] = "starting" => Before(next[l], game[l], settings[l])
          /\ phase[l] = "playing" => Before(7, game[l], settings[l])
    /\ phase[l] = "writing" /\ l \in alone => Before(next[l], reg, settings[l])

\* What a whole write has left; without a value a setting has its default one.
LastWritten == whole => \A f \in S!Name : reg[f] = last[f] \/ (reg[f] = Absent /\ last[f] = S!Default[f])

SettingsInv ==
    /\ S!TypeOK
    /\ settings \in [Launcher -> S!Values] /\ game \in [Launcher -> S!Values]
    /\ \A l \in Launcher : LauncherInv(l)
    /\ LastWritten

\* There are six settings.
LEMMA NamesFacts ==
    /\ Len(S!Names) = 6
    /\ \A k \in 1 .. 6 : S!Names[k] \in S!Name
    /\ \A f \in S!Name : \E k \in 1 .. 6 : f = S!Names[k]
    /\ \A k, m \in 1 .. 6 : S!Names[k] = S!Names[m] => k = m
<1>1. Len(S!Names) = 6
  BY DEF S!Names
<1>2. /\ S!Names[1] = "fullscreen" /\ S!Names[2] = "hostGame" /\ S!Names[3] = "serverAddress"
      /\ S!Names[4] = "pauseOnStartup" /\ S!Names[5] = "forceCursorVisible"
      /\ S!Names[6] = "disableCursorCapture"
  BY DEF S!Names
<1>3. \A k \in 1 .. 6 : k = 1 \/ k = 2 \/ k = 3 \/ k = 4 \/ k = 5 \/ k = 6
  OBVIOUS
<1>4. \A k, m \in 1 .. 6 : S!Names[k] = S!Names[m] => k = m
  BY <1>2, <1>3
<1> QED BY <1>1, <1>4 DEF S!Name

\* Settings are values by name.
LEMMA ValuesFacts ==
    /\ S!Default \in S!Values
    /\ \A h \in S!Values : /\ DOMAIN h = S!Name
                           /\ \A f \in S!Name : h[f] \in S!Value(f) /\ h[f] # Absent
                           /\ \A f, x : x \in S!Value(f) => [h EXCEPT ![f] = x] \in S!Values
    /\ \A g, h \in S!Values : Before(7, g, h) => g = h
<1>1. DefaultAddr \in Addr /\ Absent \notin Addr \cup BOOLEAN
  BY PartsAssumption
<1>2. \A f : S!Value(f) \subseteq Addr \cup BOOLEAN
  BY DEF S!Value
<1>3. S!Default \in S!Values
  <2> DEFINE h == S!Default
  <2>1. ASSUME NEW f \in S!Name PROVE h[f] \in S!Value(f)
    <3>1. CASE f = "serverAddress"
      <4>1. h[f] = DefaultAddr /\ S!Value(f) = Addr
        BY <3>1 DEF S!Default, S!Value
      <4> QED BY <1>1, <4>1
    <3>2. CASE f # "serverAddress"
      <4>1. h[f] = (f \in {"fullscreen", "hostGame"}) /\ S!Value(f) = BOOLEAN
        BY <3>2 DEF S!Default, S!Value
      <4>2. (f \in {"fullscreen", "hostGame"}) \in BOOLEAN
        OBVIOUS
      <4> QED BY <4>1, <4>2
    <3> QED BY <3>1, <3>2
  <2>3. h \in [S!Name -> Addr \cup BOOLEAN]
    <3>1. DOMAIN h = S!Name /\ h = [f \in S!Name |-> h[f]]
      BY DEF S!Default
    <3> HIDE DEF h
    <3> QED BY <1>2, <2>1, <3>1
  <2> HIDE DEF h
  <2>2. h \in S!Values
    BY <2>1, <2>3 DEF S!Values
  <2> QED BY <2>2 DEF h
<1>4. ASSUME NEW h \in S!Values
      PROVE  /\ DOMAIN h = S!Name
             /\ \A f \in S!Name : h[f] \in S!Value(f) /\ h[f] # Absent
             /\ \A f, x : x \in S!Value(f) => [h EXCEPT ![f] = x] \in S!Values
  <2>1. h \in [S!Name -> Addr \cup BOOLEAN] /\ \A f \in S!Name : h[f] \in S!Value(f)
    BY DEF S!Values
  <2>2. ASSUME NEW f, NEW x \in S!Value(f) PROVE [h EXCEPT ![f] = x] \in S!Values
    <3> DEFINE e == [h EXCEPT ![f] = x]
    <3>1. e \in [S!Name -> Addr \cup BOOLEAN]
      BY <1>2, <2>1
    <3>2. \A g \in S!Name : e[g] \in S!Value(g)
      BY <2>1
    <3> HIDE DEF e
    <3>3. e \in S!Values
      BY <3>1, <3>2 DEF S!Values
    <3> QED BY <3>3 DEF e
  <2> QED BY <1>1, <1>2, <2>1, <2>2
<1>5. ASSUME NEW g \in S!Values, NEW h \in S!Values, Before(7, g, h) PROVE g = h
  <2>1. \A f \in S!Name : g[f] = h[f]
    BY <1>5, NamesFacts DEF Before
  <2> QED BY <2>1 DEF S!Values
<1> QED BY <1>3, <1>4, <1>5

\* One value more: the nth of g becomes that of h, the others stay.
LEMMA OneMore ==
    ASSUME NEW n \in 1 .. 6, NEW g, NEW h, DOMAIN g = S!Name, Before(n, g, h)
    PROVE  /\ Before(n + 1, [g EXCEPT ![S!Names[n]] = h[S!Names[n]]], h)
           /\ \A d, x : From(n, g, d) => From(n + 1, [g EXCEPT ![S!Names[n]] = x], d)
BY NamesFacts DEF Before, From

\* From one value to the next, and to phase p after the last.
LEMMA StepFacts ==
    ASSUME SettingsInv, NEW l \in Launcher, NEW p \in {"writing", "open", "playing"}, S!Step(l, p)
    PROVE  /\ phase' \in [Launcher -> {"closed", "opening", "writing", "open", "starting", "playing"}]
           /\ next' \in [Launcher -> 1 .. 6] /\ next[l] \in 1 .. 6
           /\ \A m \in Launcher \ {l} : phase'[m] = phase[m] /\ next'[m] = next[m]
           /\ next[l] # 6 => phase' = phase /\ next'[l] = next[l] + 1
           /\ next[l] = 6 => phase'[l] = p /\ next'[l] = 1
BY NamesFacts DEF S!Step, SettingsInv, S!TypeOK

\* The types of a step that keeps them.
LEMMA SettingsTyped ==
    ASSUME reg' \in [S!Name -> Addr \cup BOOLEAN \cup {Absent}],
           \A f \in S!Name : reg'[f] \in S!Value(f) \cup {Absent},
           phase' \in [Launcher -> {"closed", "opening", "writing", "open", "starting", "playing"}],
           next' \in [Launcher -> 1 .. 6],
           settings' \in [Launcher -> S!Values], game' \in [Launcher -> S!Values],
           clicks' \in 0 .. MaxClicks, crossed' \subseteq Launcher, alone' \subseteq Launcher,
           whole' \in BOOLEAN, last' \in S!Values
    PROVE  S!TypeOK'
BY NamesFacts DEF S!TypeOK

\* What SettingsInv says of the types.
LEMMA SettingsTypes ==
    ASSUME SettingsInv
    PROVE  /\ reg \in [S!Name -> Addr \cup BOOLEAN \cup {Absent}]
           /\ \A f \in S!Name : reg[f] \in S!Value(f) \cup {Absent}
           /\ phase \in [Launcher -> {"closed", "opening", "writing", "open", "starting", "playing"}]
           /\ next \in [Launcher -> 1 .. 6]
           /\ settings \in [Launcher -> S!Values] /\ game \in [Launcher -> S!Values]
           /\ clicks \in 0 .. MaxClicks /\ crossed \subseteq Launcher /\ alone \subseteq Launcher
           /\ whole \in BOOLEAN /\ last \in S!Values
BY NamesFacts DEF SettingsInv, S!TypeOK

\* Launchers that are where they were, and find what they have gone through as it
\* was, keep what holds of them.
LEMMA LauncherKept ==
    ASSUME NEW m \in Launcher, LauncherInv(m),
           phase'[m] = phase[m], next'[m] = next[m], settings'[m] = settings[m], game'[m] = game[m],
           m \notin crossed' => m \notin crossed,
           m \in alone' => m \in alone,
           (m \notin crossed' /\ phase[m] \notin {"closed", "playing"}) \/ m \in alone' =>
               reg' = reg /\ (whole' => whole /\ last' = last)
    PROVE  LauncherInv(m)'
BY DEF LauncherInv, Before, From

\* No launcher runs at first.
LEMMA SettingsInit == S!Init => SettingsInv
<1> SUFFICES ASSUME S!Init PROVE SettingsInv
  OBVIOUS
<1>1. /\ reg = [f \in S!Name |-> Absent] /\ phase = [l \in Launcher |-> "closed"]
      /\ next = [l \in Launcher |-> 1] /\ settings = [l \in Launcher |-> S!Default]
      /\ game = [l \in Launcher |-> S!Default] /\ clicks = 0
      /\ crossed = {} /\ alone = {} /\ whole = TRUE /\ last = S!Default
  BY DEF S!Init
<1>2. settings \in [Launcher -> S!Values] /\ game \in [Launcher -> S!Values] /\ last \in S!Values
  BY <1>1, ValuesFacts
<1>3. S!TypeOK
  <2>1. reg \in [S!Name -> Addr \cup BOOLEAN \cup {Absent}] /\ \A f \in S!Name : reg[f] = Absent
    BY <1>1
  <2>2. next \in [Launcher -> 1 .. Len(S!Names)] /\ clicks \in 0 .. MaxClicks
    BY <1>1, NamesFacts, PartsAssumption
  <2>3. phase \in [Launcher -> {"closed", "opening", "writing", "open", "starting", "playing"}]
    BY <1>1
  <2>4. crossed \subseteq Launcher /\ alone \subseteq Launcher /\ whole \in BOOLEAN
    BY <1>1
  <2> QED BY <1>2, <2>1, <2>2, <2>3, <2>4 DEF S!TypeOK
<1>4. \A l \in Launcher : LauncherInv(l)
  BY <1>1 DEF LauncherInv
<1>5. LastWritten
  BY <1>1 DEF LastWritten
<1> QED BY <1>2, <1>3, <1>4, <1>5 DEF SettingsInv

\* A launcher opens, reads, is clicked on, plays or ends.
LEMMA SettingsRun ==
    ASSUME SettingsInv, NEW l \in Launcher,
           S!Open(l) \/ S!Read(l) \/ S!Click(l) \/ S!Play(l) \/ S!GameReads(l) \/ S!End(l)
    PROVE  SettingsInv'
<1> DEFINE Phases == {"closed", "opening", "writing", "open", "starting", "playing"}
<1>0. /\ reg \in [S!Name -> Addr \cup BOOLEAN \cup {Absent}]
      /\ \A f \in S!Name : reg[f] \in S!Value(f) \cup {Absent}
      /\ phase \in [Launcher -> Phases] /\ next \in [Launcher -> 1 .. 6]
      /\ settings \in [Launcher -> S!Values] /\ game \in [Launcher -> S!Values]
      /\ clicks \in 0 .. MaxClicks /\ crossed \subseteq Launcher /\ alone \subseteq Launcher
      /\ whole \in BOOLEAN /\ last \in S!Values
  BY SettingsTypes
<1>1. UNCHANGED <<reg, whole, last>> /\ LastWritten'
  <2>1. UNCHANGED <<reg, whole, last>>
    BY DEF S!Open, S!Read, S!Click, S!Play, S!GameReads, S!End, S!history
  <2> QED BY <2>1 DEF LastWritten, SettingsInv, S!Default
<1>2. LauncherInv(l) /\ \A m \in Launcher : LauncherInv(m)
  BY DEF SettingsInv
\* The types of what changes, what the others keep, and what holds of l are enough.
<1>3. ASSUME phase' \in [Launcher -> Phases], next' \in [Launcher -> 1 .. 6],
             settings' \in [Launcher -> S!Values], game' \in [Launcher -> S!Values],
             clicks' \in 0 .. MaxClicks, crossed' \in {crossed, crossed \ {l}},
             alone' \in {alone, alone \cup {l}},
             \A m \in Launcher \ {l} : /\ phase'[m] = phase[m] /\ next'[m] = next[m]
                                       /\ settings'[m] = settings[m] /\ game'[m] = game[m],
             LauncherInv(l)'
      PROVE  SettingsInv'
  <2>1. crossed' \subseteq Launcher /\ alone' \subseteq Launcher
    BY <1>0, <1>3
  <2>2. S!TypeOK'
    BY <1>0, <1>1, <1>3, <2>1, SettingsTyped
  <2>3. ASSUME NEW m \in Launcher \ {l} PROVE LauncherInv(m)'
    BY <1>1, <1>2, <1>3, <2>3, LauncherKept
  <2>4. \A m \in Launcher : LauncherInv(m)'
    BY <1>3, <2>3
  <2> QED BY <1>1, <1>3, <2>2, <2>4 DEF SettingsInv
<1>4. CASE S!Open(l)
  <2>1. /\ phase[l] = "closed" /\ phase' = [phase EXCEPT ![l] = "opening"]
        /\ settings' = [settings EXCEPT ![l] = S!Default]
        /\ crossed' = crossed \ {l} /\ UNCHANGED <<next, game, clicks, alone>>
    BY <1>4 DEF S!Open
  <2>2. phase'[l] = "opening" /\ next'[l] = 1 /\ settings'[l] = S!Default
    BY <1>0, <1>2, <2>1 DEF LauncherInv
  <2>3. LauncherInv(l)'
    BY <2>2 DEF LauncherInv, Before, From, S!Default, S!Name, S!Names
  <2> QED BY <1>0, <1>3, <2>1, <2>3, ValuesFacts
<1>5. CASE S!Read(l)
  <2> DEFINE f == S!Names[next[l]]
             x == S!Loaded(settings[l], f)
  <2>1. /\ phase[l] = "opening" /\ settings' = [settings EXCEPT ![l][f] = x]
        /\ S!Step(l, "writing")
        /\ alone' = (IF phase' = phase THEN alone ELSE alone \cup {l})
        /\ UNCHANGED <<game, clicks, crossed>>
    BY <1>5 DEF S!Read
  <2>2. /\ phase' \in [Launcher -> Phases] /\ next' \in [Launcher -> 1 .. 6] /\ next[l] \in 1 .. 6
        /\ \A m \in Launcher \ {l} : phase'[m] = phase[m] /\ next'[m] = next[m]
        /\ next[l] # 6 => phase' = phase /\ next'[l] = next[l] + 1
        /\ next[l] = 6 => phase'[l] = "writing" /\ next'[l] = 1
    BY <2>1, StepFacts
  <2>3. f \in S!Name /\ settings[l] \in S!Values
    BY <1>0, <2>2, NamesFacts
  <2>4. x \in S!Value(f)
    BY <1>0, <2>3, ValuesFacts DEF S!Loaded
  <2>5. settings'[l] = [settings[l] EXCEPT ![f] = x] /\ settings' \in [Launcher -> S!Values]
        /\ \A m \in Launcher \ {l} : settings'[m] = settings[m]
    <3>1. [settings[l] EXCEPT ![f] = x] \in S!Values
      BY <2>3, <2>4, ValuesFacts
    <3>2. settings' = [settings EXCEPT ![l] = [settings[l] EXCEPT ![f] = x]]
      BY <1>0, <2>1
    <3> QED BY <1>0, <3>1, <3>2
  <2>6. CASE next[l] = 6
    <3>1. LauncherInv(l)'
      BY <2>2, <2>6 DEF LauncherInv, Before
    <3> QED BY <1>0, <1>3, <2>1, <2>2, <2>5, <3>1
  <2>7. CASE next[l] # 6
    <3>1. phase'[l] = "opening" /\ next'[l] = next[l] + 1 /\ alone' = alone
      BY <2>1, <2>2, <2>7
    <3>2. ASSUME l \notin crossed, whole
          PROVE  Before(next[l] + 1, settings'[l], last) /\ From(next[l] + 1, settings'[l], S!Default)
      <4>1. Before(next[l], settings[l], last) /\ From(next[l], settings[l], S!Default)
        BY <1>2, <2>1, <3>2 DEF LauncherInv
      <4>2. settings[l][f] = S!Default[f]
        BY <2>2, <4>1 DEF From
      <4>3. x = last[f]
        BY <2>3, <3>2, <4>2, ValuesFacts, <1>0 DEF S!Loaded, SettingsInv, LastWritten
      <4>4. DOMAIN settings[l] = S!Name
        BY <2>3, ValuesFacts
      <4>5. /\ Before(next[l] + 1, [settings[l] EXCEPT ![f] = last[f]], last)
            /\ From(next[l] + 1, [settings[l] EXCEPT ![f] = last[f]], S!Default)
        BY <2>2, <4>1, <4>4, OneMore
      <4> HIDE DEF x
      <4> QED BY <2>5, <4>3, <4>5
    <3>3. S!Default' = S!Default
      BY DEF S!Default
    <3>4. LauncherInv(l)'
      BY <1>1, <2>1, <3>1, <3>2, <3>3 DEF LauncherInv, Before, From
    <3>5. /\ phase' \in [Launcher -> Phases] /\ next' \in [Launcher -> 1 .. 6]
          /\ settings' \in [Launcher -> S!Values] /\ game' \in [Launcher -> S!Values]
          /\ clicks' \in 0 .. MaxClicks /\ crossed' = crossed /\ alone' = alone
      BY <1>0, <2>1, <2>2, <2>5, <3>1
    <3>6. \A m \in Launcher \ {l} : /\ phase'[m] = phase[m] /\ next'[m] = next[m]
                                    /\ settings'[m] = settings[m] /\ game'[m] = game[m]
      BY <2>1, <2>2, <2>5
    <3> QED BY ONLY <1>3, <3>4, <3>5, <3>6
  <2> QED BY <2>6, <2>7
<1>6. CASE S!Click(l)
  <2>1. PICK f \in Editable : \E v \in S!Value(f) : settings' = [settings EXCEPT ![l][f] = v]
    BY <1>6 DEF S!Click
  <2>v. PICK v \in S!Value(f) : settings' = [settings EXCEPT ![l][f] = v]
    BY <2>1
  <2>2. /\ phase[l] = "open" /\ clicks < MaxClicks /\ phase' = [phase EXCEPT ![l] = "writing"]
        /\ clicks' = clicks + 1 /\ alone' = alone \cup {l} /\ UNCHANGED <<next, game, crossed>>
    BY <1>6 DEF S!Click
  <2>3. settings' \in [Launcher -> S!Values] /\ \A m \in Launcher \ {l} : settings'[m] = settings[m]
    <3>1. [settings[l] EXCEPT ![f] = v] \in S!Values
      BY <1>0, <2>v, ValuesFacts
    <3>2. settings' = [settings EXCEPT ![l] = [settings[l] EXCEPT ![f] = v]]
      BY <1>0, <2>v
    <3> QED BY <1>0, <3>1, <3>2
  <2>4. phase'[l] = "writing" /\ next'[l] = 1
    BY <1>0, <1>2, <2>2 DEF LauncherInv
  <2>5. LauncherInv(l)'
    BY <2>4 DEF LauncherInv, Before
  <2>6. clicks' \in 0 .. MaxClicks
    BY <1>0, <2>2, PartsAssumption
  <2> QED BY <1>0, <1>3, <2>2, <2>3, <2>5, <2>6
<1>7. CASE S!Play(l)
  <2>1. /\ phase[l] = "open" /\ phase' = [phase EXCEPT ![l] = "starting"]
        /\ game' = [game EXCEPT ![l] = S!Default] /\ UNCHANGED <<next, settings, clicks, crossed, alone>>
    BY <1>7 DEF S!Play, S!history
  <2>2. phase'[l] = "starting" /\ next'[l] = 1
    BY <1>0, <1>2, <2>1 DEF LauncherInv
  <2>3. LauncherInv(l)'
    BY <1>1, <1>2, <2>1, <2>2 DEF LauncherInv, Before
  <2> QED BY <1>0, <1>3, <2>1, <2>3, ValuesFacts
<1>8. CASE S!GameReads(l)
  <2> DEFINE f == S!Names[next[l]]
             x == S!Loaded(game[l], f)
  <2>1. /\ phase[l] = "starting" /\ game' = [game EXCEPT ![l][f] = x]
        /\ S!Step(l, "playing")
        /\ UNCHANGED <<settings, clicks, crossed, alone>>
    BY <1>8 DEF S!GameReads, S!history
  <2>2. /\ phase' \in [Launcher -> Phases] /\ next' \in [Launcher -> 1 .. 6] /\ next[l] \in 1 .. 6
        /\ \A m \in Launcher \ {l} : phase'[m] = phase[m] /\ next'[m] = next[m]
        /\ next[l] # 6 => phase' = phase /\ next'[l] = next[l] + 1
        /\ next[l] = 6 => phase'[l] = "playing" /\ next'[l] = 1
    BY <2>1, StepFacts
  <2>3. f \in S!Name /\ settings[l] \in S!Values /\ game[l] \in S!Values
    BY <1>0, <2>2, NamesFacts
  <2>4. x \in S!Value(f)
    BY <1>0, <2>3, ValuesFacts DEF S!Loaded
  <2>5. game'[l] = [game[l] EXCEPT ![f] = x] /\ game' \in [Launcher -> S!Values]
        /\ \A m \in Launcher \ {l} : game'[m] = game[m]
    <3>1. [game[l] EXCEPT ![f] = x] \in S!Values
      BY <2>3, <2>4, ValuesFacts
    <3>2. game' = [game EXCEPT ![l] = [game[l] EXCEPT ![f] = x]]
      BY <1>0, <2>1
    <3> QED BY <1>0, <3>1, <3>2
  <2>6. ASSUME l \notin crossed
        PROVE  Before(7, reg, settings[l]) /\ Before(next[l] + 1, game'[l], settings[l])
    <3>1. Before(7, reg, settings[l]) /\ Before(next[l], game[l], settings[l])
      BY <1>2, <2>1, <2>6 DEF LauncherInv
    <3>2. reg[f] = settings[l][f] /\ settings[l][f] # Absent
      BY <2>2, <2>3, <3>1, ValuesFacts DEF Before
    <3>3. x = settings[l][f]
      BY <3>2 DEF S!Loaded
    <3>4. DOMAIN game[l] = S!Name
      BY <2>3, ValuesFacts
    <3> HIDE DEF x
    <3> QED BY <2>2, <2>5, <3>1, <3>3, <3>4, OneMore
  <2>7. LauncherInv(l)'
    <3>1. CASE next[l] = 6
      BY <1>1, <2>1, <2>2, <2>6, <3>1 DEF LauncherInv, Before
    <3>2. CASE next[l] # 6
      BY <1>1, <2>1, <2>2, <2>6, <3>2 DEF LauncherInv, Before
    <3> QED BY <3>1, <3>2
  <2> QED BY <1>0, <1>3, <2>1, <2>2, <2>5, <2>7
<1>9. CASE S!End(l)
  <2>1. /\ phase' = [phase EXCEPT ![l] = "closed"] /\ next' = [next EXCEPT ![l] = 1]
        /\ UNCHANGED <<settings, game, clicks, crossed, alone>>
    BY <1>9 DEF S!End, S!history
  <2>2. phase'[l] = "closed" /\ next'[l] = 1
    BY <1>0, <2>1
  <2>3. LauncherInv(l)'
    BY <2>2 DEF LauncherInv
  <2> QED BY <1>0, <1>3, <2>1, <2>3
<1> QED BY <1>4, <1>5, <1>6, <1>7, <1>8, <1>9

\* A launcher that writes crosses those that run, and only a write of one
\* launcher from first to last is whole.
LEMMA SettingsWritten ==
    ASSUME SettingsInv, NEW l \in Launcher, S!Write(l)
    PROVE  SettingsInv'
<1> DEFINE Phases == {"closed", "opening", "writing", "open", "starting", "playing"}
           f == S!Names[next[l]]
<1>0. /\ reg \in [S!Name -> Addr \cup BOOLEAN \cup {Absent}]
      /\ \A g \in S!Name : reg[g] \in S!Value(g) \cup {Absent}
      /\ phase \in [Launcher -> Phases] /\ next \in [Launcher -> 1 .. 6]
      /\ settings \in [Launcher -> S!Values] /\ game \in [Launcher -> S!Values]
      /\ clicks \in 0 .. MaxClicks /\ crossed \subseteq Launcher /\ alone \subseteq Launcher
      /\ whole \in BOOLEAN /\ last \in S!Values
  BY SettingsTypes
<1>1. /\ phase[l] = "writing" /\ reg' = [reg EXCEPT ![f] = settings[l][f]] /\ S!Step(l, "open")
      /\ alone' = alone \cap {l}
      /\ crossed' = crossed \cup {m \in Launcher \ {l} : phase[m] \notin {"closed", "playing"}}
      /\ whole' = (next[l] = 6 /\ l \in alone)
      /\ last' = (IF whole' THEN settings[l] ELSE last)
      /\ UNCHANGED <<settings, game, clicks>>
  BY NamesFacts DEF S!Write, S!Stored
<1>2. /\ phase' \in [Launcher -> Phases] /\ next' \in [Launcher -> 1 .. 6] /\ next[l] \in 1 .. 6
      /\ \A m \in Launcher \ {l} : phase'[m] = phase[m] /\ next'[m] = next[m]
      /\ next[l] # 6 => phase' = phase /\ next'[l] = next[l] + 1
      /\ next[l] = 6 => phase'[l] = "open" /\ next'[l] = 1
  BY <1>1, StepFacts
<1>3. f \in S!Name /\ settings[l] \in S!Values /\ settings[l][f] \in S!Value(f)
  BY <1>0, <1>2, NamesFacts, ValuesFacts
<1>4. S!TypeOK'
  <2>1. S!Value(f) \subseteq Addr \cup BOOLEAN
    BY DEF S!Value
  <2>2. /\ reg' \in [S!Name -> Addr \cup BOOLEAN \cup {Absent}]
        /\ \A g \in S!Name : reg'[g] \in S!Value(g) \cup {Absent}
    BY <1>0, <1>1, <1>3, <2>1
  <2>3. whole' \in BOOLEAN /\ last' \in S!Values
    BY <1>0, <1>1
  <2>4. crossed' \subseteq Launcher /\ alone' \subseteq Launcher
    BY <1>0, <1>1
  <2> QED BY <1>0, <1>1, <1>2, <2>2, <2>3, <2>4, SettingsTyped
<1>5. ASSUME NEW m \in Launcher \ {l} PROVE LauncherInv(m)'
  <2>1. m \notin crossed' => m \notin crossed /\ phase[m] \in {"closed", "playing"}
    BY <1>1
  <2>2. m \notin alone'
    BY <1>1
  <2>3. LauncherInv(m)
    BY DEF SettingsInv
  <2> QED BY <1>1, <1>2, <2>1, <2>2, <2>3, LauncherKept
<1>6. ASSUME Before(next[l], reg, settings[l])
      PROVE  Before(next[l] + 1, reg', settings[l])
  BY <1>0, <1>1, <1>2, <1>6, OneMore
<1>7. LauncherInv(l)'
  <2>1. /\ l \notin crossed' => Before(next[l] + 1, reg', settings[l])
        /\ l \in alone' => Before(next[l] + 1, reg', settings[l])
    BY <1>1, <1>6 DEF SettingsInv, LauncherInv
  <2>2. CASE next[l] = 6
    BY <1>1, <1>2, <2>1, <2>2 DEF LauncherInv, Before
  <2>3. CASE next[l] # 6
    BY <1>1, <1>2, <2>1, <2>3 DEF LauncherInv, Before
  <2> QED BY <2>2, <2>3
<1>8. LastWritten'
  <2>1. CASE next[l] = 6 /\ l \in alone
    <3>1. Before(7, reg', settings[l])
      BY <1>1, <1>6, <2>1 DEF SettingsInv, LauncherInv
    <3>2. \A g \in S!Name : reg'[g] = settings[l][g]
      BY <3>1, NamesFacts DEF Before
    <3> QED BY <1>1, <2>1, <3>2 DEF LastWritten
  <2>2. CASE ~(next[l] = 6 /\ l \in alone)
    BY <1>1, <2>2 DEF LastWritten
  <2> QED BY <2>1, <2>2
<1> QED BY <1>0, <1>1, <1>4, <1>5, <1>7, <1>8 DEF SettingsInv

\* The invariant of the settings holds throughout.
LEMMA SettingsCorrect == PartsSpec => []SettingsInv
<1>1. PartsInit => SettingsInv
  BY SettingsInit DEF PartsInit
<1>2. SettingsInv /\ [PartsNext]_partsVars => SettingsInv'
  <2> SUFFICES ASSUME SettingsInv, [PartsNext]_partsVars PROVE SettingsInv'
    OBVIOUS
  <2>1. CASE S!Next
    BY <2>1, SettingsRun, SettingsWritten DEF S!Next
  <2>2. CASE UNCHANGED S!vars
    BY <2>2 DEF SettingsInv, S!TypeOK, LauncherInv, LastWritten, Before, From, S!Default,
                S!vars, S!procVars, S!history
  <2> QED BY <2>1, <2>2, EachPart
<1> QED BY <1>1, <1>2, PTL DEF PartsSpec

\* For any number of launchers and of clicks, however their readings and writings
\* of the six values interleave and whoever is killed among them: the game runs
\* with what the dialog showed, unless another launcher wrote meanwhile.
THEOREM ShownCorrect == PartsSpec => []GameRunsAsShown
<1>1. SettingsInv => GameRunsAsShown
  BY SettingsTypes, ValuesFacts DEF SettingsInv, LauncherInv, GameRunsAsShown, S!GameRunsAsShown
<1> QED BY <1>1, SettingsCorrect, PTL

\* And a dialog opens with what was written last, unless somebody writes while it
\* reads, or the last write was cut short or crossed.
THEOREM LeftCorrect == PartsSpec => OpensAsLeft
<1> DEFINE A == \A l \in Launcher : (phase[l] = "opening" /\ phase'[l] = "writing") =>
                    l \in crossed \/ ~whole \/ settings'[l] = last
<1>1. SettingsInv /\ [PartsNext]_partsVars => [A]_(S!vars)
  <2> SUFFICES ASSUME SettingsInv, S!Next,
                      NEW l \in Launcher, phase[l] = "opening", phase'[l] = "writing",
                      l \notin crossed, whole
               PROVE  settings'[l] = last
    BY EachPart
  <2>0. phase \in [Launcher -> {"closed", "opening", "writing", "open", "starting", "playing"}]
    BY SettingsTypes
  <2>1. PICK m \in Launcher :
            S!Open(m) \/ S!Read(m) \/ S!Write(m) \/ S!Click(m) \/ S!Play(m) \/ S!GameReads(m) \/ S!End(m)
    BY DEF S!Next
  <2>2. m = l
    <3> SUFFICES ASSUME m # l PROVE phase'[l] = phase[l]
      OBVIOUS
    <3> QED BY <2>0, <2>1 DEF S!Open, S!Read, S!Write, S!Click, S!Play, S!GameReads, S!End, S!Step
  <2>3. S!Read(l)
    BY <2>0, <2>1, <2>2 DEF S!Open, S!Read, S!Write, S!Click, S!Play, S!GameReads, S!End
  <2> DEFINE f == S!Names[next[l]]
             x == S!Loaded(settings[l], f)
  <2>4. settings' = [settings EXCEPT ![l][f] = x] /\ S!Step(l, "writing")
    BY <2>3 DEF S!Read
  <2>5. next[l] = 6
    BY <2>4, StepFacts
  <2>6. Before(6, settings[l], last) /\ From(6, settings[l], S!Default)
    BY <2>5 DEF SettingsInv, LauncherInv
  <2>7. f \in S!Name /\ settings[l] \in S!Values /\ last \in S!Values
    BY <2>5, NamesFacts, SettingsTypes
  <2>8. x = last[f]
    <3>1. settings[l][f] = S!Default[f]
      BY <2>5, <2>6 DEF From
    <3> QED BY <2>7, <3>1, ValuesFacts DEF S!Loaded, SettingsInv, LastWritten
  <2>9. settings'[l] = [settings[l] EXCEPT ![f] = x]
    BY <2>4, SettingsTypes
  <2>10. Before(7, settings'[l], last)
    <3> HIDE DEF x
    <3>1. DOMAIN settings[l] = S!Name
      BY <2>7, ValuesFacts
    <3>2. Before(6 + 1, settings'[l], last)
      BY <2>5, <2>6, <2>8, <2>9, <3>1, OneMore
    <3> QED BY <3>2
  <2>11. settings'[l] \in S!Values
    BY <2>7, <2>8, <2>9, ValuesFacts
  <2> QED BY <2>7, <2>10, <2>11, ValuesFacts
<1> QED BY <1>1, SettingsCorrect, PTL DEF PartsSpec, OpensAsLeft, S!OpensAsLeft

-----------------------------------------------------------------------------
(***************************************************************************)
(* VectorLoops.  The loop of the teardown has kept of the positions before *)
(* the next that it looks at, counted as they were at first, those that    *)
(* are not Erased, and all from there on; and that position is Erased      *)
(* exactly if its entry is to go.  The loop of KICK has changed nothing    *)
(* and seen no entry that is to go.                                        *)
(***************************************************************************)
\* The position of the vector as it was that the loop looks at next.
Seen == at + (Len(input) - Len(rest))

\* The positions that are kept if those before p have been seen.
KeptBefore(p) == {k \in DOMAIN input : k >= p \/ ~Erased(input, target, k)}

TeardownInv ==
    /\ rest = Keep(input, KeptBefore(Seen))
    /\ Seen <= Len(input) => (Erased(input, target, Seen) <=> input[Seen] = target)

KickInv ==
    /\ rest = input /\ at <= Len(input) + 1
    /\ \A k \in 1 .. Len(input) : k < at => input[k] # target

VectorInv ==
    /\ eraseLoop \in {"teardown", "KICK"} /\ done \in BOOLEAN
    /\ input \in Seq(Elem) /\ rest \in Seq(Elem) /\ at \in Nat \ {0}
    /\ eraseLoop = "teardown" /\ ~done => TeardownInv
    /\ eraseLoop = "KICK" /\ ~done => KickInv
    /\ V!ClosedForm

\* The operators of the loops' module are those of PointerVectors.
LEMMA VectorOperators ==
    /\ \A s, x : V!EraseSkipping(s, x) = EraseSkipping(s, x)
    /\ \A s, T : V!DropFirst(s, T) = DropFirst(s, T)
    /\ \A s, T : V!Scanned(s, T) = Scanned(s, T)
    /\ V!BoundedSeq(Elem, MaxLength) \subseteq Seq(Elem)
<1>0. \A K : V!Cardinality(K) = Cardinality(K)
  BY DEF V!Cardinality, Cardinality
<1>1. ASSUME NEW s, NEW K PROVE V!Keep(s, K) = Keep(s, K)
  <2> DEFINE n == Cardinality(K)
             pos(i) == CHOOSE k \in K : Cardinality(K \cap 1 .. k) = i
             vpos(i) == CHOOSE k \in K : V!Cardinality(K \cap 1 .. k) = i
  <2>1. V!Cardinality(K) = n
    BY <1>0
  <2>2. ASSUME NEW i PROVE vpos(i) = pos(i)
    BY <1>0
  <2>3. Keep(s, K) = [i \in 1 .. n |-> s[pos(i)]]
    BY DEF Keep
  <2>4. V!Keep(s, K) = [i \in 1 .. n |-> s[vpos(i)]]
    BY <2>1 DEF V!Keep
  <2> HIDE DEF n, pos, vpos
  <2> QED BY <2>2, <2>3, <2>4
<1>2. \A s, T : V!Positions(s, T) = Positions(s, T)
  BY DEF V!Positions, Positions
<1>3. ASSUME NEW s, NEW T PROVE V!FirstPosition(s, T) = FirstPosition(s, T)
  <2> DEFINE K == Positions(s, T)
             pos == CHOOSE k \in K : Cardinality(K \cap 1 .. k) = 1
             vpos == CHOOSE k \in K : V!Cardinality(K \cap 1 .. k) = 1
  <2>1. vpos = pos
    BY <1>0
  <2>2. FirstPosition(s, T) = pos
    BY DEF FirstPosition
  <2>3. V!FirstPosition(s, T) = vpos
    BY <1>2 DEF V!FirstPosition
  <2> QED BY <2>1, <2>2, <2>3
<1>4. \A s, x, k : V!Erased(s, x, k) <=> Erased(s, x, k)
  BY DEF V!Erased, Erased
<1>5. \A s, x : V!EraseSkipping(s, x) = EraseSkipping(s, x)
  BY <1>1, <1>4 DEF V!EraseSkipping, EraseSkipping
<1>6. \A s, T : V!DropFirst(s, T) = DropFirst(s, T)
  BY <1>1, <1>2, <1>3 DEF V!DropFirst, DropFirst
<1>7. \A s, T : V!Scanned(s, T) = Scanned(s, T)
  BY DEF V!Scanned, Scanned
<1>8. V!BoundedSeq(Elem, MaxLength) \subseteq Seq(Elem)
  <2>1. V!SeqOf(Elem, MaxLength) = UNION {[1 .. m -> Elem] : m \in 0 .. MaxLength}
    BY DEF V!SeqOf
  <2>2. \A m \in 0 .. MaxLength : [1 .. m -> Elem] \subseteq Seq(Elem)
    BY PartsAssumption
  <2> QED BY <2>1, <2>2 DEF V!BoundedSeq
<1> QED BY <1>5, <1>6, <1>7, <1>8

\* std::vector's erase moves the entries behind up by one.
LEMMA RemoveFacts ==
    ASSUME NEW s \in Seq(Elem), NEW a \in 1 .. Len(s)
    PROVE  /\ V!RemoveAt(s, a) \in Seq(Elem)
           /\ Len(V!RemoveAt(s, a)) = Len(s) - 1
           /\ \A i \in 1 .. Len(s) - 1 : V!RemoveAt(s, a)[i] = s[IF i < a THEN i ELSE i + 1]
<1> DEFINE b == SubSeq(s, 1, a - 1)
           c == SubSeq(s, a + 1, Len(s))
<1>1. Len(s) \in Nat /\ a \in Nat /\ 1 <= a /\ a <= Len(s)
  OBVIOUS
<1>2. b \in Seq(Elem) /\ Len(b) = a - 1 /\ \A i \in 1 .. a - 1 : b[i] = s[i]
  BY <1>1
<1>3. c \in Seq(Elem) /\ Len(c) = Len(s) - a /\ \A i \in 1 .. Len(s) - a : c[i] = s[a + i]
  BY <1>1
<1>4. V!RemoveAt(s, a) = b \o c
  BY DEF V!RemoveAt
<1> HIDE DEF b, c
<1>5. /\ b \o c \in Seq(Elem) /\ Len(b \o c) = Len(b) + Len(c)
      /\ \A i \in 1 .. Len(b) + Len(c) : (b \o c)[i] = IF i <= Len(b) THEN b[i] ELSE c[i - Len(b)]
  <2>1. b \in Seq(Elem) /\ c \in Seq(Elem)
    BY <1>2, <1>3
  <2> QED BY ONLY <2>1
<1>6. ASSUME NEW i \in 1 .. Len(s) - 1
      PROVE  (b \o c)[i] = s[IF i < a THEN i ELSE i + 1]
  <2>1. CASE i < a
    <3>1. i \in 1 .. a - 1 /\ i <= Len(b) /\ i \in 1 .. Len(b) + Len(c)
      BY <1>1, <1>2, <1>3, <2>1
    <3> QED BY <1>2, <1>5, <2>1, <3>1
  <2>2. CASE ~(i < a)
    <3>1. /\ ~(i <= Len(b)) /\ i \in 1 .. Len(b) + Len(c)
          /\ i - Len(b) \in 1 .. Len(s) - a /\ a + (i - Len(b)) = i + 1
      BY <1>1, <1>2, <1>3, <2>2
    <3> QED BY <1>3, <1>5, <2>2, <3>1
  <2> QED BY <2>1, <2>2
<1> QED BY <1>1, <1>2, <1>3, <1>4, <1>5, <1>6

\* Erasing an entry is keeping all but its position.
LEMMA RemoveIsKeep ==
    ASSUME NEW s \in Seq(Elem), NEW K \in SUBSET (DOMAIN s), NEW p \in K
    PROVE  LET a == Cardinality(K \cap 1 .. p)
           IN  /\ a \in 1 .. Len(Keep(s, K)) /\ Keep(s, K)[a] = s[p]
               /\ V!RemoveAt(Keep(s, K), a) = Keep(s, K \ {p})
<1> DEFINE a == Cardinality(K \cap 1 .. p)
           c == Cardinality(K)
           t == Keep(s, K)
           u == Keep(s, K \ {p})
           r == V!RemoveAt(t, a)
<1>1. t \in Seq(Elem) /\ Len(t) = c
  BY KeepProperties
<1>2. a \in 1 .. c /\ t[a] = s[p]
  BY KeepNth
<1>3. K \ {p} \in SUBSET (DOMAIN s)
  OBVIOUS
<1>4. u \in Seq(Elem)
  BY <1>3, KeepProperties
<1>5. Len(u) = c - 1 /\ \A i \in 1 .. c - 1 : u[i] = t[IF i < a THEN i ELSE i + 1]
  BY KeepWithout
<1> HIDE DEF a, c, t, u
<1>6. r \in Seq(Elem) /\ Len(r) = c - 1 /\ \A i \in 1 .. c - 1 : r[i] = t[IF i < a THEN i ELSE i + 1]
  BY <1>1, <1>2, RemoveFacts
<1> HIDE DEF r
<1>7. r = u
  BY <1>4, <1>5, <1>6
<1> QED BY <1>1, <1>2, <1>7 DEF a, c, t, u, r

\* The first position of an entry in T is the one that no earlier one is in T.
LEMMA FirstFacts ==
    ASSUME NEW s \in Seq(Elem), NEW T, NEW p \in DOMAIN s, s[p] \in T,
           \A k \in DOMAIN s : k < p => s[k] \notin T
    PROVE  Positions(s, T) # {} /\ FirstPosition(s, T) = p
<1> DEFINE K == Positions(s, T)
<1>1. Len(s) \in Nat /\ K \in SUBSET (1 .. Len(s)) /\ p \in K
  BY DEF Positions
<1>2. K \cap 1 .. p = {p}
  <2>1. ASSUME NEW k \in K \cap 1 .. p PROVE k = p
    <3>1. k \in DOMAIN s /\ s[k] \in T /\ ~(k < p) /\ k <= p
      BY DEF Positions
    <3> QED BY <1>1, <3>1
  <2> QED BY <1>1, <2>1
<1>3. Cardinality(K \cap 1 .. p) = 1
  BY <1>2, FS_Singleton
<1>4. \A k \in K : Cardinality(K \cap 1 .. k) = 1 => k = p
  <2> HIDE DEF K
  <2> QED BY <1>1, <1>3, NthPosition
<1> QED BY <1>1, <1>3, <1>4 DEF FirstPosition

\* The lesser of two numbers.
LEMMA LesserOfTwo ==
    ASSUME NEW a \in Nat, NEW b \in Nat
    PROVE  V!Min({a, b}) = IF a <= b THEN a ELSE b
<1> DEFINE m == IF a <= b THEN a ELSE b
<1>1. m \in {a, b} /\ m <= a /\ m <= b /\ m \in Nat
  OBVIOUS
<1>2. \A y \in {a, b} : y <= m => y = m
  <2>1. \A y \in {a, b} : y \in Nat /\ m <= y
    OBVIOUS
  <2> HIDE DEF m
  <2> QED BY <1>1, <2>1
<1> HIDE DEF m
<1>3. \A y \in {a, b} : (\A z \in {a, b} : y <= z) <=> y = m
  BY <1>1, <1>2
<1>4. (CHOOSE y \in {a, b} : \A z \in {a, b} : y <= z) = m
  BY <1>1, <1>3
<1> QED BY <1>4 DEF V!Min, m

\* The entries a search loop that ends at j has read.
LEMMA ScannedFacts ==
    ASSUME NEW s \in Seq(Elem), NEW x, NEW j \in 1 .. Len(s) + 1,
           \A k \in 1 .. Len(s) : k < j => s[k] # x,
           j <= Len(s) => s[j] = x
    PROVE  V!Range(SubSeq(s, 1, V!Min({j, Len(s)}))) = Scanned(s, {x})
<1> DEFINE m == IF j <= Len(s) THEN j ELSE Len(s)
           I == {i \in DOMAIN s : \A k \in 1 .. (i - 1) : s[k] \notin {x}}
<1>1. Len(s) \in Nat /\ j \in Nat /\ DOMAIN s = 1 .. Len(s)
  OBVIOUS
<1>2. m \in 0 .. Len(s) /\ V!Min({j, Len(s)}) = m
  <2>1. V!Min({j, Len(s)}) = m
    BY <1>1, LesserOfTwo
  <2>2. m \in 0 .. Len(s)
    BY <1>1
  <2> QED BY <2>1, <2>2
<1>3. I = 1 .. m
  <2>1. ASSUME NEW i \in I PROVE i \in 1 .. m
    <3>1. CASE j <= Len(s)
      <4>1. ~(j < i)
        BY <1>1, <3>1
      <4> QED BY <1>1, <3>1, <4>1
    <3>2. CASE ~(j <= Len(s))
      BY <1>1, <3>2
    <3> QED BY <3>1, <3>2
  <2>2. ASSUME NEW i \in 1 .. m PROVE i \in I
    <3>1. i \in 1 .. Len(s) /\ i <= j
      BY <1>1
    <3>2. \A k \in 1 .. (i - 1) : k \in 1 .. Len(s) /\ k < j
      BY <1>1, <3>1
    <3> QED BY <1>1, <3>1, <3>2
  <2> HIDE DEF I, m
  <2> QED BY <2>1, <2>2
<1>4. Scanned(s, {x}) = {s[i] : i \in 1 .. m}
  BY <1>3 DEF Scanned
<1> HIDE DEF m
<1>5. DOMAIN SubSeq(s, 1, m) = 1 .. m /\ \A i \in 1 .. m : SubSeq(s, 1, m)[i] = s[i]
  BY <1>1, <1>2
<1>6. V!Range(SubSeq(s, 1, m)) = {s[i] : i \in 1 .. m}
  BY <1>5 DEF V!Range
<1> QED BY <1>2, <1>4, <1>6

\* A loop begins with the whole vector.
LEMMA VectorInit == V!Init => VectorInv
<1> SUFFICES ASSUME V!Init PROVE VectorInv
  OBVIOUS
<1>1. /\ eraseLoop \in {"teardown", "KICK"} /\ done = FALSE /\ at = 1
      /\ input \in Seq(Elem) /\ rest = input
  BY VectorOperators DEF V!Init
<1>2. Len(input) \in Nat /\ Seen = 1
  BY <1>1 DEF Seen
<1>3. KeptBefore(Seen) = DOMAIN input
  <2>1. DOMAIN input = 1 .. Len(input)
    BY <1>1
  <2>2. \A k \in DOMAIN input : k >= Seen
    BY <1>2, <2>1
  <2> QED BY <2>2 DEF KeptBefore
<1>4. 1 <= Len(input) => (Erased(input, target, 1) <=> input[1] = target)
  <2> SUFFICES ASSUME 1 <= Len(input) PROVE Erased(input, target, 1) <=> input[1] = target
    OBVIOUS
  <2>1. 1 \in DOMAIN input
    BY <1>1, <1>2
  <2> QED BY <1>1, <2>1, ErasedInTurn
<1>5. TeardownInv
  BY <1>1, <1>2, <1>3, <1>4, KeepAll DEF TeardownInv
<1>6. KickInv
  BY <1>1, <1>2 DEF KickInv
<1>7. V!ClosedForm
  <2>1. ~done
    BY <1>1
  <2> QED BY ONLY <2>1 DEF V!ClosedForm
<1>8. at \in Nat \ {0} /\ rest \in Seq(Elem) /\ done \in BOOLEAN
  <2>1. done \in BOOLEAN
    BY <1>1
  <2>2. at \in Nat \ {0}
    BY <1>1
  <2> QED BY <1>1, <2>1, <2>2
<1> QED BY <1>1, <1>5, <1>6, <1>7, <1>8 DEF VectorInv

\* Where the loop of the teardown stands in the vector as it was.
LEMMA SeenFacts ==
    ASSUME VectorInv, eraseLoop = "teardown", ~done
    PROVE  /\ Len(input) \in Nat /\ Len(rest) \in Nat /\ at \in Nat \ {0} /\ Seen \in Nat \ {0}
           /\ KeptBefore(Seen) \in SUBSET (DOMAIN input) /\ DOMAIN input = 1 .. Len(input)
           /\ at <= Len(rest) <=> Seen <= Len(input)
           /\ Seen <= Len(input) =>
                 /\ Seen \in KeptBefore(Seen) /\ Cardinality(KeptBefore(Seen) \cap 1 .. Seen) = at
                 /\ rest[at] = input[Seen]
<1> DEFINE n == Len(input)
           K == KeptBefore(Seen)
<1>1. input \in Seq(Elem) /\ rest \in Seq(Elem) /\ at \in Nat \ {0} /\ rest = Keep(input, K)
  BY DEF VectorInv, TeardownInv
<1>2. n \in Nat /\ Len(rest) \in Nat /\ DOMAIN input = 1 .. n /\ K \in SUBSET (DOMAIN input)
  BY <1>1 DEF KeptBefore
<1>3. Len(rest) = Cardinality(K)
  BY <1>1, <1>2, KeepProperties
<1>4. Cardinality(K) <= n
  <2>1. IsFiniteSet(1 .. n) /\ Cardinality(1 .. n) = IF 1 > n THEN 0 ELSE n - 1 + 1
    <3>1. 1 \in Int /\ n \in Int
      BY <1>2
    <3> QED BY <3>1, FS_Interval
  <2>2. Cardinality(K) <= Cardinality(1 .. n)
    BY <1>2, <2>1, FS_Subset
  <2> HIDE DEF K
  <2> QED BY <1>2, <2>1, <2>2
<1>5. Seen = at + (n - Len(rest)) /\ Len(rest) <= n
  BY <1>3, <1>4 DEF Seen
<1>6. Seen \in Nat \ {0} /\ (at <= Len(rest) <=> Seen <= n)
  BY <1>1, <1>2, <1>5
<1>7. ASSUME Seen <= n
      PROVE  Seen \in K /\ Cardinality(K \cap 1 .. Seen) = at /\ rest[at] = input[Seen]
  <2>1. Seen \in 1 .. n /\ Seen .. n \subseteq K /\ K \in SUBSET (1 .. n)
    BY <1>2, <1>6, <1>7 DEF KeptBefore
  <2>2. Seen \in K /\ Cardinality(K \cap 1 .. Seen) = Seen - (n - Cardinality(K))
    BY <1>2, <2>1, KeptFrom
  <2>3. Seen - (n - Len(rest)) = at
    BY <1>1, <1>2, <1>5
  <2>4. Cardinality(K \cap 1 .. Seen) = at
    BY <1>3, <2>2, <2>3
  <2>5. Keep(input, K)[Cardinality(K \cap 1 .. Seen)] = input[Seen]
    BY <1>1, <1>2, <2>2, KeepNth
  <2> QED BY <1>1, <2>2, <2>4, <2>5
<1> QED BY <1>1, <1>2, <1>6, <1>7

\* The loop of the teardown.
LEMMA TeardownStep ==
    ASSUME VectorInv, eraseLoop = "teardown", V!Next
    PROVE  VectorInv'
<1> DEFINE n == Len(input)
           p == Seen
<1>0. ~done /\ UNCHANGED <<eraseLoop, input, target>>
  BY DEF V!Next, V!Exit, V!Skip, V!EraseAndGoOn, V!EraseAndBreak
<1>1. input \in Seq(Elem) /\ rest \in Seq(Elem) /\ TeardownInv
  BY <1>0 DEF VectorInv
<1>2. /\ n \in Nat /\ Len(rest) \in Nat /\ at \in Nat \ {0} /\ p \in Nat \ {0}
      /\ KeptBefore(p) \in SUBSET (DOMAIN input) /\ DOMAIN input = 1 .. n
      /\ at <= Len(rest) <=> p <= n
      /\ p <= n => /\ p \in KeptBefore(p) /\ Cardinality(KeptBefore(p) \cap 1 .. p) = at
                   /\ rest[at] = input[p]
  BY <1>0, SeenFacts
<1>3. Seen = at + (Len(input) - Len(rest))
  BY DEF Seen
<1>4. CASE V!Exit
  <2>1. at > Len(rest) /\ done' = TRUE /\ UNCHANGED <<rest, at>>
    BY <1>4 DEF V!Exit
  <2>2. ~(p <= n)
    BY <1>2, <2>1
  <2>3. KeptBefore(p) = {k \in DOMAIN input : ~Erased(input, target, k)}
    BY <1>2, <2>2 DEF KeptBefore
  <2>4. rest = EraseSkipping(input, target)
    BY <1>1, <2>3 DEF TeardownInv, EraseSkipping
  <2>5. rest' = V!EraseSkipping(input', target')
    BY <1>0, <2>1, <2>4, VectorOperators
  <2>6. V!ClosedForm'
    BY <1>0, <2>5 DEF V!ClosedForm
  <2> QED BY <1>0, <1>1, <1>2, <2>1, <2>6 DEF VectorInv
<1>5. CASE V!Skip
  <2>1. at <= Len(rest) /\ rest[at] # target /\ at' = at + 1 /\ UNCHANGED <<rest, done>>
    BY <1>5 DEF V!Skip
  <2>2. p \in 1 .. n /\ input[p] # target
    BY <1>2, <2>1
  <2>3. ~Erased(input, target, p)
    BY <1>1, <2>2 DEF TeardownInv
  <2>4. Seen' = p + 1
    BY <1>0, <1>2, <1>3, <2>1 DEF Seen
  <2>5. KeptBefore(p + 1) = KeptBefore(p)
    BY <1>2, <2>2, <2>3 DEF KeptBefore
  <2>6. p + 1 <= n => (Erased(input, target, p + 1) <=> input[p + 1] = target)
    <3> SUFFICES ASSUME p + 1 <= n PROVE Erased(input, target, p + 1) <=> input[p + 1] = target
      OBVIOUS
    <3>1. p + 1 \in DOMAIN input /\ (p + 1) - 1 = p
      BY <1>2, <2>2
    <3> HIDE DEF p
    <3> QED BY <1>1, <2>3, <3>1, ErasedInTurn
  <2>7. KeptBefore(Seen)' = KeptBefore(p + 1)
    BY <1>0, <2>4 DEF KeptBefore
  <2>8. TeardownInv'
    BY <1>0, <1>1, <2>1, <2>4, <2>5, <2>6, <2>7 DEF TeardownInv
  <2> QED BY <1>0, <1>1, <1>2, <2>1, <2>8 DEF VectorInv, V!ClosedForm
<1>6. CASE V!EraseAndGoOn
  <2>1. /\ at <= Len(rest) /\ rest[at] = target /\ at' = at + 1
        /\ rest' = V!RemoveAt(rest, at) /\ UNCHANGED done
    BY <1>6 DEF V!EraseAndGoOn
  <2>2. p \in 1 .. n /\ input[p] = target
    BY <1>2, <2>1
  <2>3. Erased(input, target, p)
    BY <1>1, <2>2 DEF TeardownInv
  <2>4. p + 1 <= n => ~Erased(input, target, p + 1)
    <3> SUFFICES ASSUME p + 1 <= n PROVE ~Erased(input, target, p + 1)
      OBVIOUS
    <3>1. p + 1 \in DOMAIN input /\ (p + 1) - 1 = p /\ p + 1 # 1
      BY <1>2, <2>2
    <3> HIDE DEF p
    <3> QED BY <1>1, <2>3, <3>1, ErasedInTurn
  <2>5. rest' = Keep(input, KeptBefore(p) \ {p})
    BY <1>1, <1>2, <2>1, <2>2, RemoveIsKeep DEF TeardownInv
  <2>6. rest' \in Seq(Elem) /\ Len(rest') = Len(rest) - 1
    <3>1. at \in 1 .. Len(rest)
      BY <1>2, <2>1
    <3> QED BY <1>1, <2>1, <3>1, RemoveFacts
  <2>7. Seen' = p + 2
    BY <1>0, <1>2, <1>3, <2>1, <2>6 DEF Seen
  <2>8. KeptBefore(p + 2) = KeptBefore(p) \ {p}
    <3>1. ASSUME NEW k \in 1 .. n
          PROVE  (k >= p + 2 \/ ~Erased(input, target, k))
                     <=> (k >= p \/ ~Erased(input, target, k)) /\ k # p
      <4>1. k < p \/ k = p \/ k = p + 1 \/ k >= p + 2
        BY <1>2
      <4> HIDE DEF p
      <4> QED BY <1>2, <2>3, <2>4, <4>1
    <3> QED BY <1>2, <3>1 DEF KeptBefore
  <2>9. p + 2 <= n => (Erased(input, target, p + 2) <=> input[p + 2] = target)
    <3> SUFFICES ASSUME p + 2 <= n PROVE Erased(input, target, p + 2) <=> input[p + 2] = target
      OBVIOUS
    <3>1. p + 2 \in DOMAIN input /\ (p + 2) - 1 = p + 1 /\ p + 1 <= n
      BY <1>2, <2>2
    <3> HIDE DEF p
    <3> QED BY <1>1, <2>4, <3>1, ErasedInTurn
  <2>10. KeptBefore(Seen)' = KeptBefore(p + 2)
    BY <1>0, <2>7 DEF KeptBefore
  <2>11. TeardownInv'
    BY <1>0, <2>5, <2>7, <2>8, <2>9, <2>10 DEF TeardownInv
  <2> QED BY <1>0, <1>1, <1>2, <2>1, <2>6, <2>11 DEF VectorInv, V!ClosedForm
<1>7. CASE V!EraseAndBreak
  BY <1>7 DEF V!EraseAndBreak
<1> QED BY <1>4, <1>5, <1>6, <1>7 DEF V!Next

\* The loop of KICK.
LEMMA KickStep ==
    ASSUME VectorInv, eraseLoop = "KICK", V!Next
    PROVE  VectorInv'
<1> DEFINE n == Len(input)
<1>0. ~done /\ UNCHANGED <<eraseLoop, input, target>>
  BY DEF V!Next, V!Exit, V!Skip, V!EraseAndGoOn, V!EraseAndBreak
<1>1. /\ input \in Seq(Elem) /\ rest = input /\ at \in 1 .. n + 1 /\ n \in Nat /\ DOMAIN input = 1 .. n
      /\ \A k \in 1 .. n : k < at => input[k] # target
  BY <1>0 DEF VectorInv, KickInv
<1>2. CASE V!Exit
  <2>1. at = n + 1 /\ done' = TRUE /\ UNCHANGED <<rest, at>>
    BY <1>1, <1>2 DEF V!Exit
  <2>2. Positions(input, {target}) = {}
    BY <1>1, <2>1 DEF Positions
  <2>3. DropFirst(input, {target}) = input
    BY <2>2 DEF DropFirst
  <2>4. V!Range(SubSeq(input, 1, V!Min({at, n}))) = Scanned(input, {target})
    <3>1. at <= Len(input) => input[at] = target
      BY <1>1, <2>1
    <3> QED BY <1>1, <3>1, ScannedFacts
  <2>5. V!ClosedForm'
    BY <1>0, <1>1, <2>1, <2>3, <2>4, VectorOperators DEF V!ClosedForm
  <2> QED BY <1>0, <1>1, <2>1, <2>5 DEF VectorInv
<1>3. CASE V!Skip
  <2>1. at <= n /\ input[at] # target /\ at' = at + 1 /\ UNCHANGED <<rest, done>>
    BY <1>1, <1>3 DEF V!Skip
  <2>2. KickInv'
    BY <1>0, <1>1, <2>1 DEF KickInv
  <2> QED BY <1>0, <1>1, <2>1, <2>2 DEF VectorInv, V!ClosedForm
<1>4. CASE V!EraseAndBreak
  <2>1. at <= n /\ input[at] = target /\ rest' = V!RemoveAt(input, at) /\ done' = TRUE /\ UNCHANGED at
    BY <1>1, <1>4 DEF V!EraseAndBreak
  <2>2. at \in 1 .. n
    BY <1>1, <2>1
  <2>3. Positions(input, {target}) # {} /\ FirstPosition(input, {target}) = at
    <3>1. \A k \in DOMAIN input : k < at => input[k] \notin {target}
      BY <1>1
    <3>2. at \in DOMAIN input /\ input[at] \in {target}
      BY <1>1, <2>1, <2>2
    <3> QED BY <1>1, <3>1, <3>2, FirstFacts
  <2>4. DropFirst(input, {target}) = Keep(input, DOMAIN input \ {at})
    BY <2>3 DEF DropFirst
  <2>5. Cardinality(DOMAIN input \cap 1 .. at) = at
    <3>1. DOMAIN input \cap 1 .. at = 1 .. at
      BY <1>1, <2>2
    <3>2. Cardinality(1 .. at) = IF 1 > at THEN 0 ELSE at - 1 + 1
      BY <1>1, FS_Interval
    <3>3. Cardinality(1 .. at) = at
      BY <1>1, <3>2
    <3> QED BY <3>1, <3>3
  <2>6. V!RemoveAt(input, at) = Keep(input, DOMAIN input \ {at})
    <3>1. DOMAIN input \in SUBSET (DOMAIN input) /\ at \in DOMAIN input
      BY <1>1, <2>2
    <3>2. Keep(input, DOMAIN input) = input
      BY <1>1, KeepAll
    <3>3. LET a == Cardinality(DOMAIN input \cap 1 .. at)
          IN  V!RemoveAt(Keep(input, DOMAIN input), a) = Keep(input, DOMAIN input \ {at})
      <4>1. input \in Seq(Elem)
        BY <1>1
      <4> QED BY <3>1, <4>1, RemoveIsKeep
    <3> QED BY <2>5, <3>2, <3>3
  <2>7. V!Range(SubSeq(input, 1, V!Min({at, n}))) = Scanned(input, {target})
    BY <1>1, <2>1, ScannedFacts
  <2>8. V!ClosedForm'
    BY <1>0, <2>1, <2>4, <2>6, <2>7, VectorOperators DEF V!ClosedForm
  <2>9. rest' \in Seq(Elem)
    BY <1>1, <2>1, <2>2, RemoveFacts
  <2> QED BY <1>0, <1>1, <2>1, <2>8, <2>9 DEF VectorInv
<1>5. CASE V!EraseAndGoOn
  BY <1>5 DEF V!EraseAndGoOn
<1> QED BY <1>2, <1>3, <1>4, <1>5 DEF V!Next

\* For a vector of any length: the loop of the teardown, which does not step back,
\* erases of each run of the pointer the first, the third and so on, and that of
\* KICK the first one, having looked at no entry behind it.
THEOREM LoopsCorrect == PartsSpec => []LoopsMeetClosedForm
<1>1. PartsInit => VectorInv
  BY VectorInit DEF PartsInit
<1>2. VectorInv /\ [PartsNext]_partsVars => VectorInv'
  <2> SUFFICES ASSUME VectorInv, [PartsNext]_partsVars PROVE VectorInv'
    OBVIOUS
  <2>1. CASE V!Next
    BY <2>1, TeardownStep, KickStep DEF VectorInv
  <2>2. CASE UNCHANGED V!vars
    BY <2>2 DEF VectorInv, TeardownInv, KickInv, KeptBefore, Seen, V!ClosedForm, V!vars
  <2> QED BY <2>1, <2>2, EachPart
<1>3. VectorInv => LoopsMeetClosedForm
  BY DEF VectorInv, LoopsMeetClosedForm
<1> QED BY <1>1, <1>2, <1>3, PTL DEF PartsSpec

-----------------------------------------------------------------------------
\* The parts keep their types: among others each function is detoured once at most,
\* and no check looks at the disc more often than it may.
THEOREM PartsTypeCorrect == PartsSpec => []PartsTypeOK
<1>1. PartsSpec => Spec
  <2>1. PartsInit => Init
    BY DEF PartsInit
  <2> QED BY <2>1, EachPart, PTL DEF PartsSpec, Spec
<1>2. PartsSpec => []TypeOK
  BY <1>1, AcceptTypeCorrect, PTL
<1>3. PartsSpec => [](NetworkInv /\ DiscInv /\ FrameInv /\ SettingsInv)
  BY NetworkCorrect, DiscCorrect, FrameCorrect, SettingsCorrect, PTL
<1>4. TypeOK /\ NetworkInv /\ DiscInv /\ FrameInv /\ SettingsInv => PartsTypeOK
  BY DEF PartsTypeOK, NetworkInv, DiscInv, FrameInv, SettingsInv
<1> QED BY <1>2, <1>3, <1>4, PTL
=============================================================================
