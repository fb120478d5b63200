-------------------------- MODULE SocketHooksProofs --------------------------
(* The safety properties of SocketHooks, for any number of sockets, ports, *)
(* windows, peers and packets.                                             *)
EXTENDS SocketHooks, TLAPS

ReadEvent(s) == [sock |-> s, event |-> "FD_READ"]

\* An FD_READ for socket s is among the messages Q.
Pending(s, Q) == \E w \in Window : \E i \in DOMAIN Q[w] : Q[w][i] = ReadEvent(s)

\* Who has been promised an event is registered to get it.
OwedToReader ==
    \A q \in Port : owed[q] # Nothing =>
        /\ queue[q] # <<>> /\ port[owed[q]] = q /\ Registered(owed[q])
        /\ Pending(owed[q], events)

IInv == TypeOK /\ OwedToReader /\ EntryIsItsOwn

Messages == [Window -> Seq(Event)]

-----------------------------------------------------------------------------
(* The messages. *)

\* Posting keeps the messages well-typed.
LEMMA PostType ==
    ASSUME NEW Q \in Messages, NEW s \in Socket, NEW k \in {"FD_READ", "FD_WRITE"}, NEW e
    PROVE  Post(Q, e, s, k) \in Messages
<1>1. [sock |-> s, event |-> k] \in Event
  BY DEF Event
<1>2. ASSUME NEW w \in Window PROVE Append(Q[w], [sock |-> s, event |-> k]) \in Seq(Event)
  BY <1>1 DEF Messages
<1>3. QED
  BY <1>2 DEF Post, Messages

\* It hides none of those that are there.
LEMMA PostKeeps ==
    ASSUME NEW Q \in Messages, NEW s \in Socket, NEW k \in {"FD_READ", "FD_WRITE"}, NEW e,
           NEW t \in Socket, Pending(t, Q)
    PROVE  Pending(t, Post(Q, e, s, k))
<1>1. PICK w \in Window : \E i \in DOMAIN Q[w] : Q[w][i] = ReadEvent(t)
  BY DEF Pending
<1>2. PICK i \in DOMAIN Q[w] : Q[w][i] = ReadEvent(t)
  BY <1>1
<1>3. Q[w] \in Seq(Event)
  BY DEF Messages
<1>4. i \in DOMAIN Post(Q, e, s, k)[w] /\ Post(Q, e, s, k)[w][i] = ReadEvent(t)
  BY <1>2, <1>3 DEF Post, Messages
<1>5. QED
  BY <1>4 DEF Pending

\* And adds its own.
LEMMA PostAdds ==
    ASSUME NEW Q \in Messages, NEW s \in Socket, NEW e, e.window \in Window
    PROVE  Pending(s, Post(Q, e, s, "FD_READ"))
<1> DEFINE w == e.window
<1>1. Q[w] \in Seq(Event)
  BY DEF Messages
<1>2. /\ Len(Q[w]) + 1 \in DOMAIN Post(Q, e, s, "FD_READ")[w]
      /\ Post(Q, e, s, "FD_READ")[w][Len(Q[w]) + 1] = ReadEvent(s)
  BY <1>1 DEF Post, Messages, ReadEvent
<1>3. QED
  BY <1>2 DEF Pending

\* A window that takes its first message leaves the others.
LEMMA TakeKeeps ==
    ASSUME NEW Q \in Messages, NEW w \in Window, Q[w] # <<>>, NEW t \in Socket,
           Pending(t, Q), Head(Q[w]) # ReadEvent(t)
    PROVE  Pending(t, [Q EXCEPT ![w] = Tail(@)])
<1> DEFINE R == [Q EXCEPT ![w] = Tail(@)]
<1>1. PICK v \in Window : \E i \in DOMAIN Q[v] : Q[v][i] = ReadEvent(t)
  BY DEF Pending
<1>2. PICK i \in DOMAIN Q[v] : Q[v][i] = ReadEvent(t)
  BY <1>1
<1>3. Q[v] \in Seq(Event) /\ Q[w] \in Seq(Event)
  BY DEF Messages
<1>4. R[w] = Tail(Q[w]) /\ (v # w => R[v] = Q[v])
  BY DEF Messages
<1>5. SUFFICES Pending(t, R)
  OBVIOUS
<1> HIDE DEF R
<1>6. CASE v # w
  BY <1>2, <1>4, <1>6 DEF Pending
<1>7. CASE v = w
  <2>1. i # 1 /\ i \in 1 .. Len(Q[w])
    BY <1>2, <1>3, <1>7
  <2>2. /\ DOMAIN Tail(Q[w]) = 1 .. Len(Tail(Q[w]))
        /\ i - 1 \in 1 .. Len(Tail(Q[w])) /\ Tail(Q[w])[i - 1] = Q[w][i]
    BY <1>3, <2>1
  <2>3. i - 1 \in DOMAIN R[w] /\ R[w][i - 1] = ReadEvent(t)
    BY <1>2, <1>4, <1>7, <2>2
  <2>4. QED
    BY <2>3 DEF Pending
<1>8. QED
  BY <1>6, <1>7

\* Nor does it break their types.
LEMMA TakeType ==
    ASSUME NEW Q \in Messages, NEW w \in Window, Q[w] # <<>>
    PROVE  /\ [Q EXCEPT ![w] = Tail(@)] \in Messages
           /\ Head(Q[w]) \in Event
BY DEF Messages

\* Nobody is woken when a packet arrives, as no entry knows its port.
LEMMA NobodyWoken == ASSUME TypeOK, NEW q \in Port PROVE Woken(q) = {}
BY NothingAssumption DEF TypeOK, Woken, Registered, Entry
-----------------------------------------------------------------------------
(* Reading. *)

\* The flag of an entry changes nothing else of it.
LEMMA FlagType ==
    ASSUME NEW e \in Entry, NEW flag \in BOOLEAN
    PROVE  LET f == [e EXCEPT !.readEventSent = flag]
           IN  /\ f \in Entry
               /\ f.isAsyncSelectRegistered = e.isAsyncSelectRegistered
               /\ f.window = e.window /\ f.connectAddr = e.connectAddr
BY DEF Entry

\* What one read leaves behind, on top of messages that hold an event for
\* every reader to whom one is owed, except perhaps the one that reads now.
LEMMA ReadKeeps ==
    ASSUME TypeOK, NEW s \in Socket, port[s] # Nothing, NEW Q \in Messages, Recvfrom(s, Q),
           \A q \in Port : owed[q] # Nothing =>
              /\ queue[q] # <<>> /\ port[owed[q]] = q /\ Registered(owed[q])
              /\ owed[q] = s \/ Pending(owed[q], Q),
           UNCHANGED port
    PROVE  /\ sockets' \in [Socket -> Entry \cup {Nothing}]
           /\ queue' \in [Port -> Seq(Data)]
           /\ events' \in Messages
           /\ owed' \in [Port -> Socket \cup {Nothing}]
           /\ OwedToReader'
           /\ \A t \in Socket :
               /\ sockets'[t] = Nothing <=> sockets[t] = Nothing
               /\ sockets[t] # Nothing =>
                   /\ sockets'[t].isAsyncSelectRegistered = sockets[t].isAsyncSelectRegistered
                   /\ sockets'[t].window = sockets[t].window
                   /\ sockets'[t].connectAddr = sockets[t].connectAddr
<1> DEFINE q    == port[s]
           rest == Tail(queue[q])
<1>1. q \in Port /\ queue[q] \in Seq(Data)
  BY DEF TypeOK
<1>2. \E flag \in BOOLEAN : sockets' = IF sockets[s] = Nothing THEN sockets
                                      ELSE [sockets EXCEPT ![s].readEventSent = flag]
  <2>1. Again(s, rest) \in BOOLEAN
    BY DEF Again, Registered, TypeOK, Entry
  <2>2. CASE queue[q] = <<>>
    BY <2>2 DEF Recvfrom
  <2>3. CASE queue[q] # <<>>
    BY <2>1, <2>3 DEF Recvfrom
  <2>4. QED
    BY <2>2, <2>3
<1>3. /\ sockets' \in [Socket -> Entry \cup {Nothing}]
      /\ \A t \in Socket :
          /\ sockets'[t] = Nothing <=> sockets[t] = Nothing
          /\ sockets[t] # Nothing =>
              /\ sockets'[t].isAsyncSelectRegistered = sockets[t].isAsyncSelectRegistered
              /\ sockets'[t].window = sockets[t].window
              /\ sockets'[t].connectAddr = sockets[t].connectAddr
  <2>1. PICK flag \in BOOLEAN : sockets' = IF sockets[s] = Nothing THEN sockets
                                         ELSE [sockets EXCEPT ![s].readEventSent = flag]
    BY <1>2
  <2>2. CASE sockets[s] = Nothing
    BY <2>1, <2>2 DEF TypeOK
  <2>3. CASE sockets[s] # Nothing
    <3>1. sockets[s] \in Entry /\ sockets[s] # Nothing
      BY <2>3 DEF TypeOK
    <3>2. sockets' = [sockets EXCEPT ![s] = [sockets[s] EXCEPT !.readEventSent = flag]]
      BY <2>1, <2>3
    <3>3. [sockets[s] EXCEPT !.readEventSent = flag] \in Entry
      BY <3>1, FlagType
    <3>4. \A t \in Socket : sockets'[t] = IF t = s THEN [sockets[s] EXCEPT !.readEventSent = flag]
                                           ELSE sockets[t]
      BY <3>2 DEF TypeOK
    <3>5. sockets' \in [Socket -> Entry \cup {Nothing}]
      BY <3>2, <3>3 DEF TypeOK
    <3>6. [sockets[s] EXCEPT !.readEventSent = flag] # Nothing
      BY <3>3, NothingAssumption
    <3>7. QED
      BY <3>1, <3>4, <3>5, <3>6, FlagType DEF Entry
  <2>4. QED
    BY <2>2, <2>3
<1>4. \A t \in Socket : Registered(t)' <=> Registered(t)
  <2>1. ASSUME NEW t \in Socket PROVE Registered(t)' <=> Registered(t)
    <3>1. CASE sockets[t] = Nothing
      BY <1>3, <3>1 DEF Registered
    <3>2. CASE sockets[t] # Nothing
      <4>1. /\ sockets'[t] # Nothing
            /\ sockets'[t].isAsyncSelectRegistered = sockets[t].isAsyncSelectRegistered
        BY <1>3, <3>2
      <4>2. QED
        BY <3>2, <4>1, Zenon DEF Registered
    <3>3. QED
      BY <3>1, <3>2
  <2>2. QED
    BY <2>1
<1>5. CASE queue[q] = <<>>
  BY <1>1, <1>3, <1>4, <1>5 DEF Recvfrom, TypeOK, OwedToReader
<1>6. CASE queue[q] # <<>>
  <2>1. rest \in Seq(Data) /\ queue' = [queue EXCEPT ![q] = rest]
    BY <1>1, <1>6 DEF Recvfrom
  <2>2. queue' \in [Port -> Seq(Data)]
    BY <2>1 DEF TypeOK
  <2>3. owed' = [owed EXCEPT ![q] = IF rest = <<>> THEN Nothing
                                    ELSE IF Registered(s) THEN s ELSE @]
    BY <1>6 DEF Recvfrom
  <2>4. CASE Again(s, rest)
    <3>1. events' = Post(Q, sockets[s], s, "FD_READ") /\ sockets[s].window \in Window
      BY <1>6, <2>4 DEF Recvfrom, Again, Registered, TypeOK, Entry
    <3>2. events' \in Messages /\ Pending(s, events')
      BY <3>1, PostType, PostAdds
    <3>3. \A t \in Socket : Pending(t, Q) => Pending(t, events')
      BY <3>1, PostKeeps
    <3>4. QED
      BY <1>1, <1>3, <1>4, <2>1, <2>2, <2>3, <2>4, <3>2, <3>3, NothingAssumption
         DEF Again, TypeOK, OwedToReader
  <2>5. CASE ~Again(s, rest)
    <3>1. events' = Q
      BY <1>6, <2>5 DEF Recvfrom
    <3>2. ASSUME NEW p \in Port, owed'[p] # Nothing
          PROVE  owed'[p] = owed[p] /\ owed[p] # s
      BY <1>1, <2>3, <2>5, <3>2 DEF Again, TypeOK
    <3>3. OwedToReader'
      <4>1. ASSUME NEW p \in Port, owed'[p] # Nothing
            PROVE  (/\ queue[p] # <<>> /\ port[owed[p]] = p /\ Registered(owed[p])
                    /\ Pending(owed[p], events))'
        <5>1. owed'[p] = owed[p] /\ owed[p] # s /\ owed[p] \in Socket
          BY <3>2, <4>1 DEF TypeOK
        <5>2. queue[p] # <<>> /\ port[owed[p]] = p /\ Registered(owed[p]) /\ Pending(owed[p], Q)
          BY <4>1, <5>1
        <5>3. queue'[p] # <<>>
          BY <1>1, <2>1, <2>3, <4>1, <5>2 DEF TypeOK
        <5>4. QED
          BY <1>4, <3>1, <5>1, <5>2, <5>3
      <4>2. QED
        BY <4>1 DEF OwedToReader
    <3>4. owed' \in [Port -> Socket \cup {Nothing}]
      BY <1>1, <2>3 DEF TypeOK
    <3>5. QED
      BY <1>3, <2>2, <3>1, <3>3, <3>4
  <2>6. QED
    BY <2>4, <2>5
<1>7. QED
  BY <1>5, <1>6
-----------------------------------------------------------------------------
(* The steps. *)

\* The invariant holds before the first call.
LEMMA InitInv == Init => IInv
<1> SUFFICES ASSUME Init PROVE IInv
  OBVIOUS
<1>1. /\ queue \in [Port -> Seq(Data)]
      /\ events \in [Window -> Seq(Event)]
  BY DEF Init
<1>2. TypeOK
  BY <1>1 DEF Init, TypeOK, Registered
<1>3. QED
  BY <1>2 DEF Init, IInv, OwedToReader, EntryIsItsOwn

\* Opening and closing.
LEMMA OpenCloseStep ==
    ASSUME IInv, NEW s \in Socket, (\E q \in Port : OpenSocket(s, q)) \/ CloseSocket(s)
    PROVE  IInv'
<1>1. ASSUME NEW q \in Port, OpenSocket(s, q) PROVE IInv'
  <2> USE <1>1 DEF OpenSocket, IInv, proxyVars
  <2>1. TypeOK'
    BY DEF TypeOK, Registered
  <2>2. OwedToReader'
    BY NothingAssumption DEF TypeOK, OwedToReader, Registered, Pending
  <2>3. EntryIsItsOwn'
    BY DEF TypeOK, EntryIsItsOwn
  <2>4. QED
    BY <2>1, <2>2, <2>3
<1>2. ASSUME CloseSocket(s) PROVE IInv'
  <2> USE <1>2 DEF CloseSocket, IInv, proxyVars
  <2>1. TypeOK'
    BY DEF TypeOK, Registered
  <2>2. OwedToReader'
    BY DEF TypeOK, OwedToReader, Registered, Pending
  <2>3. EntryIsItsOwn'
    BY DEF TypeOK, EntryIsItsOwn
  <2>4. QED
    BY <2>1, <2>2, <2>3
<1>3. QED
  BY <1>1, <1>2
\* What the game asks for, and what it sends.
LEMMA AskStep ==
    ASSUME IInv, NEW s \in Socket,
           (\E w \in Window : WSAAsyncSelect(s, w)) \/ (\E a \in Peer : Connect(s, a)) \/ Send(s)
    PROVE  IInv'
<1>1. Got(s) \in Entry /\ (sockets[s] # Nothing => Got(s) = sockets[s])
  BY DEF IInv, TypeOK, Got, NewEntry, Entry
<1>2. ASSUME NEW w \in Window, WSAAsyncSelect(s, w) PROVE IInv'
  <2> DEFINE e == Selected(s, w)
  <2>1. /\ e \in Entry /\ e # Nothing /\ e.isAsyncSelectRegistered /\ e.window = w
        /\ e.connectAddr = Got(s).connectAddr
    <3>1. e \in Entry /\ e.isAsyncSelectRegistered /\ e.window = w
          /\ e.connectAddr = Got(s).connectAddr
      BY <1>1 DEF Selected, Entry
    <3>2. QED
      BY <3>1, NothingAssumption
  <2>2. sockets' = [sockets EXCEPT ![s] = e] /\ events' = Post(events, e, s, "FD_WRITE")
    BY <1>2 DEF WSAAsyncSelect
  <2>3. events \in Messages /\ events' \in Messages
    BY <2>2, PostType DEF IInv, TypeOK, Messages
  <2>4. \A t \in Socket : Pending(t, events) => Pending(t, events')
    BY <2>2, <2>3, PostKeeps
  <2>5. \A t \in Socket : Registered(t) => Registered(t)'
    BY <2>1, <2>2 DEF IInv, TypeOK, Registered
  <2> HIDE DEF e
  <2>6. TypeOK'
    BY <1>2, <2>1, <2>2, <2>3, NothingAssumption
       DEF WSAAsyncSelect, IInv, TypeOK, Registered, Messages
  <2>7. OwedToReader'
    BY <1>2, <2>4, <2>5 DEF WSAAsyncSelect, IInv, TypeOK, OwedToReader
  <2>8. EntryIsItsOwn'
    BY <1>1, <1>2, <2>1, <2>2, NothingAssumption
       DEF WSAAsyncSelect, IInv, TypeOK, EntryIsItsOwn, Got, NewEntry
  <2>9. QED
    BY <2>6, <2>7, <2>8 DEF IInv
<1>3. ASSUME NEW a \in Peer, Connect(s, a) PROVE IInv'
  <2> DEFINE e == Connected(s, a)
  <2>1. /\ e \in Entry /\ e # Nothing /\ e.connectAddr = a /\ e.window = Got(s).window
        /\ e.isAsyncSelectRegistered = Got(s).isAsyncSelectRegistered
    <3>1. /\ e \in Entry /\ e.connectAddr = a /\ e.window = Got(s).window
          /\ e.isAsyncSelectRegistered = Got(s).isAsyncSelectRegistered
      BY <1>1 DEF Connected, Entry
    <3>2. QED
      BY <3>1, NothingAssumption
  <2>2. sockets' = [sockets EXCEPT ![s] = e]
    BY <1>3 DEF Connect
  <2> HIDE DEF e
  <2>3. \A t \in Socket : t # s => sockets'[t] = sockets[t]
    BY <2>2 DEF IInv, TypeOK
  <2>4. sockets'[s] = e
    BY <2>2 DEF IInv, TypeOK
  <2>5. Registered(s)' <=> Registered(s)
    <3>1. CASE sockets[s] = Nothing
      BY <2>1, <2>4, <3>1 DEF Registered, Got, NewEntry
    <3>2. CASE sockets[s] # Nothing
      <4>1. e.isAsyncSelectRegistered = sockets[s].isAsyncSelectRegistered
        BY <1>1, <2>1, <3>2
      <4>2. QED
        BY <2>1, <2>4, <3>2, <4>1, Zenon DEF Registered
    <3>3. QED
      BY <3>1, <3>2
  <2>6. \A t \in Socket : Registered(t)' <=> Registered(t)
    BY <2>3, <2>5 DEF Registered
  <2>7. TypeOK'
    <3>1. \A t \in Socket : Registered(t)' => (sockets[t].window # Nothing)'
      BY <1>1, <2>1, <2>3, <2>4, <2>5, <2>6 DEF IInv, TypeOK, Registered
    <3>2. QED
      BY <1>3, <2>1, <2>2, <2>3, <2>4, <3>1 DEF Connect, IInv, TypeOK, osVars
  <2>8. OwedToReader'
    BY <1>3, <2>6 DEF Connect, IInv, TypeOK, OwedToReader, osVars, Pending
  <2>9. EntryIsItsOwn'
    BY <1>1, <1>3, <2>1, <2>3, <2>4, NothingAssumption
       DEF Connect, IInv, TypeOK, EntryIsItsOwn, Got, NewEntry, osVars
  <2>10. QED
    BY <2>7, <2>8, <2>9 DEF IInv
<1>4. ASSUME Send(s) PROVE IInv'
  <2> USE <1>4 DEF Send, IInv, osVars, proxyVars, historyVars
  <2>1. TypeOK'
    <3>1. failed' \in BOOLEAN
      BY DEF TypeOK
    <3>2. QED
      BY <3>1 DEF TypeOK, Registered
  <2>2. OwedToReader'
    BY DEF OwedToReader, Registered, Pending
  <2>3. EntryIsItsOwn'
    BY DEF EntryIsItsOwn
  <2>4. QED
    BY <2>1, <2>2, <2>3
<1>5. QED
  BY <1>2, <1>3, <1>4
\* What Recvfrom leaves is enough for the rest of the invariant.
LEMMA ReadStep ==
    ASSUME IInv, NEW s \in Socket, port[s] # Nothing, NEW Q \in Messages, Recvfrom(s, Q),
           \A q \in Port : owed[q] # Nothing => owed[q] = s \/ Pending(owed[q], Q),
           UNCHANGED <<port, failed, asked, dialled, reused>>
    PROVE  IInv'
<1>1. /\ sockets' \in [Socket -> Entry \cup {Nothing}]
      /\ queue' \in [Port -> Seq(Data)]
      /\ events' \in Messages
      /\ owed' \in [Port -> Socket \cup {Nothing}]
      /\ OwedToReader'
  BY ReadKeeps DEF IInv, OwedToReader
<1>2. ASSUME NEW t \in Socket
      PROVE  /\ sockets'[t] = Nothing <=> sockets[t] = Nothing
             /\ sockets[t] # Nothing =>
                  /\ sockets'[t].isAsyncSelectRegistered = sockets[t].isAsyncSelectRegistered
                  /\ sockets'[t].window = sockets[t].window
                  /\ sockets'[t].connectAddr = sockets[t].connectAddr
  BY ReadKeeps DEF IInv, OwedToReader
<1>3. ASSUME NEW t \in Socket, Registered(t)' PROVE Registered(t)
  <2>1. sockets[t] # Nothing
    BY <1>2, <1>3 DEF Registered
  <2>2. sockets'[t].isAsyncSelectRegistered = sockets[t].isAsyncSelectRegistered
    BY <1>2, <2>1
  <2>3. QED
    BY <1>3, <2>1, <2>2, Zenon DEF Registered
<1>4. ASSUME NEW t \in Socket, Registered(t)' PROVE sockets'[t].window # Nothing
  <2>1. Registered(t) /\ sockets[t] # Nothing
    BY <1>3, <1>4 DEF Registered
  <2>2. sockets'[t].window = sockets[t].window
    BY <1>2, <2>1
  <2>3. QED
    BY <2>1, <2>2 DEF IInv, TypeOK
<1>5. TypeOK'
  BY <1>1, <1>2, <1>4 DEF IInv, TypeOK, Messages
<1>6. EntryIsItsOwn'
  BY <1>2 DEF IInv, EntryIsItsOwn
<1>7. QED
  BY <1>1, <1>5, <1>6 DEF IInv

\* A window that handles a message, and a packet that arrives.
LEMMA EventStep ==
    ASSUME IInv, (\E w \in Window : HandleEvent(w)) \/ (\E q \in Port, d \in Data : Arrive(q, d))
    PROVE  IInv'
<1>0. events \in Messages
  BY DEF IInv, TypeOK, Messages
<1>1. ASSUME NEW w \in Window, HandleEvent(w) PROVE IInv'
  <2> DEFINE e == Head(events[w])
             Q == [events EXCEPT ![w] = Tail(@)]
  <2>1. events[w] # <<>> /\ UNCHANGED <<port, failed, asked, dialled, reused>>
    BY <1>1 DEF HandleEvent
  <2>2. Q \in Messages /\ e \in Event
    BY <1>0, <2>1, TakeType
  <2>3. ASSUME NEW t \in Socket, Pending(t, events), e # ReadEvent(t) PROVE Pending(t, Q)
    BY <1>0, <2>1, <2>3, TakeKeeps
  <2>4. e.sock \in Socket /\ (e.event = "FD_READ" => e = ReadEvent(e.sock))
    BY <2>2 DEF Event, ReadEvent
  <2>5. \A t \in Socket : e = ReadEvent(t) => t = e.sock /\ e.event = "FD_READ"
    BY DEF ReadEvent
  <2>6. CASE e.event = "FD_READ" /\ port[e.sock] # Nothing
    <3>1. Recvfrom(e.sock, Q)
      BY <1>1, <2>6 DEF HandleEvent
    <3>2. \A q \in Port : owed[q] # Nothing => owed[q] = e.sock \/ Pending(owed[q], Q)
      BY <2>3, <2>5 DEF IInv, TypeOK, OwedToReader
    <3> HIDE DEF e, Q
    <3>3. QED
      BY <2>1, <2>2, <2>4, <2>6, <3>1, <3>2, ReadStep
  <2>7. CASE ~(e.event = "FD_READ" /\ port[e.sock] # Nothing)
    <3>1. events' = Q /\ UNCHANGED <<proxyVars, owed>>
      BY <1>1, <2>7 DEF HandleEvent
    <3>2. ASSUME NEW q \in Port, owed[q] # Nothing PROVE Pending(owed[q], Q)
      <4>1. owed[q] \in Socket /\ port[owed[q]] = q /\ Pending(owed[q], events)
        BY <3>2 DEF IInv, TypeOK, OwedToReader
      <4>2. e # ReadEvent(owed[q])
        BY <2>5, <2>7, <4>1, NothingAssumption
      <4>3. QED
        BY <2>3, <4>1, <4>2
    <3> HIDE DEF e, Q
    <3>3. TypeOK'
      BY <2>1, <2>2, <3>1 DEF IInv, TypeOK, Registered, proxyVars, Messages
    <3>4. OwedToReader'
      BY <2>1, <3>1, <3>2 DEF IInv, OwedToReader, Registered, proxyVars
    <3>5. QED
      BY <2>1, <3>1, <3>3, <3>4 DEF IInv, EntryIsItsOwn, proxyVars
  <2>8. QED
    BY <2>6, <2>7
<1>2. ASSUME NEW q \in Port, NEW d \in Data, Arrive(q, d) PROVE IInv'
  <2>1. Woken(q) = {}
    BY NobodyWoken DEF IInv
  <2>2. events' = events /\ sockets' = sockets
    <3>1. events' = [w \in Window |-> events[w]] /\ sockets' = [s \in Socket |-> sockets[s]]
      BY <1>2, <2>1 DEF Arrive
    <3>2. QED
      BY <3>1 DEF IInv, TypeOK
  <2>3. queue' \in [Port -> Seq(Data)] /\ \A p \in Port : queue[p] # <<>> => queue'[p] # <<>>
    <3>1. queue[q] \in Seq(Data)
      BY DEF IInv, TypeOK
    <3>2. Append(queue[q], d) \in Seq(Data) /\ Append(queue[q], d) # <<>>
      BY <3>1
    <3>3. queue' = [queue EXCEPT ![q] = Append(queue[q], d)]
      BY <1>2 DEF Arrive
    <3>4. QED
      BY <3>2, <3>3 DEF IInv, TypeOK
  <2>4. TypeOK'
    BY <1>2, <2>2, <2>3 DEF Arrive, IInv, TypeOK, Registered, historyVars, Entry
  <2>5. OwedToReader'
    <3>1. UNCHANGED <<port, owed>>
      BY <1>2 DEF Arrive, historyVars
    <3>2. QED
      BY <2>2, <2>3, <3>1 DEF IInv, OwedToReader, Registered, Pending
  <2>6. QED
    BY <1>2, <2>2, <2>4, <2>5 DEF Arrive, IInv, EntryIsItsOwn, historyVars
<1>3. QED
  BY <1>1, <1>2

\* The invariant is inductive.
LEMMA StepInv == IInv /\ [Next]_vars => IInv'
<1> SUFFICES ASSUME IInv, [Next]_vars PROVE IInv'
  OBVIOUS
<1>1. CASE UNCHANGED vars
  <2> USE <1>1 DEF vars, osVars, proxyVars, historyVars, IInv
  <2>1. TypeOK'
    BY DEF TypeOK, Registered
  <2>2. OwedToReader'
    BY DEF OwedToReader, Registered, Pending
  <2>3. QED
    BY <2>1, <2>2 DEF EntryIsItsOwn
<1>2. ASSUME NEW s \in Socket, Poll(s) PROVE IInv'
  <2>1. events \in Messages
    BY DEF IInv, TypeOK, Messages
  <2>2. \A q \in Port : owed[q] # Nothing => owed[q] = s \/ Pending(owed[q], events)
    BY DEF IInv, OwedToReader
  <2>3. QED
    BY <1>2, <2>1, <2>2, ReadStep DEF Poll
<1>3. ASSUME NEW s \in Socket, RecvWithoutEntry(s) PROVE IInv'
  <2> USE <1>3 DEF RecvWithoutEntry, osVars, proxyVars, historyVars, IInv
  <2>1. TypeOK'
    BY DEF TypeOK, Registered
  <2>2. OwedToReader'
    BY DEF OwedToReader, Registered, Pending
  <2>3. QED
    BY <2>1, <2>2 DEF EntryIsItsOwn
<1>4. QED
  BY <1>1, <1>2, <1>3, OpenCloseStep, AskStep, EventStep DEF Next

\* The invariant holds throughout.
THEOREM HooksInv == Spec => []IInv
BY InitInv, StepInv, PTL DEF Spec

\* The types of the hooks' state, and what an entry always has.
THEOREM HooksTypeCorrect == Spec => []TypeOK
BY HooksInv, PTL DEF IInv

\* However many sockets share a port, a reader that left packets behind has an
\* event under way.
THEOREM WakeUpCorrect == Spec => []WakeUpPending
<1>1. IInv => WakeUpPending
  BY DEF IInv, OwedToReader, WakeUpPending, Pending, ReadEvent
<1>2. QED
  BY <1>1, HooksInv, PTL

\* What an entry says is what its socket asked for, reused handles apart.
THEOREM EntryCorrect == Spec => []EntryIsItsOwn
BY HooksInv, PTL DEF IInv
=============================================================================
