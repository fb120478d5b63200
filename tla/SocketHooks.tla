----------------------------- MODULE SocketHooks -----------------------------
(***************************************************************************)
(* The winsock calls the game makes on its UDP sockets, which              *)
(* EmperorHooks/WolProxyBase.cpp answers from the proxy's queues: one      *)
(* queue of received packets per port, one entry per socket handle with    *)
(* the window that wants events and the peer, and the events posted to     *)
(* the windows.  bind and closesocket are not hooked: the proxy hears of   *)
(* neither, and the system hands a closed handle out again.                *)
(***************************************************************************)
EXTENDS Integers, Sequences

CONSTANTS
    Socket,   \* handles
    Port, Window,
    Peer,     \* addresses
    Data,     \* packets, each on its way once at a time
    Nothing,  \* no port, window, peer or entry
    IsServer, \* the proxy is a WolProxyServer
    MaxEvents \* bound: events in a window's queue

ASSUME ServerAssumption == IsServer \in BOOLEAN /\ MaxEvents \in Nat

VARIABLES
    port,     \* per handle: the port its socket is bound to
    sockets,  \* per handle: the proxy's entry
    queue,    \* per port: receivedPacketsByPort
    events,   \* per window: the FD_READ and FD_WRITE messages it has not handled
    failed,   \* an assertion has failed
    asked,    \* history: the window the socket itself asked events for
    dialled,  \* history: the peer the socket itself was connected to
    reused,   \* history: handles opened when they already had an entry
    owed      \* history: per port, the reader that was promised another event

osVars      == <<port, events>>
proxyVars   == <<sockets, queue>>
historyVars == <<asked, dialled, reused, owed>>
vars        == <<osVars, proxyVars, failed, historyVars>>

Entry == [isAsyncSelectRegistered: BOOLEAN, readEventSent: BOOLEAN, window: Window \cup {Nothing},
          connectAddr: Peer \cup {Nothing}, bindAddr: {Nothing}]

ASSUME NothingAssumption == Nothing \notin Socket \cup Port \cup Window \cup Peer \cup Entry

Event == [sock: Socket, event: {"FD_READ", "FD_WRITE"}]

Registered(s) == sockets[s] # Nothing /\ sockets[s].isAsyncSelectRegistered

\* Types; nobody has ever set bindAddr; a registered entry has a window; a
\* socket that was connected or has asked for events has an entry.
TypeOK ==
    /\ port \in [Socket -> Port \cup {Nothing}]
    /\ sockets \in [Socket -> Entry \cup {Nothing}]
    /\ queue \in [Port -> Seq(Data)]
    /\ events \in [Window -> Seq(Event)]
    /\ failed \in BOOLEAN
    /\ asked \in [Socket -> Window \cup {Nothing}]
    /\ dialled \in [Socket -> Peer \cup {Nothing}]
    /\ reused \subseteq Socket
    /\ owed \in [Port -> Socket \cup {Nothing}]
    /\ \A s \in Socket : Registered(s) => sockets[s].window # Nothing
    /\ \A s \in Socket : asked[s] # Nothing \/ dialled[s] # Nothing => sockets[s] # Nothing

Init ==
    /\ port = [s \in Socket |-> Nothing]
    /\ sockets = [s \in Socket |-> Nothing]
    /\ queue = [q \in Port |-> <<>>]
    /\ events = [w \in Window |-> <<>>]
    /\ failed = FALSE
    /\ asked = [s \in Socket |-> Nothing]
    /\ dialled = [s \in Socket |-> Nothing]
    /\ reused = {}
    /\ owed = [q \in Port |-> Nothing]

-----------------------------------------------------------------------------
(* The entries. *)

NewEntry == [isAsyncSelectRegistered |-> FALSE, readEventSent |-> FALSE, window |-> Nothing,
             connectAddr |-> Nothing, bindAddr |-> Nothing]

\* getOrCreateSocketData
Got(s) == IF sockets[s] = Nothing THEN NewEntry ELSE sockets[s]

\* PostMessageA to the window of entry e, on top of what Q holds.
Post(Q, e, s, kind) == [Q EXCEPT ![e.window] = Append(@, [sock |-> s, event |-> kind])]

Room == \A w \in Window : Len(events[w]) < MaxEvents

(* The game's calls. *)

\* socket and bind.
OpenSocket(s, q) ==
    /\ port[s] = Nothing
    /\ port' = [port EXCEPT ![s] = q]
    /\ asked' = [asked EXCEPT ![s] = Nothing]
    /\ dialled' = [dialled EXCEPT ![s] = Nothing]
    /\ reused' = IF sockets[s] = Nothing THEN reused ELSE reused \cup {s}
    /\ UNCHANGED <<proxyVars, events, failed, owed>>

CloseSocket(s) ==
    /\ port[s] # Nothing
    /\ port' = [port EXCEPT ![s] = Nothing]
    /\ owed' = [q \in Port |-> IF owed[q] = s THEN Nothing ELSE owed[q]]
    /\ UNCHANGED <<proxyVars, events, failed, asked, dialled, reused>>

\* Mutant of Selected: only an entry that is not registered yet is filled in.
SelectedOnce(s, w) ==
    IF Registered(s) THEN Got(s)
    ELSE [Got(s) EXCEPT !.isAsyncSelectRegistered = TRUE, !.readEventSent = TRUE, !.window = w]

Selected(s, w) ==
    [Got(s) EXCEPT !.isAsyncSelectRegistered = TRUE, !.readEventSent = TRUE, !.window = w]

\* WSAAsyncSelect_override.  sendWriteEvent sets readEventSent, too.
WSAAsyncSelect(s, w) ==
    /\ port[s] # Nothing /\ Room
    /\ sockets' = [sockets EXCEPT ![s] = Selected(s, w)]
    /\ events' = Post(events, Selected(s, w), s, "FD_WRITE")
    /\ asked' = [asked EXCEPT ![s] = w]
    /\ UNCHANGED <<port, queue, failed, dialled, reused, owed>>

Connected(s, a) == [Got(s) EXCEPT !.connectAddr = a]

\* connect_override
Connect(s, a) ==
    /\ port[s] # Nothing
    /\ sockets' = [sockets EXCEPT ![s] = Connected(s, a)]
    /\ dialled' = [dialled EXCEPT ![s] = a]
    /\ UNCHANGED <<osVars, queue, failed, asked, reused, owed>>

\* send_override changes nothing that is kept here: the datagram goes to the
\* peer of the entry.  Without an entry it asserts; with an entry that has no
\* peer it reads an empty optional, whose bytes may pass for an address or
\* fail the assertion on the address family.
Send(s) ==
    /\ port[s] # Nothing
    /\ \/ sockets[s] # Nothing /\ UNCHANGED failed
       \/ Got(s).connectAddr = Nothing /\ failed' = TRUE
    /\ UNCHANGED <<osVars, proxyVars, historyVars>>

\* Mutant of Again: it depends on a flag that has not been cleared yet.
AgainUnsent(s, rest) == rest # <<>> /\ Registered(s) /\ ~sockets[s].readEventSent

\* Another event follows the packet just read.
Again(s, rest) == rest # <<>> /\ Registered(s)

\* recvfrom_override on top of the events Q.
Recvfrom(s, Q) ==
    LET q    == port[s]
        rest == Tail(queue[q])
        read(flag) == IF sockets[s] = Nothing THEN sockets
                      ELSE [sockets EXCEPT ![s].readEventSent = flag]
    IN  IF queue[q] = <<>>
        THEN /\ sockets' = read(FALSE)
             /\ events' = Q
             /\ UNCHANGED <<queue, owed>>
        ELSE /\ queue' = [queue EXCEPT ![q] = rest]
             /\ sockets' = read(Again(s, rest))
             /\ events' = IF Again(s, rest) THEN Post(Q, sockets[s], s, "FD_READ") ELSE Q
             /\ owed' = [owed EXCEPT ![q] = IF rest = <<>> THEN Nothing
                                            ELSE IF Registered(s) THEN s ELSE @]

\* The game reads without having been told to.  recv_override does the same
\* after it has looked for the entry.
Poll(s) ==
    /\ port[s] # Nothing /\ Room
    /\ Recvfrom(s, events)
    /\ UNCHANGED <<port, failed, asked, dialled, reused>>

RecvWithoutEntry(s) ==
    /\ port[s] # Nothing /\ sockets[s] = Nothing
    /\ failed' = TRUE
    /\ UNCHANGED <<osVars, proxyVars, historyVars>>

\* A window takes its next message; on FD_READ the game reads once.
HandleEvent(w) ==
    LET e    == Head(events[w])
        rest == [events EXCEPT ![w] = Tail(@)]
    IN  /\ events[w] # <<>>
        /\ IF e.event = "FD_READ" /\ port[e.sock] # Nothing
           THEN Recvfrom(e.sock, rest)
           ELSE events' = rest /\ UNCHANGED <<proxyVars, owed>>
        /\ UNCHANGED <<port, failed, asked, dialled, reused>>

-----------------------------------------------------------------------------
(* The proxy's thread. *)

\* The sockets WolProxyServer::run posts FD_READ for.
Woken(q) ==
    {s \in Socket : IsServer /\ Registered(s) /\ sockets[s].bindAddr = q /\ ~sockets[s].readEventSent}

Waiting == UNION {{queue[q][i] : i \in DOMAIN queue[q]} : q \in Port}

\* A packet for port q arrives.
Arrive(q, d) ==
    /\ d \notin Waiting
    /\ queue' = [queue EXCEPT ![q] = Append(@, d)]
    /\ events' = [w \in Window |->
                    IF \E s \in Woken(q) : sockets[s].window = w
                    THEN Append(events[w], [sock |-> CHOOSE s \in Woken(q) : sockets[s].window = w,
                                            event |-> "FD_READ"])
                    ELSE events[w]]
    /\ sockets' = [s \in Socket |-> IF s \in Woken(q) THEN [sockets[s] EXCEPT !.readEventSent = TRUE]
                                    ELSE sockets[s]]
    /\ UNCHANGED <<port, failed, historyVars>>

Next ==
    /\ ~failed
    /\ \/ \E s \in Socket :
            \/ \E q \in Port : OpenSocket(s, q)
            \/ CloseSocket(s)
            \/ \E w \in Window : WSAAsyncSelect(s, w)
            \/ \E a \in Peer : Connect(s, a)
            \/ Send(s) \/ Poll(s) \/ RecvWithoutEntry(s)
       \/ \E w \in Window : HandleEvent(w)
       \/ \E q \in Port, d \in Data : Arrive(q, d)

Spec == Init /\ [][Next]_vars

\* The game's windows handle their messages; the game need not poll.
FairSpec == Spec /\ \A w \in Window : WF_vars(~failed /\ HandleEvent(w))

-----------------------------------------------------------------------------
(* Properties. *)

\* Once a registered socket has read one of several packets, an FD_READ for
\* it is under way as long as any are left: of a burst no packet waits for a
\* reader that has not been told.
WakeUpPending ==
    \A q \in Port : owed[q] # Nothing =>
        /\ queue[q] # <<>> /\ port[owed[q]] = q
        /\ \E w \in Window : \E i \in DOMAIN events[w] :
                events[w][i] = [sock |-> owed[q], event |-> "FD_READ"]

\* A socket's events go to the window it asked for last, and what it sends to
\* the peer it was connected to last; only one on a handle that was in use
\* before, and that has not asked or connected yet, has its predecessor's.
\* (One that was never connected, and whose handle never was, has none: what
\* Send makes of that is not claimed.)
EntryIsItsOwn ==
    \A s \in Socket : port[s] # Nothing /\ sockets[s] # Nothing =>
        /\ sockets[s].window # asked[s] => asked[s] = Nothing /\ s \in reused
        /\ sockets[s].connectAddr # dialled[s] => dialled[s] = Nothing /\ s \in reused

\* Every packet of a burst is read, however many arrive in the meantime.
BurstIsRead ==
    \A q \in Port, d \in Data :
        owed[q] # Nothing /\ (\E i \in DOMAIN queue[q] : queue[q][i] = d) ~>
            failed \/ owed[q] = Nothing \/ \A i \in DOMAIN queue[q] : queue[q][i] # d
=============================================================================
