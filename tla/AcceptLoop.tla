----------------------------- MODULE AcceptLoop -----------------------------
(***************************************************************************)
(* How a thread of the lobby server gets its connection, in run and        *)
(* clientLoop of EmperorHooks/WolIrcServer.cpp.  The lambda of the new     *)
(* thread captures the accept loop's local pointer by reference and reads  *)
(* it when the thread runs, which may be after the loop has gone on to the *)
(* next client.                                                            *)
(*                                                                         *)
(* Connection k is the k-th that is accepted and thread k the one that is  *)
(* made for it; 0 is nullptr.  Lines, and what the threads do with them,   *)
(* are in WolIrcServer, where a thread starts at once.                     *)
(***************************************************************************)
EXTENDS Integers

CONSTANT MaxConn   \* bound: connections accepted

ASSUME MaxConnAssumption == MaxConn \in Nat

Conn == 1 .. MaxConn

VARIABLES
    accepted,    \* how many accepts have returned a socket
    loop,        \* the next step of the accept loop
    slot,        \* the stack slot of its variable "connection"
    connections, \* the connections that exist
    connected,   \* those whose "connected" is still set
    thread,      \* per thread: what it does
    serves,      \* per thread: the connection it was given, 0 before that
    fault,       \* why the process died: "none" while it runs
    late         \* history: threads that ran only after the next accept

serverVars == <<accepted, loop, slot>>
threadVars == <<thread, serves, fault, late>>
vars == <<serverVars, connections, connected, threadVars>>

Busy == {"serving", "closing"}

TypeOK ==
    /\ accepted \in 0 .. MaxConn
    /\ loop \in {"accepting", "appending", "spawning"}
    /\ slot \in 0 .. accepted
    /\ connections \subseteq 1 .. accepted
    /\ connected \subseteq 1 .. accepted
    /\ thread \in [Conn -> Busy \cup {"none", "starting", "ended"}]
    /\ serves \in [Conn -> 0 .. accepted]
    /\ fault \in {"none", "null", "dangling"}
    /\ late \subseteq Conn

Init ==
    /\ accepted = 0 /\ loop = "accepting" /\ slot = 0
    /\ connections = {} /\ connected = {}
    /\ thread = [t \in Conn |-> "none"]
    /\ serves = [t \in Conn |-> 0]
    /\ fault = "none" /\ late = {}

-----------------------------------------------------------------------------
(* The accept loop. *)

\* Mutant of New: the first connection is taken.
NewIsFirst == 1

\* The pointer emplace_back(...).get() returns.
New == accepted

\* accept returns a socket and the next turn of the loop declares the pointer:
\* in the slot the pointer of the turn before had, cleared or, if the compiler
\* dropped the store that nothing reads, not yet.
Accept ==
    /\ fault = "none" /\ loop = "accepting"
    /\ accepted < MaxConn
    /\ accepted' = accepted + 1
    /\ slot' \in {0, slot}
    /\ loop' = "appending"
    /\ UNCHANGED <<connections, connected, threadVars>>

EmplaceBack ==
    /\ fault = "none" /\ loop = "appending"
    /\ connections' = connections \cup {accepted}
    /\ connected' = connected \cup {accepted}
    /\ slot' = New
    /\ loop' = "spawning"
    /\ UNCHANGED <<accepted, threadVars>>

Detach ==
    /\ fault = "none" /\ loop = "spawning"
    /\ thread' = [thread EXCEPT ![accepted] = "starting"]
    /\ loop' = "accepting"
    /\ UNCHANGED <<accepted, slot, connections, connected, serves, fault, late>>

-----------------------------------------------------------------------------
(* The threads. *)

\* this->clientLoop(*connection): the slot is read now.
Start(t) ==
    /\ fault = "none" /\ thread[t] = "starting"
    /\ serves' = [serves EXCEPT ![t] = slot]
    /\ thread' = [thread EXCEPT ![t] = "serving"]
    /\ fault' = IF slot = 0 THEN "null" ELSE "none"
    /\ late' = IF t = accepted THEN late ELSE late \cup {t}
    /\ UNCHANGED <<serverVars, connections, connected>>

\* A thread that touches a Connection another thread has destroyed.
Dangle(t) ==
    /\ fault = "none" /\ thread[t] \in Busy
    /\ serves[t] \notin connections
    /\ fault' = "dangling"
    /\ UNCHANGED <<serverVars, connections, connected, thread, serves, late>>

\* recv fails, or QUIT is handled: connected is cleared.
Hangup(t) ==
    /\ fault = "none" /\ thread[t] = "serving"
    /\ serves[t] \in connections
    /\ connected' = connected \ {serves[t]}
    /\ UNCHANGED <<serverVars, connections, threadVars>>

\* while (connection.connected) ends.
Leave(t) ==
    /\ fault = "none" /\ thread[t] = "serving"
    /\ serves[t] \in connections \ connected
    /\ thread' = [thread EXCEPT ![t] = "closing"]
    /\ UNCHANGED <<serverVars, connections, connected, serves, fault, late>>

\* Whose connection a closing thread destroys; mutant: the next one.
DestroyedByNumber(t) == t + 1
Destroyed(t) == serves[t]

\* The connection is closed, erased and destroyed.
Teardown(t) ==
    /\ fault = "none" /\ thread[t] = "closing"
    /\ serves[t] \in connections
    /\ connections' = connections \ {Destroyed(t)}
    /\ thread' = [thread EXCEPT ![t] = "ended"]
    /\ UNCHANGED <<serverVars, connected, serves, fault, late>>

Next ==
    \/ Accept \/ EmplaceBack \/ Detach
    \/ \E t \in Conn : Start(t) \/ Dangle(t) \/ Hangup(t) \/ Leave(t) \/ Teardown(t)

Spec == Init /\ [][Next]_vars

-----------------------------------------------------------------------------
(* Properties. *)

\* A thread serves the connection it was made for unless it ran only after the
\* next client had been accepted.  Two threads then share one
\* connection, and one client is never answered.
OwnUnlessLate == \A t \in Conn : thread[t] \in Busy => t \in late \/ serves[t] = t

\* Even then it gets a connection accepted after its own, never one before it:
\* a client that is being served is not disturbed by threads made earlier for
\* others and started in time.
NeverEarlier == \A t \in Conn : serves[t] # 0 => serves[t] >= t

\* The server dies of a null or dangling Connection only if some thread was
\* late.
FaultHasCause == fault # "none" => late # {}
=============================================================================
