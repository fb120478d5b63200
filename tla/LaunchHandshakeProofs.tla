------------------------ MODULE LaunchHandshakeProofs ------------------------
(* The safety properties of LaunchHandshake, for any number of launchers. *)
EXTENDS LaunchHandshake, TLAPS

\* A game exists once its launcher has run it, and is an orphan if the
\* launcher has ended before it.
Parentage ==
    \A l \in Launcher :
        /\ game[l] # "none" => pc[l] \in (Turn \ {"locked"}) \cup {"gone"}
        /\ Alive(l) /\ pc[l] = "gone" => l \in orphans

\* The data is written before the event exists, the message sent after.
Order ==
    \A l \in Launcher :
        /\ pc[l] \in Turn \ {"locked", "spawned"} => l \in written
        /\ message[l] # "none" => pc[l] \in {"closing", "playing", "gone"} /\ l \in written
        /\ game[l] = "mapped" => l \in written

\* Who has set the event: the launcher's game, or one that is an orphan.
SignalHasCause ==
    \A l \in Launcher :
        (pc[l] = "waiting" /\ signalled) \/ pc[l] = "posting" =>
            game[l] \in {"set", "listening", "mapped", "gone"} \/ orphans \ {l} # {}

IInv == TypeOK /\ OneLauncher /\ Parentage /\ Order /\ SignalHasCause /\ LostHasCause

\* The invariant holds before any launcher has been started.
LEMMA InitInv == Init => IInv
BY DEF Init, IInv, TypeOK, Handles, OneLauncher, Parentage, Order, SignalHasCause, LostHasCause,
       Alive, Phase, Turn

\* Types and handles survive every step.
LEMMA TypeStep == TypeOK /\ Parentage /\ [Next]_vars => TypeOK'
<1> SUFFICES ASSUME TypeOK, Parentage, [Next]_vars PROVE TypeOK'
  OBVIOUS
<1> USE DEF TypeOK, Handles, Turn, Phase
<1>1. CASE UNCHANGED vars
  BY <1>1 DEF vars, kernel, history
<1>2. ASSUME NEW l \in Launcher, CreateMapping(l) PROVE TypeOK'
  BY <1>2 DEF CreateMapping, Locked, history
<1>3. ASSUME NEW l \in Launcher, RunGame(l) PROVE TypeOK'
  <2>1. game[l] = "none"
    BY <1>3 DEF RunGame, Parentage
  <2>2. QED
    BY <1>3, <2>1 DEF RunGame, kernel, history
<1>4. ASSUME NEW l \in Launcher, WriteData(l) PROVE TypeOK'
  BY <1>4 DEF WriteData, Filled, kernel, history
<1>5. ASSUME NEW l \in Launcher, CreateReadyEvent(l) PROVE TypeOK'
  BY <1>5 DEF CreateReadyEvent, EventExists, history
<1>6. ASSUME NEW l \in Launcher, EndWait(l) PROVE TypeOK'
  BY <1>6 DEF EndWait, WaitEnds, history
<1>7. ASSUME NEW l \in Launcher, TimeOut(l) PROVE TypeOK'
  BY <1>7 DEF TimeOut, TimedOut, kernel, history
<1>8. ASSUME NEW l \in Launcher, PostHandle(l) PROVE TypeOK'
  BY <1>8 DEF PostHandle, Delivered, kernel, history
<1>9. ASSUME NEW l \in Launcher, CloseReadyEvent(l) PROVE TypeOK'
  BY <1>9 DEF CloseReadyEvent, Closed, history
<1>10. ASSUME NEW l \in Launcher, Finish(l) \/ Abort(l) \/ Kill(l) PROVE TypeOK'
  BY <1>10 DEF Finish, Abort, Kill, Gone, history
<1>11. ASSUME NEW l \in Launcher, MakeQueue(l) PROVE TypeOK'
  BY <1>11 DEF MakeQueue, Advance, kernel, history
<1>12. ASSUME NEW l \in Launcher, OpenReadyEvent(l) PROVE TypeOK'
  BY <1>12 DEF OpenReadyEvent, Advance, history
<1>13. ASSUME NEW l \in Launcher, SetReadyEvent(l) PROVE TypeOK'
  BY <1>13 DEF SetReadyEvent, Advance, history
<1>14. ASSUME NEW l \in Launcher, CloseOpened(l) PROVE TypeOK'
  BY <1>14 DEF CloseOpened, Advance, history
<1>15. ASSUME NEW l \in Launcher, MapData(l) PROVE TypeOK'
  BY <1>15 DEF MapData, Advance, kernel, history
<1>16. ASSUME NEW l \in Launcher, ExitGame(l) PROVE TypeOK'
  BY <1>16 DEF ExitGame, Alive, history
<1>17. QED
  BY <1>1, <1>2, <1>3, <1>4, <1>5, <1>6, <1>7, <1>8, <1>9, <1>10, <1>11, <1>12, <1>13, <1>14,
     <1>15, <1>16 DEF Next, LauncherStep, GameStep

\* The rest of the invariant survives the steps of a launcher.
LEMMA LauncherInv ==
    ASSUME IInv, NEW l \in Launcher, TypeOK',
           CreateMapping(l) \/ LauncherStep(l) \/ TimeOut(l) \/ Abort(l) \/ Kill(l)
    PROVE  IInv'
<1> USE DEF IInv, TypeOK, Handles, OneLauncher, Parentage, Order, SignalHasCause, LostHasCause,
            Alive, Turn, Phase
<1>1. CASE CreateMapping(l)
  BY <1>1 DEF CreateMapping, Locked, history
<1>2. CASE RunGame(l)
  BY <1>2 DEF RunGame, kernel, history
<1>3. CASE WriteData(l)
  BY <1>3 DEF WriteData, Filled, kernel, history
<1>4. CASE CreateReadyEvent(l)
  <2>1. \A m \in Launcher : pc'[m] = "waiting" => m = l /\ ~EventExists
    BY <1>4 DEF CreateReadyEvent
  <2>2. ~EventExists => ~signalled'
    BY <1>4 DEF CreateReadyEvent
  <2>3. SignalHasCause'
    BY <1>4, <2>1, <2>2 DEF CreateReadyEvent, history
  <2>4. QED
    BY <1>4, <2>3 DEF CreateReadyEvent, history
<1>5. CASE EndWait(l)
  BY <1>5 DEF EndWait, WaitEnds, history
<1>6. CASE TimeOut(l)
  BY <1>6 DEF TimeOut, TimedOut, kernel, history
<1>7. CASE PostHandle(l)
  BY <1>7 DEF PostHandle, Delivered, kernel, history
<1>8. CASE CloseReadyEvent(l)
  BY <1>8 DEF CloseReadyEvent, Closed, history
<1>9. CASE Finish(l) \/ Abort(l) \/ Kill(l)
  BY <1>9 DEF Finish, Abort, Kill, Gone, history
<1>10. QED
  BY <1>1, <1>2, <1>3, <1>4, <1>5, <1>6, <1>7, <1>8, <1>9 DEF LauncherStep

\* And those of its game.
LEMMA GameInv ==
    ASSUME IInv, NEW l \in Launcher, TypeOK', MakeQueue(l) \/ GameStep(l) \/ ExitGame(l)
    PROVE  IInv'
<1> USE DEF IInv, TypeOK, Handles, OneLauncher, Parentage, Order, SignalHasCause, LostHasCause,
            Alive, Turn, Phase
<1>1. CASE MakeQueue(l)
  BY <1>1 DEF MakeQueue, Advance, kernel, history
<1>2. CASE OpenReadyEvent(l)
  BY <1>2 DEF OpenReadyEvent, Advance, history
<1>3. CASE SetReadyEvent(l)
  <2>1. ASSUME NEW m \in Launcher, pc[m] = "waiting", m # l PROVE l \in orphans
    BY <1>3, <2>1 DEF SetReadyEvent, Advance
  <2>2. SignalHasCause'
    BY <1>3, <2>1 DEF SetReadyEvent, Advance, history
  <2>3. QED
    BY <1>3, <2>2 DEF SetReadyEvent, Advance, history
<1>4. CASE CloseOpened(l)
  BY <1>4 DEF CloseOpened, Advance, history
<1>5. CASE MapData(l)
  BY <1>5 DEF MapData, Advance, kernel, history
<1>6. CASE ExitGame(l)
  BY <1>6 DEF ExitGame, history
<1>7. QED
  BY <1>1, <1>2, <1>3, <1>4, <1>5, <1>6 DEF GameStep

\* The invariant is inductive.
LEMMA StepInv == IInv /\ [Next]_vars => IInv'
<1> SUFFICES ASSUME IInv, [Next]_vars PROVE IInv'
  OBVIOUS
<1>1. TypeOK'
  BY TypeStep DEF IInv
<1>2. CASE UNCHANGED vars
  BY <1>1, <1>2 DEF IInv, OneLauncher, Parentage, Order, SignalHasCause, LostHasCause, Alive,
                   vars, kernel, history
<1>3. CASE Next
  BY <1>1, <1>3, LauncherInv, GameInv DEF Next
<1>4. QED
  BY <1>2, <1>3

\* The invariant holds throughout.
THEOREM HandshakeInv == Spec => []IInv
BY InitInv, StepInv, PTL DEF Spec

\* The types of the handshake's state, and which process has which handle
\* open at which step.
THEOREM HandshakeTypeCorrect == Spec => []TypeOK
BY HandshakeInv, PTL DEF IInv

\* However many launchers are started, killed or aborted, the mutex lets one
\* of them through at a time.
THEOREM OneLauncherCorrect == Spec => []OneLauncher
BY HandshakeInv, PTL DEF IInv

\* Two games at once have a launcher that ended before its game.
THEOREM OneGameCorrect == Spec => []OneGame
<1>1. IInv => OneGame
  BY DEF IInv, OneLauncher, Parentage, OneGame, Alive, Phase
<1>2. QED
  BY <1>1, HandshakeInv, PTL

\* A game maps only data that its launcher has written.
THEOREM MapsCorrect == Spec => []MapsWhatIsWritten
<1>1. IInv => MapsWhatIsWritten
  BY DEF IInv, Order, MapsWhatIsWritten
<1>2. QED
  BY <1>1, HandshakeInv, PTL

\* A message that a running game never gets was posted on the signal of an
\* orphan.
THEOREM LostCorrect == Spec => []LostHasCause
BY HandshakeInv, PTL DEF IInv
=============================================================================
