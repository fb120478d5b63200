--------------------------- MODULE LaunchHandshake ---------------------------
(***************************************************************************)
(* How the launcher starts the game and hands it the decrypted data, in    *)
(* EmperorLauncher/EmperorLauncher.cpp, and the game's side of it, which   *)
(* CommsDataDumper/CommsDataDumper.cpp repeats: a mutex lets one launcher  *)
(* through, a mapping the game inherits holds the data, a named event says *)
(* the game is ready, and a message to its thread carries the handle.      *)
(*                                                                         *)
(* A launcher stands for one run of EmperorLauncher.exe after Play has     *)
(* been clicked, together with the one game it may start.  Either may be   *)
(* killed at any step.  A kernel object lives while a handle is open.      *)
(***************************************************************************)
CONSTANT Launcher

VARIABLES
    pc,        \* per launcher: what it has done
    game,      \* per launcher: what its game has done
    mutex,     \* launchers with a handle of globalCommsHandleMutex
    event,     \* launchers with a handle of gameReadyEvent
    opened,    \* launchers whose game has a handle of gameReadyEvent
    signalled, \* the event is set
    written,   \* launchers that have filled their mapping
    message,   \* per launcher: the 0xBEEF message to its game's thread
    orphans,   \* history: launchers that ended before their game
    late       \* history: launchers whose wait timed out

kernel  == <<mutex, event, opened, signalled>>
history == <<orphans, late>>
vars    == <<pc, game, kernel, written, message, history>>

\* A failed release_assert shows a message box before it aborts: "refused"
\* for the one on the mutex, "asserted" for the one on the event.
Turn  == {"locked", "spawned", "written", "waiting", "posting", "closing", "playing", "asserted"}
Phase == {"starting", "looking", "opened", "set", "listening", "mapped"}

Alive(l) == game[l] \in Phase

\* The kernel objects and the steps of the processes agree.
Handles ==
    /\ mutex = {l \in Launcher : pc[l] \in Turn \cup {"refused"}}
    /\ event = {l \in Launcher : pc[l] \in {"waiting", "posting", "closing", "asserted"}}
    /\ opened = {l \in Launcher : game[l] \in {"opened", "set"}}

\* Every variable has its type, and handles are open exactly between the
\* calls that open and close them.
TypeOK ==
    /\ pc \in [Launcher -> Turn \cup {"dialog", "refused", "gone"}]
    /\ game \in [Launcher -> Phase \cup {"none", "gone"}]
    /\ signalled \in BOOLEAN
    /\ written \subseteq Launcher
    /\ message \in [Launcher -> {"none", "queued", "lost"}]
    /\ orphans \subseteq Launcher
    /\ late \subseteq Launcher
    /\ Handles

Init ==
    /\ pc = [l \in Launcher |-> "dialog"]
    /\ game = [l \in Launcher |-> "none"]
    /\ mutex = {} /\ event = {} /\ opened = {} /\ signalled = FALSE
    /\ written = {}
    /\ message = [l \in Launcher |-> "none"]
    /\ orphans = {} /\ late = {}

-----------------------------------------------------------------------------
(* The launcher. *)

EventExists == event \cup opened # {}

\* Mutant of Locked: GetLastError is not looked at.
LockedAnyway == "locked"

\* release_assert(globalCommsHandleMutex && GetLastError() == 0)
Locked == IF mutex = {} THEN "locked" ELSE "refused"

CreateMapping(l) ==
    /\ pc[l] = "dialog"
    /\ pc' = [pc EXCEPT ![l] = Locked]
    /\ mutex' = mutex \cup {l}
    /\ UNCHANGED <<game, event, opened, signalled, written, message, history>>

RunGame(l) ==
    /\ pc[l] = "locked"
    /\ pc' = [pc EXCEPT ![l] = "spawned"]
    /\ game' = [game EXCEPT ![l] = "starting"]
    /\ UNCHANGED <<kernel, written, message, history>>

Filled(l) == written \cup {l}

WriteData(l) ==
    /\ pc[l] = "spawned"
    /\ pc' = [pc EXCEPT ![l] = "written"]
    /\ written' = Filled(l)
    /\ UNCHANGED <<game, kernel, message, history>>

CreateReadyEvent(l) ==
    /\ pc[l] = "written"
    /\ pc' = [pc EXCEPT ![l] = IF EventExists THEN "asserted" ELSE "waiting"]
    /\ event' = event \cup {l}
    /\ signalled' = (EventExists /\ signalled)
    /\ UNCHANGED <<game, mutex, opened, written, message, history>>

\* Mutants of WaitEnds: the process is not among the handles; the ! in front
\* of the call is missing.
WaitEndsByEvent(l) == IF signalled THEN {"posting"} ELSE {}
WaitEndsInverted(l) ==
    IF signalled THEN {"closing"} ELSE IF game[l] = "gone" THEN {"posting"} ELSE {}

\* WaitForMultipleObjects without its timeout: the event comes first.
WaitEnds(l) ==
    IF signalled THEN {"posting"} ELSE IF game[l] = "gone" THEN {"closing"} ELSE {}

\* The event is reset by the wait it ends.
EndWait(l) ==
    /\ pc[l] = "waiting"
    /\ \E next \in WaitEnds(l) : pc' = [pc EXCEPT ![l] = next]
    /\ signalled' = FALSE
    /\ UNCHANGED <<game, mutex, event, opened, written, message, history>>

\* Mutant of TimedOut: only the end of the process is told from the event.
TimedOutAsReady == "posting"

TimedOut == "closing"

\* The five minutes are over.
TimeOut(l) ==
    /\ pc[l] = "waiting" /\ ~signalled /\ game[l] # "gone"
    /\ pc' = [pc EXCEPT ![l] = TimedOut]
    /\ late' = late \cup {l}
    /\ UNCHANGED <<game, kernel, written, message, orphans>>

\* PostThreadMessageA fails, unheard, without a thread or its message queue.
\* What else a game does before it looks for the event may have made one.
Delivered(l) ==
    CASE game[l] = "gone"     -> {"lost"}
      [] game[l] = "starting" -> {"lost", "queued"}
      [] OTHER                -> {"queued"}

PostHandle(l) ==
    /\ pc[l] = "posting"
    /\ \E m \in Delivered(l) : message' = [message EXCEPT ![l] = m]
    /\ pc' = [pc EXCEPT ![l] = "closing"]
    /\ UNCHANGED <<game, kernel, written, history>>

Closed(l) == event \ {l}

CloseReadyEvent(l) ==
    /\ pc[l] = "closing"
    /\ pc' = [pc EXCEPT ![l] = "playing"]
    /\ event' = Closed(l)
    /\ UNCHANGED <<game, mutex, opened, signalled, written, message, history>>

\* The process ends and the kernel closes its handles.
Gone(l) ==
    /\ pc' = [pc EXCEPT ![l] = "gone"]
    /\ mutex' = mutex \ {l}
    /\ event' = event \ {l}
    /\ orphans' = IF Alive(l) THEN orphans \cup {l} ELSE orphans
    /\ UNCHANGED <<game, opened, signalled, written, message, late>>

Finish(l) ==
    /\ pc[l] = "playing" /\ game[l] = "gone"
    /\ Gone(l)

Abort(l) == pc[l] \in {"refused", "asserted"} /\ Gone(l)

Kill(l) == pc[l] \in Turn \ {"asserted"} /\ Gone(l)

-----------------------------------------------------------------------------
(* Its game. *)

Advance(l, from, to) ==
    /\ game[l] = from
    /\ game' = [game EXCEPT ![l] = to]

\* The first PeekMessageA.
MakeQueue(l) ==
    /\ Advance(l, "starting", "looking")
    /\ UNCHANGED <<pc, kernel, written, message, history>>

OpenReadyEvent(l) ==
    /\ EventExists
    /\ Advance(l, "looking", "opened")
    /\ opened' = opened \cup {l}
    /\ UNCHANGED <<pc, mutex, event, signalled, written, message, history>>

SetReadyEvent(l) ==
    /\ Advance(l, "opened", "set")
    /\ signalled' = TRUE
    /\ UNCHANGED <<pc, mutex, event, opened, written, message, history>>

CloseOpened(l) ==
    /\ Advance(l, "set", "listening")
    /\ opened' = opened \ {l}
    /\ UNCHANGED <<pc, mutex, event, signalled, written, message, history>>

MapData(l) ==
    /\ message[l] = "queued"
    /\ Advance(l, "listening", "mapped")
    /\ UNCHANGED <<pc, kernel, written, message, history>>

\* The game ends, of its own accord or not.
ExitGame(l) ==
    /\ Alive(l)
    /\ game' = [game EXCEPT ![l] = "gone"]
    /\ opened' = opened \ {l}
    /\ UNCHANGED <<pc, mutex, event, signalled, written, message, history>>

-----------------------------------------------------------------------------
LauncherStep(l) ==
    \/ RunGame(l) \/ WriteData(l) \/ CreateReadyEvent(l) \/ EndWait(l)
    \/ PostHandle(l) \/ CloseReadyEvent(l) \/ Finish(l)

GameStep(l) == OpenReadyEvent(l) \/ SetReadyEvent(l) \/ CloseOpened(l) \/ MapData(l)

Next == \E l \in Launcher :
    \/ CreateMapping(l) \/ LauncherStep(l) \/ TimeOut(l) \/ Abort(l) \/ Kill(l)
    \/ MakeQueue(l) \/ GameStep(l) \/ ExitGame(l)

Spec == Init /\ [][Next]_vars

\* Processes that are not killed keep running.  The user need not click Play
\* nor dismiss a message box, the game may pause on startup, and a game that
\* is played need not end.
FairSpec == Spec /\ \A l \in Launcher : WF_vars(LauncherStep(l)) /\ WF_vars(GameStep(l))

-----------------------------------------------------------------------------
(* Properties. *)

\* The mutex lets one launcher through at a time, until it has ended: while
\* the games run, too, and while a failed assertion waits for its user.
OneLauncher ==
    \A l, m \in Launcher : pc[l] \in Turn /\ pc[m] \in Turn => l = m

\* Two games run at once only if a launcher has ended before its game.
OneGame ==
    \A l, m \in Launcher : l # m /\ Alive(l) /\ Alive(m) => orphans \cap {l, m} # {}

\* A game maps its launcher's data only when it has been written.
MapsWhatIsWritten == \A l \in Launcher : game[l] = "mapped" => l \in written

\* The handle is posted to a running game that is not ready for it only if
\* the game of another launcher, which ended before it, has set the event.
LostHasCause ==
    \A l \in Launcher : message[l] = "lost" /\ Alive(l) => orphans \ {l} # {}

\* A game that looks for the event gets the data, unless it ends, its
\* launcher's wait times out, or some launcher ends before its game.
DataArrives ==
    \A l \in Launcher :
        game[l] = "looking" ~> \/ game[l] \in {"mapped", "gone"}
                               \/ l \in late
                               \/ orphans # {}

\* A launcher whose game has ended ends, whatever step it was at.
LauncherEnds ==
    \A l \in Launcher : game[l] = "gone" ~> pc[l] \in {"asserted", "gone"}
=============================================================================
