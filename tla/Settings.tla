------------------------------ MODULE Settings -------------------------------
(***************************************************************************)
(* The settings: the launcher's dialog (EmperorLauncher.cpp), the registry *)
(* values they are kept in (EmperorHooks/Settings.hpp) and the game that   *)
(* reads them when it starts (runHooks in EmperorHooks/dllmain.cpp).       *)
(*                                                                         *)
(* The six values are read and written one after the other; the processes  *)
(* share nothing but the registry.  A dialog that opens writes what it has *)
(* read: setting the text of the address box calls the handler of a change *)
(* of it.                                                                  *)
(***************************************************************************)
EXTENDS Integers, Sequences, FiniteSets

CONSTANTS
    Launcher,
    Addr,          \* server addresses, the text the box has at first among them
    DefaultAddr,
    Editable,      \* bound: the settings the users change
    MaxClicks,     \* bound: how often they do
    Absent         \* no such registry value

Names == <<"fullscreen", "hostGame", "serverAddress",
           "pauseOnStartup", "forceCursorVisible", "disableCursorCapture">>
Name  == {Names[i] : i \in 1 .. Len(Names)}

Value(f) == IF f = "serverAddress" THEN Addr ELSE BOOLEAN
Values   == {v \in [Name -> Addr \cup BOOLEAN] : \A f \in Name : v[f] \in Value(f)}

Default == [f \in Name |-> IF f = "serverAddress" THEN DefaultAddr
                           ELSE f \in {"fullscreen", "hostGame"}]

VARIABLES
    reg,      \* the values of the key LauncherCustomSettings
    phase,    \* per launcher: where it is
    next,     \* per launcher: the next value it, or its game, reads or writes
    settings, \* per launcher: its settings, which the dialog shows
    game,     \* per launcher: the settings of the game it started
    clicks,
    crossed,  \* history: launchers during whose run another one wrote
    alone,    \* history: launchers nobody else wrote during whose writing
    whole,    \* history: the last write was one launcher's from first to last
    last      \* history: what that launcher wrote

procVars == <<phase, next, settings, game>>
history  == <<crossed, alone, whole, last>>
vars     == <<reg, procVars, clicks, history>>

TypeOK ==
    /\ reg \in [Name -> Addr \cup BOOLEAN \cup {Absent}]
    /\ \A f \in Name : reg[f] \in Value(f) \cup {Absent}
    /\ phase \in [Launcher -> {"closed", "opening", "writing", "open", "starting", "playing"}]
    /\ next \in [Launcher -> 1 .. Len(Names)]
    /\ \A l \in Launcher : settings[l] \in Values /\ game[l] \in Values
    /\ clicks \in 0 .. MaxClicks
    /\ crossed \subseteq Launcher /\ alone \subseteq Launcher
    /\ whole \in BOOLEAN /\ last \in Values

Init ==
    /\ reg = [f \in Name |-> Absent]
    /\ phase = [l \in Launcher |-> "closed"]
    /\ next = [l \in Launcher |-> 1]
    /\ settings = [l \in Launcher |-> Default]
    /\ game = [l \in Launcher |-> Default]
    /\ clicks = 0
    /\ crossed = {} /\ alone = {} /\ whole = TRUE /\ last = Default

\* readSettings leaves a setting without a value as it is.  The mutant takes
\* every value that is not "1" for a missing one.
LoadedIfSet(have, f) == IF reg[f] \in {Absent, FALSE} THEN have[f] ELSE reg[f]
Loaded(have, f)      == IF reg[f] = Absent THEN have[f] ELSE reg[f]

\* What writeSettings writes as f.  The mutant leaves out the address.
StoredNot(have, f) == IF f = "serverAddress" THEN reg[f] ELSE have[f]
Stored(have, f)    == have[f]

\* From one value to the next, and to phase p after the last.
Step(l, p) ==
    IF next[l] < Len(Names)
    THEN next' = [next EXCEPT ![l] = @ + 1] /\ UNCHANGED phase
    ELSE next' = [next EXCEPT ![l] = 1] /\ phase' = [phase EXCEPT ![l] = p]

\* Somebody starts a launcher; its settings are the default ones.
Open(l) ==
    /\ phase[l] = "closed"
    /\ phase' = [phase EXCEPT ![l] = "opening"]
    /\ settings' = [settings EXCEPT ![l] = Default]
    /\ crossed' = crossed \ {l}
    /\ UNCHANGED <<reg, next, game, clicks, alone, whole, last>>

\* loadAndApplySettings reads them, and as it sets the text, writes them.
Read(l) ==
    /\ phase[l] = "opening"
    /\ LET f == Names[next[l]] IN settings' = [settings EXCEPT ![l][f] = Loaded(settings[l], f)]
    /\ Step(l, "writing")
    /\ alone' = IF phase' = phase THEN alone ELSE alone \cup {l}
    /\ UNCHANGED <<reg, game, clicks, crossed, whole, last>>

Write(l) ==
    /\ phase[l] = "writing"
    /\ LET f == Names[next[l]] IN reg' = [reg EXCEPT ![f] = Stored(settings[l], f)]
    /\ Step(l, "open")
    /\ alone' = alone \cap {l}
    /\ crossed' = crossed \cup {m \in Launcher \ {l} : phase[m] \notin {"closed", "playing"}}
    /\ whole' = (next[l] = Len(Names) /\ l \in alone)
    /\ last' = IF whole' THEN settings[l] ELSE last
    /\ UNCHANGED <<settings, game, clicks>>

\* A click on a box or a radio button, or a key in the address box.
Click(l) ==
    /\ phase[l] = "open" /\ clicks < MaxClicks
    /\ \E f \in Editable : \E v \in Value(f) \ {settings[l][f]} :
          settings' = [settings EXCEPT ![l][f] = v]
    /\ phase' = [phase EXCEPT ![l] = "writing"]
    /\ clicks' = clicks + 1
    /\ alone' = alone \cup {l}
    /\ UNCHANGED <<reg, next, game, crossed, whole, last>>

\* OnPlayClicked: the dialog closes and the game starts, with the default
\* settings until runHooks has read them.
Play(l) ==
    /\ phase[l] = "open"
    /\ phase' = [phase EXCEPT ![l] = "starting"]
    /\ game' = [game EXCEPT ![l] = Default]
    /\ UNCHANGED <<reg, next, settings, clicks, history>>

GameReads(l) ==
    /\ phase[l] = "starting"
    /\ LET f == Names[next[l]] IN game' = [game EXCEPT ![l][f] = Loaded(game[l], f)]
    /\ Step(l, "playing")
    /\ UNCHANGED <<reg, settings, clicks, history>>

\* The dialog is closed, the launcher or the game killed, or the game ends.
End(l) ==
    /\ phase[l] # "closed"
    /\ phase' = [phase EXCEPT ![l] = "closed"]
    /\ next' = [next EXCEPT ![l] = 1]
    /\ UNCHANGED <<reg, settings, game, clicks, history>>

Next == \E l \in Launcher :
    Open(l) \/ Read(l) \/ Write(l) \/ Click(l) \/ Play(l) \/ GameReads(l) \/ End(l)

Spec == Init /\ [][Next]_vars

-----------------------------------------------------------------------------
(* Properties. *)

\* The game runs with what the dialog showed when Play was clicked, unless
\* another launcher, which need only have opened, wrote its settings meanwhile.
GameRunsAsShown ==
    \A l \in Launcher : phase[l] = "playing" => l \in crossed \/ game[l] = settings[l]

\* A dialog opens with what was written last, whoever did, unless somebody else
\* writes while it reads, or the last one was killed halfway or crossed.
OpensAsLeft == [][
    \A l \in Launcher : (phase[l] = "opening" /\ phase'[l] = "writing") =>
        l \in crossed \/ ~whole \/ settings'[l] = last]_vars
=============================================================================
