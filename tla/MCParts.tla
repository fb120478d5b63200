------------------------------- MODULE MCParts -------------------------------
(***************************************************************************)
(* The small parts of the three programs, for TLC: the accept loop and the *)
(* erase loops of the lobby server, the settings and the network test of   *)
(* the launcher, the frame limiter and the CD check of the game.  They     *)
(* share no state.  A behaviour is one of the part that is chosen at       *)
(* first; the others rest, each in one of its initial states.              *)
(***************************************************************************)
EXTENDS AcceptLoop, Sequences

CONSTANTS
    Elem, MaxLength,
    Launcher, Addr, DefaultAddr, Editable, MaxClicks, Absent,
    HostAddr, Asked, Probes,
    Freq, TargetFps, Ms, MaxTime,
    Retries, Limit

ASSUME PartsAssumption ==
    /\ DefaultAddr \in Addr /\ Absent \notin Addr \cup BOOLEAN /\ MaxClicks \in Nat /\ MaxLength \in Nat
    /\ Asked \in HostAddr /\ Probes \in Nat \ {0}
    /\ Freq \in Nat \ {0} /\ TargetFps \in Nat \ {0} /\ Ms \in Nat \ {0}
    /\ MaxTime \in Nat /\ MaxTime > Freq \div TargetFps
    /\ Retries \in Nat /\ Limit \in Nat \ {0}

VARIABLES
    part,                                             \* the part that runs
    eraseLoop, input, target, rest, at, done,         \* VectorLoops
    reg, phase, next, settings, game, clicks,         \* Settings
    crossed, alone, whole, last,
    host, stalled, udpOpen, tcpOpen, reply, testAt,   \* NetworkTest
    probed, addr, wire, rx, udpOk, tcpOk, conn, line, inTime, answered,
    createHooks, sceneHooks, hasD3D, hasDevice,       \* FrameLimiter
    crashed, since, drawAt, wait,
    path, music, disc, cdIndex, patient,              \* CdCheck
    looks, checkAt, result, seen, taken

V == INSTANCE VectorLoops WITH loop <- eraseLoop, v <- rest, j <- at
S == INSTANCE Settings
N == INSTANCE NetworkTest WITH pc <- testAt, sent <- probed
F == INSTANCE FrameLimiter WITH pc <- drawAt
C == INSTANCE CdCheck WITH pc <- checkAt, i <- looks

vectorVars   == <<eraseLoop, input, target, rest, at, done>>
settingsVars == <<reg, phase, next, settings, game, clicks, crossed, alone, whole, last>>
networkVars  == <<host, stalled, udpOpen, tcpOpen, reply, testAt, probed, addr, wire, rx,
                  udpOk, tcpOk, conn, line, inTime, answered>>
frameVars    == <<createHooks, sceneHooks, hasD3D, hasDevice, crashed, since, drawAt, wait>>
discVars     == <<path, music, disc, cdIndex, patient, looks, checkAt, result, seen, taken>>

Chosen(p) == part = p
Other(p)  == part # p

PartsInit ==
    /\ part \in {"accept", "vectors", "settings", "network", "frames", "discs"}
    /\ Init /\ S!Init /\ F!Init
    /\ V!Init /\ (Other("vectors") => eraseLoop = "KICK" /\ input = <<>> /\ target = CHOOSE e \in Elem : TRUE)
    /\ N!Init
    /\ Other("network") => /\ host = "off" /\ ~stalled /\ ~udpOpen /\ reply = Asked
                           /\ tcpOpen = [a \in HostAddr |-> FALSE]
    /\ C!Init
    /\ Other("discs") => path = [cd \in C!Bits \cup {C!AnyCd} |-> "drive"] /\ music = {} /\ disc = "none"

PartsNext ==
    \/ Chosen("accept")   /\ Next   /\ UNCHANGED <<part, vectorVars, settingsVars, networkVars, frameVars, discVars>>
    \/ Chosen("vectors")  /\ V!Next /\ UNCHANGED <<part, vars, settingsVars, networkVars, frameVars, discVars>>
    \/ Chosen("settings") /\ S!Next /\ UNCHANGED <<part, vars, vectorVars, networkVars, frameVars, discVars>>
    \/ Chosen("network")  /\ N!Next /\ UNCHANGED <<part, vars, vectorVars, settingsVars, frameVars, discVars>>
    \/ Chosen("frames")   /\ F!Next /\ UNCHANGED <<part, vars, vectorVars, settingsVars, networkVars, discVars>>
    \/ Chosen("discs")    /\ C!Next /\ UNCHANGED <<part, vars, vectorVars, settingsVars, networkVars, frameVars>>

partsVars == <<part, vars, vectorVars, settingsVars, networkVars, frameVars, discVars>>

PartsSpec == PartsInit /\ [][PartsNext]_partsVars

-----------------------------------------------------------------------------
(* Properties of the parts, which their modules define; OwnUnlessLate and     *)
(* FaultHasCause are those of AcceptLoop.                                    *)

\* Types of all of them.  Among others each function is detoured once, however
\* often the game creates its device, and no check looks at the disc too often.
PartsTypeOK ==
    /\ TypeOK
    /\ S!TypeOK
    /\ N!TypeOK
    /\ F!TypeOK
    /\ C!TypeOK

\* VectorLoops: the loops of the teardown and of KICK compute what PointerVectors
\* says of them.
LoopsMeetClosedForm == V!ClosedForm

\* Settings: the game runs with what the dialog showed at the click on Play,
\* unless another launcher wrote its settings meanwhile.
GameRunsAsShown == S!GameRunsAsShown

\* Settings: a dialog opens with what was written last, with stated exceptions.
OpensAsLeft == S!OpensAsLeft

\* NetworkTest: what the dialog says of UDP and of TCP is true.
Verdicts == N!Verdicts

\* FrameLimiter: every frame of every device takes its time, and none longer.
FramesTakeTheirTime == F!FramesTakeTheirTime

\* CdCheck: a check passes at the first look that finds the right disc in, and
\* fails only when none of its looks did.
CheckIsRight == C!CheckIsRight
=============================================================================
