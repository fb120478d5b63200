---------------------------- MODULE FrameLimiter -----------------------------
(***************************************************************************)
(* The hooks of Direct3D (EmperorHooks/HookD3D7.cpp) and the frame limiter *)
(* they put in: DirectDrawCreateEx leads to CreateDevice, that to EndScene,*)
(* which sleeps away what is left of a frame's time.                       *)
(*                                                                         *)
(* Time is counted in ticks of the performance counter.                    *)
(***************************************************************************)
EXTENDS Integers

CONSTANTS
    Freq,      \* qpcFreq
    TargetFps, \* targetFps
    Ms,        \* ticks in a millisecond; the code divides by 1000 of them
    MaxTime    \* bound: ticks since the last frame are counted up to it

VARIABLES
    createHooks, \* times CreateDevice was detoured
    sceneHooks,  \* times EndScene was
    hasD3D,      \* the game has a Direct3D object
    hasDevice,   \* the game has a device
    crashed,     \* a null object was looked at
    since,       \* ticks since lastFrameTime
    pc,          \* where the game's drawing thread is
    wait         \* what is left of its Sleep

hookVars == <<createHooks, sceneHooks, hasD3D, hasDevice, crashed>>
timeVars == <<since, pc, wait>>
vars     == <<hookVars, timeVars>>

TypeOK ==
    /\ createHooks \in 0 .. 1 /\ sceneHooks \in 0 .. 1
    /\ hasD3D \in BOOLEAN /\ hasDevice \in BOOLEAN /\ crashed \in BOOLEAN
    /\ since \in 0 .. MaxTime
    /\ pc \in {"draw", "sleep", "scene"}
    /\ wait \in 0 .. MaxTime

Init ==
    /\ createHooks = 0 /\ sceneHooks = 0
    /\ hasD3D = FALSE /\ hasDevice = FALSE /\ crashed = FALSE
    /\ since = 0 /\ pc = "draw" /\ wait = 0

\* Whether a creation attaches a detour.  The mutant always does.
AttachAlways(hooks) == TRUE
Attach(hooks)       == hooks = 0

\* MyDirectDrawCreateEx: Direct3D refuses the object for DirectDraw, or the one
\* for 3D, which is looked at all the same once there was one, or none.
DirectDrawCreateEx(got) ==
    /\ pc = "draw" /\ ~crashed
    /\ crashed' = (got = "2D" /\ createHooks > 0)
    /\ createHooks' = IF got = "3D" /\ Attach(createHooks) THEN createHooks + 1 ELSE createHooks
    /\ hasD3D' = (got = "3D") /\ hasDevice' = FALSE
    /\ UNCHANGED <<sceneHooks, timeVars>>

CreateDevice(ok) ==
    /\ pc = "draw" /\ ~crashed /\ hasD3D
    /\ crashed' = (~ok /\ sceneHooks > 0)
    /\ sceneHooks' = IF ok /\ Attach(sceneHooks) THEN sceneHooks + 1 ELSE sceneHooks
    /\ since' = IF ok /\ Attach(sceneHooks) THEN 0 ELSE since
    /\ hasDevice' = ok
    /\ UNCHANGED <<createHooks, hasD3D, pc, wait>>

\* What Sleep is asked for, in milliseconds.  The mutant does not limit.
RemainingNone(t) == 0
Remaining(t) ==
    LET ticks == Freq \div TargetFps - t IN IF ticks > 0 THEN ticks \div Ms ELSE 0

\* My_IDirect3DDevice7_EndScene, up to its Sleep.
EndScene ==
    /\ pc = "draw" /\ ~crashed /\ hasDevice
    /\ pc' = "sleep"
    /\ wait' = Remaining(since) * Ms
    /\ UNCHANGED <<hookVars, since>>

Wake ==
    /\ pc = "sleep" /\ wait = 0
    /\ pc' = "scene"
    /\ UNCHANGED <<hookVars, since, wait>>

\* The real EndScene has returned.
Present ==
    /\ pc = "scene"
    /\ since' = 0 /\ pc' = "draw"
    /\ UNCHANGED <<hookVars, wait>>

Tick ==
    /\ ~crashed
    /\ since < MaxTime
    /\ since' = since + 1
    /\ wait' = IF wait > 0 THEN wait - 1 ELSE 0
    /\ UNCHANGED <<hookVars, pc>>

Crashed == crashed /\ UNCHANGED vars

Next ==
    \/ \E got \in {"none", "2D", "3D"} : DirectDrawCreateEx(got)
    \/ \E ok \in BOOLEAN : CreateDevice(ok)
    \/ EndScene \/ Wake \/ Present \/ Tick \/ Crashed

Spec == Init /\ [][Next]_vars

-----------------------------------------------------------------------------
(* Properties. *)

\* Every frame of every device is limited, however often the device is created
\* anew: it is shorter than its time by less than a millisecond, and none is made
\* to take longer than that.
FramesTakeTheirTime == [][
    /\ Present => sceneHooks = 1 /\ since + Ms > Freq \div TargetFps
    /\ EndScene => wait' = 0 \/ since + wait' <= Freq \div TargetFps]_vars
=============================================================================
