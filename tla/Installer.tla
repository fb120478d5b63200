------------------------------ MODULE Installer ------------------------------
(***************************************************************************)
(* The installation from the CDs (EmperorLauncher/Installer.cpp), and      *)
(* the check that decides whether one is needed (wmain).                   *)
(*                                                                         *)
(* A launcher is one run of EmperorLauncher.exe on the directory it was    *)
(* given.  Several may run, one after the other or at once, on the same    *)
(* directory or not, and each may be killed at any step.  What they share  *)
(* is the directories and the key emperorlauncher_westwood_patch_temp.     *)
(***************************************************************************)
EXTENDS Integers, Sequences

CONSTANTS
    Launcher,
    Dir,
    NoDir,     \* no path
    RealPath   \* InstallPath of another installation in the real registry

ASSUME DirAssumption == NoDir \notin Dir /\ RealPath \in Dir \cup {NoDir}

\* The steps of installEmperor and patch, and the check after them.  "EXE" is
\* the other copies from disc 1 and the files written after them.
Steps == <<"DATA", "EXE", "cab", "unregister", "register", "setpath", "patch",
           "cleanup", "AT", "HK", "OR", "cfg", "verify">>

Copies == {"DATA", "EXE", "AT", "HK", "OR"}
Whole  == Copies \cup {"cab", "cfg"}

VARIABLES
    dir,      \* per launcher: installDir
    phase,    \* per launcher: where wmain is
    step,     \* per launcher: the step of the installation
    busy,     \* launchers in the middle of their step
    files,    \* per directory: the parts that are complete
    torn,     \* per directory: the parts that are there, but not complete
    exe,      \* per directory: what Game.exe is
    key,      \* the temporary key: 0, or a number that tells it from earlier ones
    made,     \* how many times it was created
    path,     \* the InstallPath under it
    override, \* per launcher: the key HKEY_LOCAL_MACHINE stands for, or 0
    target,   \* per launcher: the directory RTPatchApply32 found
    overlap,  \* history: two launchers were in patch at once
    spoilt,   \* history: launchers whose call of RTPatchApply32 failed
    cut       \* history: directories with an installation that was broken off

dirVars  == <<files, torn, exe>>
regVars  == <<key, made, path>>
procVars == <<phase, step, busy, override, target>>
history  == <<overlap, spoilt, cut>>
vars     == <<dir, procVars, dirVars, regVars, history>>

Installing(l) == phase[l] = "installing"
At(l, name)   == Installing(l) /\ Steps[step[l]] = name
Begun(l)      == Installing(l) /\ (step[l] > 1 \/ l \in busy)
InPatch(l)    == Installing(l) /\ step[l] \in 5 .. 8
Alive(l)      == phase[l] \notin {"new", "gone"}
Complete(d)   == Whole \subseteq files[d] /\ exe[d] = "v1.09"

TypeOK ==
    /\ dir \in [Launcher -> Dir]
    /\ phase \in [Launcher -> {"new", "asking", "installing", "success", "failed", "window", "gone"}]
    /\ step \in [Launcher -> 1 .. Len(Steps)]
    /\ busy \subseteq {l \in Launcher : \E p \in Copies \cup {"cab", "patch"} : At(l, p)}
    /\ files \in [Dir -> SUBSET Whole]
    /\ torn \in [Dir -> SUBSET (Whole \ {"cfg"})]
    /\ \A d \in Dir : files[d] \cap torn[d] = {}
    /\ exe \in [Dir -> {"none", "torn", "v1.00", "v1.09"}]
    /\ key \in 0 .. made
    /\ made \in Nat
    /\ path \in Dir \cup {NoDir}
    /\ override \in [Launcher -> 0 .. made]
    /\ target \in [Launcher -> Dir \cup {NoDir}]
    /\ overlap \in BOOLEAN
    /\ spoilt \subseteq Launcher
    /\ cut \subseteq Dir

Init ==
    /\ dir \in [Launcher -> Dir]
    /\ phase = [l \in Launcher |-> "new"]
    /\ step = [l \in Launcher |-> 1]
    /\ busy = {}
    /\ files = [d \in Dir |-> {}] /\ torn = [d \in Dir |-> {}]
    /\ exe = [d \in Dir |-> "none"]
    /\ key = 0 /\ made = 0 /\ path = NoDir
    /\ override = [l \in Launcher |-> 0]
    /\ target = [l \in Launcher |-> NoDir]
    /\ overlap = FALSE /\ spoilt = {} /\ cut = {}

-----------------------------------------------------------------------------
(* wmain. *)

\* The mutant that does not look at the result, and what decides: the MD5.
ValidAlways(d) == TRUE
Valid(d) == exe[d] = "v1.09"

Begin(l) ==
    /\ phase[l] = "new"
    /\ phase' = [phase EXCEPT ![l] = IF Valid(dir[l]) THEN "window" ELSE "asking"]
    /\ UNCHANGED <<dir, step, busy, override, target, dirVars, regVars, history>>

AnswerOK(l) ==
    /\ phase[l] = "asking"
    /\ phase' = [phase EXCEPT ![l] = "installing"]
    /\ UNCHANGED <<dir, step, busy, override, target, dirVars, regVars, history>>

Verify(l) ==
    /\ At(l, "verify")
    /\ phase' = [phase EXCEPT ![l] = IF Valid(dir[l]) THEN "success" ELSE "failed"]
    /\ UNCHANGED <<dir, step, busy, override, target, dirVars, regVars, history>>

\* The message boxes are answered: on to the window, or the end.
Confirm(l) ==
    /\ phase[l] \in {"success", "failed"}
    /\ phase' = [phase EXCEPT ![l] = IF @ = "success" THEN "window" ELSE "gone"]
    /\ UNCHANGED <<dir, step, busy, override, target, dirVars, regVars, history>>

\* A launcher is killed, cancelled, or ends of an exception or an assertion.
Ended(l) ==
    /\ phase' = [phase EXCEPT ![l] = "gone"]
    /\ busy' = busy \ {l}
    /\ override' = [override EXCEPT ![l] = 0]
    /\ cut' = IF Begun(l) THEN cut \cup {dir[l]} ELSE cut
    /\ UNCHANGED <<dir, step, target, dirVars, regVars, overlap, spoilt>>

Kill(l) == Alive(l) /\ Ended(l)

-----------------------------------------------------------------------------
(* Copying. *)

Advance(l) == step' = [step EXCEPT ![l] = @ + 1]

\* Whether std::filesystem::copy throws.  The mutants overwrite what is there,
\* or what is there incomplete.
ExistsIgnored(d, p) == FALSE
ExistsWhole(d, p)   == p \in files[d]
Exists(d, p)        == p \in files[d] \cup torn[d]

\* The disc is in and its first file is copied, unless that file is there.
StartCopy(l, p) ==
    /\ At(l, p) /\ l \notin busy
    /\ \/ /\ Exists(dir[l], p)
          /\ Ended(l)
       \/ /\ ~Exists(dir[l], p)
          /\ torn' = [torn EXCEPT ![dir[l]] = @ \cup {p}]
          /\ files' = [files EXCEPT ![dir[l]] = @ \ {p}]
          /\ busy' = busy \cup {l}
          /\ UNCHANGED <<dir, phase, step, override, target, exe, regVars, history>>

EndCopy(l, p) ==
    /\ At(l, p) /\ l \in busy
    /\ torn' = [torn EXCEPT ![dir[l]] = @ \ {p}]
    /\ files' = [files EXCEPT ![dir[l]] = @ \cup {p}]
    /\ busy' = busy \ {l}
    /\ Advance(l)
    /\ UNCHANGED <<dir, phase, override, target, exe, regVars, history>>

\* The cabinet, extracted over whatever is there.
StartExtract(l) ==
    /\ At(l, "cab") /\ l \notin busy
    /\ torn' = [torn EXCEPT ![dir[l]] = @ \cup {"cab"}]
    /\ files' = [files EXCEPT ![dir[l]] = @ \ {"cab"}]
    /\ exe' = [exe EXCEPT ![dir[l]] = "torn"]
    /\ busy' = busy \cup {l}
    /\ UNCHANGED <<dir, phase, step, override, target, regVars, history>>

EndExtract(l) ==
    /\ At(l, "cab") /\ l \in busy
    /\ torn' = [torn EXCEPT ![dir[l]] = @ \ {"cab"}]
    /\ files' = [files EXCEPT ![dir[l]] = @ \cup {"cab"}]
    /\ exe' = [exe EXCEPT ![dir[l]] = "v1.00"]
    /\ busy' = busy \ {l}
    /\ Advance(l)
    /\ UNCHANGED <<dir, phase, override, target, regVars, history>>

\* resource.cfg is written over the one there is.
WriteCfg(l) ==
    /\ At(l, "cfg")
    /\ files' = [files EXCEPT ![dir[l]] = @ \cup {"cfg"}]
    /\ Advance(l)
    /\ UNCHANGED <<dir, phase, busy, override, target, torn, exe, regVars, history>>

-----------------------------------------------------------------------------
(* Patching. *)

Enter(l) == overlap' = (overlap \/ \E m \in Launcher \ {l} : InPatch(m))

\* RegDeleteTreeA, whatever comes of it.
Unregister(l) ==
    /\ At(l, "unregister")
    /\ key' = 0 /\ path' = NoDir
    /\ Advance(l) /\ Enter(l)
    /\ UNCHANGED <<dir, phase, busy, override, target, dirVars, made, spoilt, cut>>

\* RegCreateKeyA creates the key or opens the one there is.
Register(l) ==
    /\ At(l, "register")
    /\ IF key = 0 THEN key' = made + 1 /\ made' = made + 1
                  ELSE UNCHANGED <<key, made>>
    /\ override' = [override EXCEPT ![l] = key']
    /\ Advance(l)
    /\ UNCHANGED <<dir, phase, busy, target, dirVars, path, history>>

\* The path that is set, over one that is there.
PathSet(l) == dir[l]

\* release_assert(RegSetKeyValueA(...)): it fails when the key was deleted.
SetPath(l) ==
    /\ At(l, "setpath")
    /\ \/ override[l] # key /\ Ended(l)
       \/ /\ override[l] = key
          /\ path' = PathSet(l)
          /\ Advance(l)
          /\ UNCHANGED <<dir, phase, busy, override, target, dirVars, key, made, history>>

\* Where RTPatchApply32 looks for the game, and the mutant without
\* RegOverridePredefKey.
FoundReal(l) == RealPath
Found(l) == IF override[l] = key THEN path ELSE NoDir

StartPatch(l) ==
    /\ At(l, "patch") /\ l \notin busy
    /\ target' = [target EXCEPT ![l] = Found(l)]
    /\ exe' = [d \in Dir |-> IF d = Found(l) /\ exe[d] = "v1.00" THEN "torn" ELSE exe[d]]
    /\ busy' = IF Found(l) # NoDir /\ exe[Found(l)] = "v1.00" THEN busy \cup {l} ELSE busy
    /\ IF l \in busy' THEN UNCHANGED step ELSE Advance(l)
    /\ UNCHANGED <<dir, phase, override, files, torn, regVars, history>>

EndPatch(l) ==
    /\ At(l, "patch") /\ l \in busy
    /\ exe' = [exe EXCEPT ![target[l]] = "v1.09"]
    /\ busy' = busy \ {l}
    /\ Advance(l)
    /\ UNCHANGED <<dir, phase, override, target, files, torn, regVars, history>>

\* It may also fail, before it has touched the game or in the middle of it (a
\* full disk, a file in use, no memory); nobody looks at what it returns.
FailPatch(l) ==
    /\ At(l, "patch")
    /\ spoilt' = spoilt \cup {l}
    /\ busy' = busy \ {l}
    /\ Advance(l)
    /\ UNCHANGED <<dir, phase, override, target, dirVars, regVars, overlap, cut>>

\* release_assert(RegDeleteTreeA(...) == ERROR_SUCCESS)
Cleanup(l) ==
    /\ At(l, "cleanup")
    /\ \/ key = 0 /\ Ended(l)
       \/ /\ key # 0
          /\ key' = 0 /\ path' = NoDir
          /\ override' = [override EXCEPT ![l] = 0]
          /\ Advance(l)
          /\ UNCHANGED <<dir, phase, busy, target, dirVars, made, history>>

-----------------------------------------------------------------------------
(* The user and the game. *)

\* The user deletes a directory nobody works in.
DeleteDir(d) ==
    /\ exe[d] # "none" \/ torn[d] # {} \/ files[d] # {}
    /\ \A l \in Launcher : dir[l] = d => ~Alive(l)
    /\ \A l \in busy : target[l] # d
    /\ files' = [files EXCEPT ![d] = {}] /\ torn' = [torn EXCEPT ![d] = {}]
    /\ exe' = [exe EXCEPT ![d] = "none"]
    /\ cut' = cut \ {d}
    /\ UNCHANGED <<dir, procVars, regVars, overlap, spoilt>>

Next ==
    \/ \E l \in Launcher :
          \/ Begin(l) \/ AnswerOK(l) \/ Verify(l) \/ Confirm(l) \/ Kill(l)
          \/ \E p \in Copies : StartCopy(l, p) \/ EndCopy(l, p)
          \/ StartExtract(l) \/ EndExtract(l) \/ WriteCfg(l)
          \/ Unregister(l) \/ Register(l) \/ SetPath(l)
          \/ StartPatch(l) \/ EndPatch(l) \/ FailPatch(l) \/ Cleanup(l)
    \/ \E d \in Dir : DeleteDir(d)

Spec == Init /\ [][Next]_vars

-----------------------------------------------------------------------------
(* Properties. *)

\* "Installation successful!" is shown only when everything is there, whoever
\* else installs, patches or is killed meanwhile, here or elsewhere.
SuccessIsComplete == \A l \in Launcher : phase[l] = "success" => Complete(dir[l])

\* Two launchers never install into one directory at once: the second throws on
\* the first file it finds.
OneInstalls ==
    \A l, m \in Launcher : (l # m /\ Begun(l) /\ Begun(m)) => dir[l] # dir[m]

\* What a broken installation left stays until the user deletes it: another
\* launcher's installation there throws before it has copied anything.
BrokenIsLeft == \A l \in Launcher : Begun(l) => dir[l] \notin cut

\* Whoever gets to see the settings can play from complete data, unless an
\* installation there was broken off after its patch, or still goes on.
PlayHasCause ==
    \A l \in Launcher : phase[l] = "window" =>
        \/ Complete(dir[l])
        \/ dir[l] \in cut
        \/ \E m \in Launcher : dir[m] = dir[l] /\ Installing(m)

\* A patch goes to another directory than the launcher's own only when two
\* launchers were patching at once: they share one key.
PatchesOwnGame ==
    overlap \/ \A l \in Launcher : target[l] \in {NoDir, dir[l]}

\* "Installation failed!" comes of the launcher's own patch having failed, or of
\* two launchers patching at once: whatever was killed, deleted or left behind
\* before, an installation that gets as far as the check has v1.09 otherwise.
FailureHasCause == \A l \in Launcher : phase[l] = "failed" => overlap \/ l \in spoilt
=============================================================================
