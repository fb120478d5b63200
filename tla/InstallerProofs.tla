--------------------------- MODULE InstallerProofs ---------------------------
(***************************************************************************)
(* The properties of Installer hold for any number of launchers and        *)
(* directories.                                                            *)
(***************************************************************************)
EXTENDS Installer, TLAPS

\* Where in the installation a launcher is.
LEMMA StepAt ==
    ASSUME NEW l \in Launcher, step[l] \in 1 .. Len(Steps)
    PROVE  /\ step[l] \in 1 .. 13
           /\ At(l, "DATA") <=> Installing(l) /\ step[l] = 1
           /\ At(l, "EXE") <=> Installing(l) /\ step[l] = 2
           /\ At(l, "cab") <=> Installing(l) /\ step[l] = 3
           /\ At(l, "unregister") <=> Installing(l) /\ step[l] = 4
           /\ At(l, "register") <=> Installing(l) /\ step[l] = 5
           /\ At(l, "setpath") <=> Installing(l) /\ step[l] = 6
           /\ At(l, "patch") <=> Installing(l) /\ step[l] = 7
           /\ At(l, "cleanup") <=> Installing(l) /\ step[l] = 8
           /\ At(l, "AT") <=> Installing(l) /\ step[l] = 9
           /\ At(l, "HK") <=> Installing(l) /\ step[l] = 10
           /\ At(l, "OR") <=> Installing(l) /\ step[l] = 11
           /\ At(l, "cfg") <=> Installing(l) /\ step[l] = 12
           /\ At(l, "verify") <=> Installing(l) /\ step[l] = 13
BY DEF At, Steps

-----------------------------------------------------------------------------
(* Types. *)

\* The launchers in the middle of a step, by its number.
BusyOK == \A l \in busy : l \in Launcher /\ Installing(l) /\ step[l] \in {1, 2, 3, 7, 9, 10, 11}

\* Both ways to say who may be in the middle of a step agree.
LEMMA TypeBusy ==
    ASSUME step \in [Launcher -> 1 .. Len(Steps)]
    PROVE  BusyOK <=> busy \subseteq {l \in Launcher : \E p \in Copies \cup {"cab", "patch"} : At(l, p)}
<1>1. ASSUME NEW l \in Launcher
      PROVE  (\E p \in Copies \cup {"cab", "patch"} : At(l, p)) <=>
                 Installing(l) /\ step[l] \in {1, 2, 3, 7, 9, 10, 11}
  BY StepAt DEF Copies
<1> QED BY <1>1 DEF BusyOK

\* TypeOK with numbers for the steps.
Types ==
    /\ dir \in [Launcher -> Dir]
    /\ phase \in [Launcher -> {"new", "asking", "installing", "success", "failed", "window", "gone"}]
    /\ step \in [Launcher -> 1 .. 13]
    /\ BusyOK
    /\ files \in [Dir -> SUBSET Whole]
    /\ torn \in [Dir -> SUBSET (Whole \ {"cfg"})]
    /\ \A d \in Dir : files[d] \cap torn[d] = {}
    /\ exe \in [Dir -> {"none", "torn", "v1.00", "v1.09"}]
    /\ key \in 0 .. made
    /\ made \in Nat
    /\ path \in Dir \cup {NoDir}
    /\ override \in [Launcher -> 0 .. made]
    /\ target \in [Launcher -> Dir \cup {NoDir}]
    /\ overlap \in BOOLEAN
    /\ spoilt \subseteq Launcher
    /\ cut \subseteq Dir

\* Types is TypeOK.
LEMMA TypesOK == Types <=> TypeOK
<1>1. Len(Steps) = 13
  BY DEF Steps
<1> QED BY <1>1, TypeBusy DEF Types, TypeOK

\* Nothing is installed yet.
LEMMA TypesInit == Init => Types
<1> SUFFICES ASSUME Init PROVE Types
  OBVIOUS
<1>1. BusyOK
  BY DEF Init, BusyOK
<1>2. key \in 0 .. made /\ made \in Nat /\ override \in [Launcher -> 0 .. made]
  BY DEF Init
<1>3. files \in [Dir -> SUBSET Whole] /\ torn \in [Dir -> SUBSET (Whole \ {"cfg"})]
      /\ \A d \in Dir : files[d] \cap torn[d] = {}
  BY DEF Init
<1>4. /\ phase \in [Launcher -> {"new", "asking", "installing", "success", "failed", "window", "gone"}]
      /\ step \in [Launcher -> 1 .. 13]
      /\ target \in [Launcher -> Dir \cup {NoDir}]
      /\ exe \in [Dir -> {"none", "torn", "v1.00", "v1.09"}]
  BY DEF Init
<1>5. /\ dir \in [Launcher -> Dir] /\ path \in Dir \cup {NoDir} /\ overlap \in BOOLEAN
      /\ spoilt \subseteq Launcher /\ cut \subseteq Dir
  BY DEF Init
<1> QED BY <1>1, <1>2, <1>3, <1>4, <1>5 DEF Types

\* A launcher that goes on to its next step.
LEMMA AdvanceTypes ==
    ASSUME Types, NEW l \in Launcher, Installing(l), step[l] < 13, Advance(l),
           UNCHANGED phase, busy' \subseteq busy \ {l}
    PROVE  step' \in [Launcher -> 1 .. 13] /\ BusyOK'
BY DEF Types, Advance, BusyOK, Installing

\* What a launcher that ends does to the types.
LEMMA EndedTypes ==
    ASSUME Types, NEW l \in Launcher, Ended(l)
    PROVE  Types'
BY DEF Types, Ended, BusyOK, Installing, dirVars, regVars

\* The steps of wmain.
LEMMA WmainTypes ==
    ASSUME Types, NEW l \in Launcher, Begin(l) \/ AnswerOK(l) \/ Verify(l) \/ Confirm(l)
    PROVE  Types'
<1>1. step[l] \in 1 .. Len(Steps)
  BY DEF Types, Steps
<1>2. At(l, "verify") <=> Installing(l) /\ step[l] = 13
  BY <1>1, StepAt
<1>3. UNCHANGED <<dir, step, busy, override, target, files, torn, exe, key, made, path, overlap, spoilt, cut>>
  BY DEF Begin, AnswerOK, Verify, Confirm, dirVars, regVars, history
<1>4. phase' \in [Launcher -> {"new", "asking", "installing", "success", "failed", "window", "gone"}]
  BY DEF Types, Begin, AnswerOK, Verify, Confirm
<1>5. l \notin busy /\ \A m \in Launcher \ {l} : phase'[m] = phase[m]
  BY <1>2 DEF Types, BusyOK, Installing, Begin, AnswerOK, Verify, Confirm
<1> QED BY <1>3, <1>4, <1>5 DEF Types, BusyOK, Installing

\* The copies.
LEMMA CopyTypes ==
    ASSUME Types, NEW l \in Launcher, NEW p \in Copies, StartCopy(l, p) \/ EndCopy(l, p)
    PROVE  Types'
<1>1. step[l] \in 1 .. Len(Steps)
  BY DEF Types, Steps
<1>2. Installing(l) /\ step[l] \in {1, 2, 9, 10, 11} /\ p \in Whole \ {"cfg"}
  BY <1>1, StepAt DEF StartCopy, EndCopy, Copies, Whole
<1>3. CASE StartCopy(l, p)
  <2>1. CASE Ended(l)
    BY <2>1, EndedTypes
  <2>2. CASE ~Ended(l)
    BY <1>2, <1>3, <2>2 DEF StartCopy, Types, BusyOK, Installing, regVars, history
  <2> QED BY <2>1, <2>2
<1>4. CASE EndCopy(l, p)
  BY <1>2, <1>4 DEF EndCopy, Advance, Types, BusyOK, Installing, regVars, history
<1> QED BY <1>3, <1>4

\* The cabinet and resource.cfg.
LEMMA ExtractTypes ==
    ASSUME Types, NEW l \in Launcher, StartExtract(l) \/ EndExtract(l) \/ WriteCfg(l)
    PROVE  Types'
<1>1. step[l] \in 1 .. Len(Steps)
  BY DEF Types, Steps
<1>2. "cab" \in Whole \ {"cfg"} /\ "cfg" \in Whole
  BY DEF Whole
<1>3. CASE StartExtract(l)
  BY <1>1, <1>2, <1>3, StepAt DEF StartExtract, Types, BusyOK, Installing, regVars, history
<1>4. CASE EndExtract(l)
  BY <1>1, <1>2, <1>4, StepAt DEF EndExtract, Advance, Types, BusyOK, Installing, regVars, history
<1>5. CASE WriteCfg(l)
  <2>1. step[l] = 12 /\ Installing(l) /\ l \notin busy
    <3>1. step[l] = 12 /\ Installing(l)
      BY <1>1, <1>5, StepAt DEF WriteCfg
    <3> QED BY <3>1 DEF Types, BusyOK
  <2>2. step' \in [Launcher -> 1 .. 13] /\ BusyOK'
    BY <1>5, <2>1, AdvanceTypes DEF WriteCfg
  <2>3. files' \in [Dir -> SUBSET Whole] /\ \A d \in Dir : files'[d] \cap torn'[d] = {}
    BY <1>2, <1>5 DEF WriteCfg, Types
  <2> QED BY <1>5, <2>2, <2>3 DEF WriteCfg, Types, regVars, history
<1> QED BY <1>3, <1>4, <1>5

\* The registry key.
LEMMA KeyTypes ==
    ASSUME Types, NEW l \in Launcher, Unregister(l) \/ Register(l) \/ SetPath(l) \/ Cleanup(l)
    PROVE  Types'
<1>1. step[l] \in 1 .. Len(Steps)
  BY DEF Types, Steps
<1>2. CASE Ended(l)
  BY <1>2, EndedTypes
<1>3. CASE Unregister(l)
  BY <1>1, <1>3, StepAt DEF Unregister, Enter, Advance, Types, BusyOK, Installing, dirVars
<1>4. CASE Register(l)
  <2>1. key' \in 0 .. made' /\ made' \in Nat /\ made <= made'
    BY <1>4 DEF Register, Types
  <2>2. override' \in [Launcher -> 0 .. made']
    BY <1>4, <2>1 DEF Register, Types
  <2> QED BY <1>1, <1>4, <2>1, <2>2, StepAt DEF Register, Advance, Types, BusyOK, Installing, dirVars, history
<1>5. CASE SetPath(l) /\ ~Ended(l)
  <2>1. step[l] = 6 /\ Installing(l) /\ l \notin busy
    <3>1. step[l] = 6 /\ Installing(l)
      BY <1>1, <1>5, StepAt DEF SetPath
    <3> QED BY <3>1 DEF Types, BusyOK
  <2>2. step' \in [Launcher -> 1 .. 13] /\ BusyOK'
    BY <1>5, <2>1, AdvanceTypes DEF SetPath
  <2> QED BY <1>5, <2>2 DEF SetPath, PathSet, Types, dirVars, history
<1>6. CASE Cleanup(l) /\ ~Ended(l)
  <2>1. step[l] = 8 /\ Installing(l) /\ l \notin busy
    <3>1. step[l] = 8 /\ Installing(l)
      BY <1>1, <1>6, StepAt DEF Cleanup
    <3> QED BY <3>1 DEF Types, BusyOK
  <2>2. step' \in [Launcher -> 1 .. 13] /\ BusyOK'
    BY <1>6, <2>1, AdvanceTypes DEF Cleanup
  <2> QED BY <1>6, <2>2 DEF Cleanup, Types, dirVars, history
<1> QED BY <1>2, <1>3, <1>4, <1>5, <1>6

\* The patch.
LEMMA PatchTypes ==
    ASSUME Types, NEW l \in Launcher, StartPatch(l) \/ EndPatch(l) \/ FailPatch(l)
    PROVE  Types'
<1>1. step[l] \in 1 .. Len(Steps)
  BY DEF Types, Steps
<1>2. Found(l) \in Dir \cup {NoDir}
  BY DEF Found, Types
<1>3. CASE StartPatch(l)
  <2>1. exe' \in [Dir -> {"none", "torn", "v1.00", "v1.09"}] /\ target' \in [Launcher -> Dir \cup {NoDir}]
    BY <1>2, <1>3 DEF StartPatch, Types
  <2>2. step' \in [Launcher -> 1 .. 13] /\ BusyOK'
    <3>1. step[l] = 7 /\ Installing(l) /\ l \notin busy
      BY <1>1, <1>3, StepAt DEF StartPatch
    <3>2. CASE busy' = busy
      BY <1>3, <3>1, <3>2, AdvanceTypes DEF StartPatch
    <3>3. CASE busy' = busy \cup {l}
      BY <1>3, <3>1, <3>3 DEF StartPatch, Types, BusyOK, Installing
    <3> QED BY <1>3, <3>2, <3>3 DEF StartPatch
  <2> QED BY <1>3, <2>1, <2>2 DEF StartPatch, Types, regVars, history
<1>4. CASE EndPatch(l)
  <2>1. exe' \in [Dir -> {"none", "torn", "v1.00", "v1.09"}]
    BY <1>4 DEF EndPatch, Types
  <2>2. step' \in [Launcher -> 1 .. 13] /\ BusyOK'
    BY <1>1, <1>4, StepAt DEF EndPatch, Advance, Types, BusyOK, Installing
  <2> QED BY <1>4, <2>1, <2>2 DEF EndPatch, Types, regVars, history
<1>5. CASE FailPatch(l)
  <2>1. step' \in [Launcher -> 1 .. 13] /\ BusyOK'
    BY <1>1, <1>5, StepAt, AdvanceTypes DEF FailPatch
  <2> QED BY <1>5, <2>1 DEF FailPatch, Types, dirVars, regVars
<1> QED BY <1>3, <1>4, <1>5

\* Every step keeps the types.
LEMMA StepTypes == Types /\ [Next]_vars => Types'
<1> SUFFICES ASSUME Types, [Next]_vars  PROVE Types'
  OBVIOUS
<1>1. CASE UNCHANGED vars
  BY <1>1 DEF Types, BusyOK, Installing, vars, procVars, dirVars, regVars, history
<1>2. ASSUME NEW d \in Dir, DeleteDir(d)  PROVE Types'
  BY <1>2 DEF DeleteDir, Types, BusyOK, Installing, procVars, regVars
<1>3. ASSUME NEW l \in Launcher, Kill(l)  PROVE Types'
  BY <1>3, EndedTypes DEF Kill
<1> QED BY <1>1, <1>2, <1>3, WmainTypes, CopyTypes, ExtractTypes, KeyTypes, PatchTypes DEF Next

\* The types of the launchers, the directories and the registry key.
THEOREM TypeCorrect == Spec => []TypeOK
<1>1. Init => Types
  BY TypesInit
<1>2. Types => TypeOK
  BY TypesOK
<1> QED BY <1>1, <1>2, StepTypes, PTL DEF Spec

-----------------------------------------------------------------------------
(* The inductive invariant. *)

\* In the middle of an installation, or just after it.
Held(l) == Begun(l) \/ phase[l] = "success"
Has(d)  == "DATA" \in files[d] \cup torn[d]

BusyTorn == \A l \in busy : step[l] = 1 => "DATA" \in torn[dir[l]]
DoneThere ==
    \A l \in Launcher : Held(l) =>
        /\ step[l] > 1 => "DATA" \in files[dir[l]]
        /\ step[l] > 2 => "EXE" \in files[dir[l]]
        /\ step[l] > 3 => "cab" \in files[dir[l]]
        /\ step[l] > 9 => "AT" \in files[dir[l]]
        /\ step[l] > 10 => "HK" \in files[dir[l]]
        /\ step[l] > 11 => "OR" \in files[dir[l]]
        /\ step[l] > 12 => "cfg" \in files[dir[l]]
OneHolds ==
    \A l, m \in Launcher : (l # m /\ Held(l) /\ Held(m)) => dir[l] # dir[m]
HeldNotCut == \A l \in Launcher : Held(l) => dir[l] \notin cut
CutHas == \A d \in cut : Has(d)
NewIsEmpty == \A d \in Dir : ~Has(d) => exe[d] = "none"
Early ==
    \A l \in Launcher : (Begun(l) /\ (step[l] < 3 \/ (step[l] = 3 /\ l \notin busy))) =>
        exe[dir[l]] = "none"
Extracting ==
    \A l \in busy : step[l] = 3 =>
        exe[dir[l]] = "torn" /\ \A m \in busy : step[m] = 7 => target[m] # dir[l]
Checked ==
    \A l \in Launcher :
        /\ phase[l] \in {"new", "asking"} => step[l] = 1
        /\ phase[l] = "success" => step[l] = 13 /\ exe[dir[l]] = "v1.09"
        /\ phase[l] = "window" => exe[dir[l]] = "v1.09"
BusyPatch == \A l \in busy : step[l] = 7 => target[l] \in Dir /\ exe[target[l]] # "none"
ExeHasCause ==
    \A d \in Dir : exe[d] # "none" =>
        \/ Whole \subseteq files[d]
        \/ d \in cut
        \/ \E l \in Launcher : Begun(l) /\ dir[l] = d

DirInv == /\ BusyTorn /\ DoneThere /\ OneHolds /\ HeldNotCut /\ CutHas
          /\ NewIsEmpty /\ Early /\ Extracting /\ Checked /\ BusyPatch /\ ExeHasCause

\* The key, as long as no two launchers patch at once.
KeyInv ==
    overlap \/
    /\ \A l, m \in Launcher : (InPatch(l) /\ InPatch(m)) => l = m
    /\ \A l \in Launcher : InPatch(l) =>
          /\ step[l] \in 6 .. 8 => override[l] = key /\ key # 0
          /\ step[l] \in 7 .. 8 => path = dir[l]
    /\ \A l \in Launcher : target[l] \in {NoDir, dir[l]}

\* Game.exe, as long as no two launchers patch at once.
Chain ==
    overlap \/ \A l \in Launcher :
        /\ Begun(l) =>
             /\ (step[l] \in 4 .. 6 \/ (step[l] = 7 /\ l \notin busy)) => exe[dir[l]] = "v1.00"
             /\ (step[l] = 7 /\ l \in busy) => target[l] = dir[l]
             /\ step[l] >= 8 => exe[dir[l]] = "v1.09" \/ l \in spoilt
        /\ phase[l] = "failed" => l \in spoilt

IInv == Types /\ DirInv /\ KeyInv /\ Chain

\* The invariant holds before anybody has installed.
LEMMA InvInit == Init => DirInv /\ KeyInv /\ Chain
<1> SUFFICES ASSUME Init  PROVE DirInv /\ KeyInv /\ Chain
  OBVIOUS
<1>1. \A l \in Launcher : phase[l] = "new" /\ ~Held(l) /\ ~Begun(l) /\ ~InPatch(l) /\ target[l] = NoDir
  BY DEF Init, Held, Begun, InPatch, Installing
<1>2. \A d \in Dir : exe[d] = "none" /\ d \notin cut
  BY DEF Init
<1>3. busy = {} /\ cut = {}
  BY DEF Init
<1>4. \A l \in Launcher : step[l] = 1
  BY DEF Init
<1> QED BY <1>1, <1>2, <1>3, <1>4 DEF DirInv, BusyTorn, DoneThere, OneHolds, HeldNotCut, CutHas,
         NewIsEmpty, Early, Extracting, Checked, BusyPatch, ExeHasCause, KeyInv, Chain

\* The directory of a launcher in the middle of an installation is not new.
LEMMA HeldHas ==
    ASSUME IInv, NEW l \in Launcher, Held(l)
    PROVE  Has(dir[l])
<1>1. step[l] > 1 \/ (step[l] = 1 /\ l \in busy)
  BY DEF IInv, Types, Held, Begun, DirInv, Checked
<1> QED BY <1>1 DEF IInv, DirInv, BusyTorn, DoneThere, Has

\* The check, and the answers before the installation and after it.
LEMMA BeginInv ==
    ASSUME IInv, NEW l \in Launcher, Begin(l) \/ AnswerOK(l) \/ Confirm(l)
    PROVE  (DirInv /\ KeyInv /\ Chain)'
<1> USE DEF IInv, DirInv
<1>1. UNCHANGED <<dir, step, busy, override, target, files, torn, exe, key, made, path, overlap, spoilt, cut>>
  BY DEF Begin, AnswerOK, Confirm, dirVars, regVars, history
<1>2. l \notin busy /\ ~Installing(l)
  BY DEF Types, BusyOK, Installing, Begin, AnswerOK, Confirm
<1>3. \A m \in Launcher \ {l} : /\ phase'[m] = phase[m] /\ step'[m] = step[m]
                                /\ m \in busy' <=> m \in busy
                                /\ override'[m] = override[m] /\ target'[m] = target[m]
                                /\ Begun(m)' <=> Begun(m)
                                /\ Held(m)' <=> Held(m)
                                /\ InPatch(m)' <=> InPatch(m)
  BY <1>1 DEF Types, Begin, AnswerOK, Confirm, Begun, Held, InPatch, Installing
<1>4. /\ ~Begun(l) /\ ~InPatch(l)
      /\ phase'[l] \in {"window", "asking", "installing", "gone"}
  BY <1>2 DEF Types, Begin, AnswerOK, Confirm, Begun, InPatch
<1>5. phase'[l] = "window" => exe[dir[l]] = "v1.09"
  BY DEF Types, Checked, Begin, AnswerOK, Confirm, Valid
<1>6. phase'[l] \in {"asking", "installing"} => step[l] = 1
  BY DEF Types, Begin, AnswerOK, Confirm, Checked
<1>7. BusyTorn'
  BY <1>1 DEF BusyTorn
<1>8. DoneThere'
  BY <1>1, <1>3, <1>4, <1>6 DEF DoneThere, Begun, Held, Installing
<1>9. OneHolds'
  BY <1>1, <1>2, <1>3, <1>4, <1>6 DEF OneHolds, Begun, Held, Installing
<1>10. HeldNotCut'
  BY <1>1, <1>2, <1>3, <1>4, <1>6 DEF HeldNotCut, Begun, Held, Installing
<1>11. CutHas'
  BY <1>1 DEF CutHas, Has
<1>12. NewIsEmpty'
  BY <1>1 DEF NewIsEmpty, Has
<1>13. Early'
  BY <1>1, <1>2, <1>3, <1>6 DEF Early, Begun, Installing
<1>14. Extracting'
  BY <1>1 DEF Extracting
<1>15. Checked'
  BY <1>1, <1>3, <1>4, <1>5, <1>6 DEF Checked
<1>16. BusyPatch'
  BY <1>1 DEF BusyPatch
<1>17. ExeHasCause'
  BY <1>1, <1>3, <1>4 DEF ExeHasCause
<1>18. KeyInv'
  BY <1>1, <1>3, <1>6 DEF KeyInv, InPatch, Installing
<1>19. Chain'
  BY <1>1, <1>3, <1>4, <1>6 DEF Chain, Begun, Installing
<1> QED BY <1>7, <1>8, <1>9, <1>10, <1>11, <1>12, <1>13, <1>14, <1>15, <1>16, <1>17, <1>18, <1>19

\* The check after it.
LEMMA VerifyInv ==
    ASSUME IInv, NEW l \in Launcher, Verify(l)
    PROVE  (DirInv /\ KeyInv /\ Chain)'
<1> USE DEF IInv, DirInv
<1>1. step[l] \in 1 .. Len(Steps)
  BY DEF Types, Steps
<1>2. Installing(l) /\ step[l] = 13
  BY <1>1, StepAt DEF Verify
<1>3. UNCHANGED <<dir, step, busy, override, target, files, torn, exe, key, made, path, overlap, spoilt, cut>>
  BY DEF Verify, dirVars, regVars, history
<1>4. l \notin busy /\ Begun(l) /\ Held(l)
  BY <1>2 DEF Types, BusyOK, Begun, Held
<1>5. \A m \in Launcher \ {l} : /\ phase'[m] = phase[m] /\ step'[m] = step[m]
                                /\ m \in busy' <=> m \in busy
                                /\ override'[m] = override[m] /\ target'[m] = target[m]
                                /\ Begun(m)' <=> Begun(m)
                                /\ Held(m)' <=> Held(m)
                                /\ InPatch(m)' <=> InPatch(m)
  BY <1>3 DEF Types, Verify, Begun, Held, InPatch, Installing
<1>6. /\ ~Begun(l)' /\ ~InPatch(l)' /\ ~InPatch(l)
      /\ phase'[l] = (IF exe[dir[l]] = "v1.09" THEN "success" ELSE "failed")
  BY <1>2 DEF Types, Verify, Valid, Begun, InPatch, Installing
<1>7. Whole \subseteq files[dir[l]]
  BY <1>2, <1>4 DEF DoneThere, Whole, Copies
<1>8. BusyTorn'
  BY <1>3 DEF BusyTorn
<1>9. DoneThere'
  BY <1>3, <1>4, <1>5 DEF DoneThere
<1>10. OneHolds'
  BY <1>3, <1>4, <1>5 DEF OneHolds
<1>11. HeldNotCut'
  BY <1>3, <1>4, <1>5 DEF HeldNotCut
<1>12. CutHas'
  BY <1>3 DEF CutHas, Has
<1>13. NewIsEmpty'
  BY <1>3 DEF NewIsEmpty, Has
<1>14. Early'
  BY <1>3, <1>5, <1>6 DEF Early
<1>15. Extracting'
  BY <1>3 DEF Extracting
<1>16. Checked'
  BY <1>2, <1>3, <1>5, <1>6 DEF Checked
<1>17. BusyPatch'
  BY <1>3 DEF BusyPatch
<1>18. ExeHasCause'
  BY <1>3, <1>5, <1>7 DEF ExeHasCause
<1>19. KeyInv'
  BY <1>3, <1>5, <1>6 DEF KeyInv
<1>20. Chain'
  BY <1>2, <1>3, <1>4, <1>5, <1>6 DEF Chain
<1> QED BY <1>8, <1>9, <1>10, <1>11, <1>12, <1>13, <1>14, <1>15, <1>16, <1>17, <1>18, <1>19, <1>20

\* A launcher that ends, by itself or not.
LEMMA EndedInv ==
    ASSUME IInv, NEW l \in Launcher, Alive(l), Ended(l)
    PROVE  (DirInv /\ KeyInv /\ Chain)'
<1> USE DEF IInv, DirInv
<1>1. UNCHANGED <<dir, step, target, files, torn, exe, key, made, path, overlap, spoilt>>
  BY DEF Ended, dirVars, regVars
<1>2. \A m \in Launcher \ {l} : /\ phase'[m] = phase[m] /\ step'[m] = step[m]
                                /\ m \in busy' <=> m \in busy
                                /\ override'[m] = override[m] /\ target'[m] = target[m]
                                /\ Begun(m)' <=> Begun(m)
                                /\ Held(m)' <=> Held(m)
                                /\ InPatch(m)' <=> InPatch(m)
  BY <1>1 DEF Types, Ended, Begun, Held, InPatch, Installing
<1>3. phase'[l] = "gone" /\ l \notin busy' /\ ~Begun(l)' /\ ~Held(l)' /\ ~InPatch(l)'
  BY DEF Types, Ended, Begun, Held, InPatch, Installing
<1>4. busy' = busy \ {l} /\ cut' = IF Begun(l) THEN cut \cup {dir[l]} ELSE cut
  BY DEF Ended
<1>5. Begun(l) => Has(dir[l])
  BY HeldHas DEF Held
<1>6. \A m \in Launcher \ {l} : Held(m) /\ Begun(l) => dir[m] # dir[l]
  BY DEF OneHolds, Held
<1>7. BusyTorn'
  BY <1>1, <1>4 DEF BusyTorn
<1>8. DoneThere'
  BY <1>1, <1>2, <1>3 DEF DoneThere
<1>9. OneHolds'
  BY <1>1, <1>2, <1>3 DEF OneHolds
<1>10. HeldNotCut'
  BY <1>1, <1>2, <1>3, <1>4, <1>6 DEF HeldNotCut
<1>11. CutHas'
  BY <1>1, <1>4, <1>5 DEF CutHas, Has
<1>12. NewIsEmpty'
  BY <1>1 DEF NewIsEmpty, Has
<1>13. Early'
  BY <1>1, <1>2, <1>3 DEF Early
<1>14. Extracting'
  BY <1>1, <1>4 DEF Extracting
<1>15. Checked'
  BY <1>1, <1>2, <1>3 DEF Checked
<1>16. BusyPatch'
  BY <1>1, <1>4 DEF BusyPatch
<1>17. ExeHasCause'
  BY <1>1, <1>2, <1>4 DEF ExeHasCause
<1>18. KeyInv'
  BY <1>1, <1>2, <1>3 DEF KeyInv
<1>19. Chain'
  BY <1>1, <1>2, <1>3 DEF Chain
<1> QED BY <1>7, <1>8, <1>9, <1>10, <1>11, <1>12, <1>13, <1>14, <1>15, <1>16, <1>17, <1>18, <1>19

\* A copy that begins.
LEMMA StartCopyInv ==
    ASSUME IInv, NEW l \in Launcher, NEW p \in Copies, StartCopy(l, p), ~Exists(dir[l], p), ~Ended(l)
    PROVE  (DirInv /\ KeyInv /\ Chain)'
<1> USE DEF IInv, DirInv
<1>1. step[l] \in 1 .. Len(Steps)
  BY DEF Types, Steps
<1>2. /\ Installing(l) /\ l \notin busy /\ step[l] \in {1, 2, 9, 10, 11}
      /\ step[l] = 1 <=> p = "DATA"
  BY <1>1, StepAt DEF StartCopy, Copies
<1>3. UNCHANGED <<dir, phase, step, override, target, exe, key, made, path, overlap, spoilt, cut>>
  BY DEF StartCopy, regVars, history
<1>4. /\ p \notin files[dir[l]] /\ p \notin torn[dir[l]]
      /\ files' = [files EXCEPT ![dir[l]] = @ \ {p}] /\ torn' = [torn EXCEPT ![dir[l]] = @ \cup {p}]
      /\ busy' = busy \cup {l}
  BY DEF StartCopy, Exists, Types
<1>5. \A m \in Launcher \ {l} : /\ phase'[m] = phase[m] /\ step'[m] = step[m]
                                /\ m \in busy' <=> m \in busy
                                /\ override'[m] = override[m] /\ target'[m] = target[m]
                                /\ Begun(m)' <=> Begun(m)
                                /\ Held(m)' <=> Held(m)
                                /\ InPatch(m)' <=> InPatch(m)
  BY <1>3, <1>4 DEF Types, StartCopy, Begun, Held, InPatch, Installing
<1>6. Begun(l)' /\ Held(l)' /\ (InPatch(l)' <=> InPatch(l)) /\ ~InPatch(l)
  BY <1>2, <1>3, <1>4 DEF Begun, Held, InPatch, Installing
<1>7. p # "DATA" => Begun(l) /\ Held(l)
  BY <1>2 DEF Types, Begun, Held
<1>8. p = "DATA" => ~Has(dir[l]) /\ ~Begun(l) /\ exe[dir[l]] = "none"
  BY <1>2, <1>4 DEF Types, Has, NewIsEmpty, Begun
<1>9. \A d \in Dir : files'[d] = files[d] /\ (Has(d) => Has(d)')
  BY <1>4 DEF Types, Has
<1>10. \A m \in Launcher : Held(m) => Has(dir[m])
  BY HeldHas
<1>11. dir[l] \notin cut
  BY <1>2, <1>7, <1>8 DEF CutHas, HeldNotCut
<1>12. BusyTorn'
  BY <1>2, <1>3, <1>4 DEF Types, BusyTorn
<1>13. DoneThere'
  BY <1>2, <1>3, <1>4, <1>5, <1>7 DEF DoneThere
<1>14. OneHolds'
  BY <1>3, <1>5, <1>7, <1>8, <1>10 DEF OneHolds
<1>15. HeldNotCut'
  BY <1>3, <1>5, <1>11 DEF HeldNotCut
<1>16. CutHas'
  BY <1>3, <1>4 DEF CutHas, Has
<1>17. NewIsEmpty'
  BY <1>3, <1>9 DEF NewIsEmpty
<1>18. Early'
  BY <1>3, <1>4, <1>5, <1>7, <1>8 DEF Early
<1>19. Extracting'
  BY <1>2, <1>3, <1>4 DEF Extracting
<1>20. Checked'
  BY <1>3 DEF Checked
<1>21. BusyPatch'
  BY <1>2, <1>3, <1>4 DEF BusyPatch
<1>22. ExeHasCause'
  BY <1>3, <1>5, <1>6, <1>9 DEF ExeHasCause
<1>23. KeyInv'
  BY <1>3 DEF KeyInv, InPatch, Installing
<1>24. Chain'
  BY <1>2, <1>3, <1>5, <1>7 DEF Chain
<1> QED BY <1>12, <1>13, <1>14, <1>15, <1>16, <1>17, <1>18, <1>19, <1>20, <1>21, <1>22, <1>23, <1>24

\* A copy that ends.
LEMMA EndCopyInv ==
    ASSUME IInv, NEW l \in Launcher, NEW p \in Copies, EndCopy(l, p)
    PROVE  (DirInv /\ KeyInv /\ Chain)'
<1> USE DEF IInv, DirInv
<1>1. step[l] \in 1 .. Len(Steps)
  BY DEF Types, Steps
<1>2. /\ Installing(l) /\ l \in busy /\ step[l] \in {1, 2, 9, 10, 11}
      /\ step[l] = 1 <=> p = "DATA"
      /\ step[l] = 2 => p = "EXE"
      /\ step[l] = 9 => p = "AT"
      /\ step[l] = 10 => p = "HK"
      /\ step[l] = 11 => p = "OR"
  BY <1>1, StepAt DEF EndCopy, Copies
<1>3. UNCHANGED <<dir, phase, override, target, exe, key, made, path, overlap, spoilt, cut>>
  BY DEF EndCopy, regVars, history
<1>4. /\ files' = [files EXCEPT ![dir[l]] = @ \cup {p}] /\ torn' = [torn EXCEPT ![dir[l]] = @ \ {p}]
      /\ busy' = busy \ {l} /\ step' = [step EXCEPT ![l] = @ + 1]
  BY DEF EndCopy, Advance
<1>5. \A m \in Launcher \ {l} : /\ phase'[m] = phase[m] /\ step'[m] = step[m]
                                /\ m \in busy' <=> m \in busy
                                /\ override'[m] = override[m] /\ target'[m] = target[m]
                                /\ Begun(m)' <=> Begun(m)
                                /\ Held(m)' <=> Held(m)
                                /\ InPatch(m)' <=> InPatch(m)
  BY <1>3, <1>4 DEF Types, Begun, Held, InPatch, Installing
<1>6. /\ Begun(l)' /\ Held(l)' /\ Begun(l) /\ Held(l) /\ ~InPatch(l)' /\ ~InPatch(l)
      /\ l \notin busy' /\ step'[l] = step[l] + 1
  BY <1>2, <1>3, <1>4 DEF Types, Begun, Held, InPatch, Installing
<1>7. \A d \in Dir : Has(d) <=> Has(d)'
  BY <1>2, <1>4 DEF Types, BusyTorn, Has
<1>8. \A d \in Dir : files[d] \subseteq files'[d]
  BY <1>4 DEF Types
<1>9. p \in files'[dir[l]]
  BY <1>4 DEF Types
<1>10. \A m \in Launcher \ {l} : Held(m) => dir[m] # dir[l]
  BY <1>6 DEF OneHolds
<1>11. \A m \in busy : m \in Launcher /\ Held(m)
  BY DEF Types, BusyOK, Held, Begun
<1>12. BusyTorn'
  BY <1>3, <1>4, <1>10, <1>11 DEF BusyTorn
<1>13. DoneThere'
  BY <1>2, <1>3, <1>4, <1>5, <1>9, <1>11 DEF DoneThere
<1>14. OneHolds'
  BY <1>3, <1>5, <1>10 DEF OneHolds
<1>15. HeldNotCut'
  BY <1>3, <1>5, <1>6 DEF HeldNotCut
<1>16. CutHas'
  BY <1>3, <1>4, <1>9 DEF CutHas, Has
<1>17. NewIsEmpty'
  BY <1>3, <1>7 DEF NewIsEmpty
<1>18. Early'
  BY <1>2, <1>3, <1>5, <1>6 DEF Early
<1>19. Extracting'
  BY <1>3, <1>4 DEF Extracting
<1>20. Checked'
  BY <1>3, <1>5, <1>6 DEF Checked, Begun, Installing
<1>21. BusyPatch'
  BY <1>3, <1>4 DEF BusyPatch
<1>22. ExeHasCause'
  <2> SUFFICES ASSUME NEW d \in Dir, exe'[d] # "none", d \notin cut, ~(Whole \subseteq files'[d])
              PROVE  \E m \in Launcher : Begun(m)' /\ dir[m] = d
    BY <1>3 DEF ExeHasCause
  <2>1. PICK m \in Launcher : Begun(m) /\ dir[m] = d
    BY <1>3, <1>5, <1>6, <1>8 DEF Types, ExeHasCause
  <2> QED BY <2>1, <1>3, <1>5, <1>6, <1>8
<1>23. KeyInv'
  BY <1>3, <1>5, <1>6 DEF KeyInv
<1>24. Chain'
  BY <1>2, <1>3, <1>5, <1>6 DEF Chain
<1> QED BY <1>12, <1>13, <1>14, <1>15, <1>16, <1>17, <1>18, <1>19, <1>20, <1>21, <1>22, <1>23, <1>24

\* The extraction begins.
LEMMA StartExtractInv ==
    ASSUME IInv, NEW l \in Launcher, StartExtract(l)
    PROVE  (DirInv /\ KeyInv /\ Chain)'
<1> USE DEF IInv, DirInv
<1>1. step[l] \in 1 .. Len(Steps)
  BY DEF Types, Steps
<1>2. Installing(l) /\ step[l] = 3
  BY <1>1, StepAt DEF StartExtract
<1>3. UNCHANGED <<dir, phase, step, override, target, key, made, path, overlap, spoilt, cut>>
  BY DEF StartExtract, regVars, history
<1>4. /\ l \notin busy /\ busy' = busy \cup {l}
      /\ torn' = [torn EXCEPT ![dir[l]] = @ \cup {"cab"}]
      /\ files' = [files EXCEPT ![dir[l]] = @ \ {"cab"}]
      /\ exe' = [exe EXCEPT ![dir[l]] = "torn"]
  BY DEF StartExtract, Advance
<1>5. \A m \in Launcher \ {l} : /\ phase'[m] = phase[m] /\ step'[m] = step[m]
                                /\ m \in busy' <=> m \in busy
                                /\ override'[m] = override[m] /\ target'[m] = target[m]
                                /\ Begun(m)' <=> Begun(m)
                                /\ Held(m)' <=> Held(m)
                                /\ InPatch(m)' <=> InPatch(m)
  BY <1>3, <1>4 DEF Types, Begun, Held, InPatch, Installing
<1>6. /\ Begun(l)' /\ Held(l)' /\ Begun(l) /\ Held(l) /\ ~InPatch(l)' /\ ~InPatch(l)
      /\ step'[l] = 3 /\ l \in busy'
  BY <1>2, <1>3, <1>4 DEF Types, Begun, Held, InPatch, Installing
<1>7. \A d \in Dir : Has(d) <=> Has(d)'
  BY <1>4 DEF Types, Has
<1>8. \A m \in Launcher : Held(m) => Has(dir[m])
  BY HeldHas
<1>9. \A m \in Launcher \ {l} : Held(m) => dir[m] # dir[l]
  BY <1>6 DEF OneHolds
<1>10. \A d \in Dir \ {dir[l]} : files'[d] = files[d] /\ torn'[d] = torn[d] /\ exe'[d] = exe[d]
  BY <1>4 DEF Types
<1>11. /\ exe'[dir[l]] = "torn" /\ files'[dir[l]] = files[dir[l]] \ {"cab"}
      /\ exe[dir[l]] = "none"
  BY <1>2, <1>4, <1>6 DEF Types, Early
<1>12. BusyTorn'
  BY <1>3, <1>4, <1>6 DEF BusyTorn
<1>13. DoneThere'
  BY <1>3, <1>4, <1>5, <1>6, <1>9 DEF DoneThere
<1>14. OneHolds'
  BY <1>3, <1>5, <1>9 DEF OneHolds
<1>15. HeldNotCut'
  BY <1>3, <1>5, <1>6 DEF HeldNotCut
<1>16. CutHas'
  BY <1>3, <1>4 DEF CutHas, Has
<1>17. NewIsEmpty'
  BY <1>6, <1>7, <1>8, <1>10 DEF NewIsEmpty
<1>18. Early'
  BY <1>3, <1>4, <1>6, <1>9 DEF Early, Begun, Held, Installing
<1>19. Extracting'
  BY <1>3, <1>4, <1>6, <1>11 DEF Extracting, BusyPatch
<1>20. Checked'
  BY <1>3, <1>4, <1>11 DEF Checked
<1>21. BusyPatch'
  BY <1>3, <1>4, <1>6 DEF BusyPatch
<1>22. ExeHasCause'
  BY <1>3, <1>5, <1>6, <1>10 DEF ExeHasCause
<1>23. KeyInv'
  BY <1>3 DEF KeyInv, InPatch, Installing
<1>24. Chain'
  BY <1>3, <1>4, <1>5, <1>6, <1>11 DEF Chain
<1> QED BY <1>12, <1>13, <1>14, <1>15, <1>16, <1>17, <1>18, <1>19, <1>20, <1>21, <1>22, <1>23, <1>24

\* The extraction ends.
LEMMA EndExtractInv ==
    ASSUME IInv, NEW l \in Launcher, EndExtract(l)
    PROVE  (DirInv /\ KeyInv /\ Chain)'
<1> USE DEF IInv, DirInv
<1>1. step[l] \in 1 .. Len(Steps)
  BY DEF Types, Steps
<1>2. Installing(l) /\ step[l] = 3
  BY <1>1, StepAt DEF EndExtract
<1>3. UNCHANGED <<dir, phase, override, target, key, made, path, overlap, spoilt, cut>>
  BY DEF EndExtract, regVars, history
<1>4. /\ l \in busy /\ busy' = busy \ {l}
      /\ torn' = [torn EXCEPT ![dir[l]] = @ \ {"cab"}]
      /\ files' = [files EXCEPT ![dir[l]] = @ \cup {"cab"}]
      /\ exe' = [exe EXCEPT ![dir[l]] = "v1.00"]
      /\ step' = [step EXCEPT ![l] = @ + 1]
  BY DEF EndExtract, Advance
<1>5. \A m \in Launcher \ {l} : /\ phase'[m] = phase[m] /\ step'[m] = step[m]
                                /\ m \in busy' <=> m \in busy
                                /\ override'[m] = override[m] /\ target'[m] = target[m]
                                /\ Begun(m)' <=> Begun(m)
                                /\ Held(m)' <=> Held(m)
                                /\ InPatch(m)' <=> InPatch(m)
  BY <1>3, <1>4 DEF Types, Begun, Held, InPatch, Installing
<1>6. /\ Begun(l)' /\ Held(l)' /\ Begun(l) /\ Held(l) /\ ~InPatch(l)' /\ ~InPatch(l)
      /\ step'[l] = 4 /\ l \notin busy'
  BY <1>2, <1>3, <1>4 DEF Types, Begun, Held, InPatch, Installing
<1>7. \A d \in Dir : Has(d) <=> Has(d)'
  BY <1>4 DEF Types, Has
<1>8. \A m \in Launcher : Held(m) => Has(dir[m])
  BY HeldHas
<1>9. \A m \in Launcher \ {l} : Held(m) => dir[m] # dir[l]
  BY <1>6 DEF OneHolds
<1>10. \A d \in Dir \ {dir[l]} : files'[d] = files[d] /\ torn'[d] = torn[d] /\ exe'[d] = exe[d]
  BY <1>4 DEF Types
<1>11. /\ exe'[dir[l]] = "v1.00" /\ files'[dir[l]] = files[dir[l]] \cup {"cab"}
      /\ exe[dir[l]] = "torn"
  BY <1>2, <1>4 DEF Types, Extracting
<1>12. BusyTorn'
  BY <1>3, <1>4 DEF BusyTorn
<1>13. DoneThere'
  BY <1>2, <1>3, <1>4, <1>5, <1>6, <1>11 DEF DoneThere
<1>14. OneHolds'
  BY <1>3, <1>5, <1>9 DEF OneHolds
<1>15. HeldNotCut'
  BY <1>3, <1>5, <1>6 DEF HeldNotCut
<1>16. CutHas'
  BY <1>3, <1>4 DEF CutHas, Has
<1>17. NewIsEmpty'
  BY <1>7, <1>10, <1>11 DEF NewIsEmpty
<1>18. Early'
  BY <1>3, <1>4, <1>5, <1>6, <1>11 DEF Early
<1>19. Extracting'
  BY <1>3, <1>4, <1>9 DEF Types, Extracting, BusyOK, Begun, Held
<1>20. Checked'
  BY <1>3, <1>4, <1>6, <1>11 DEF Checked
<1>21. BusyPatch'
  BY <1>3, <1>4 DEF BusyPatch
<1>22. ExeHasCause'
  BY <1>3, <1>5, <1>6, <1>10 DEF ExeHasCause
<1>23. KeyInv'
  BY <1>3, <1>5, <1>6 DEF KeyInv
<1>24. Chain'
  BY <1>3, <1>4, <1>5, <1>6, <1>11 DEF Chain
<1> QED BY <1>12, <1>13, <1>14, <1>15, <1>16, <1>17, <1>18, <1>19, <1>20, <1>21, <1>22, <1>23, <1>24

\* resource.cfg is written.
LEMMA WriteCfgInv ==
    ASSUME IInv, NEW l \in Launcher, WriteCfg(l)
    PROVE  (DirInv /\ KeyInv /\ Chain)'
<1> USE DEF IInv, DirInv
<1>1. step[l] \in 1 .. Len(Steps)
  BY DEF Types, Steps
<1>2. Installing(l) /\ step[l] = 12
  BY <1>1, StepAt DEF WriteCfg
<1>3. UNCHANGED <<dir, phase, busy, override, target, torn, exe, key, made, path, overlap, spoilt, cut>>
  BY DEF WriteCfg, Enter, dirVars, regVars, history
<1>4. step' = [step EXCEPT ![l] = @ + 1] /\ files' = [files EXCEPT ![dir[l]] = @ \cup {"cfg"}]
  BY DEF WriteCfg, Advance, Enter, PathSet, dirVars, regVars, history
<1>5. /\ ~(l \in busy) /\ ~(l \in busy') /\ Begun(l) /\ Begun(l)' /\ Held(l) /\ Held(l)'
      /\ ~InPatch(l) /\ ~InPatch(l)' /\ step'[l] = 13
  BY <1>2, <1>3, <1>4 DEF Types, BusyOK, Begun, Held, InPatch, Installing
<1>6. \A m \in Launcher \ {l} : /\ step'[m] = step[m] /\ (Begun(m)' <=> Begun(m)) /\ (Held(m)' <=> Held(m))
                                /\ (InPatch(m)' <=> InPatch(m))
  BY <1>3, <1>4 DEF Types, Begun, Held, InPatch, Installing
<1>7. \A d \in Dir : files[d] \subseteq files'[d] /\ (Has(d) => Has(d)')
  BY <1>3, <1>4 DEF Types, Has
<1>8. "cfg" \in files'[dir[l]]
  BY <1>4 DEF Types
<1>9. \A d \in Dir : Has(d)' => Has(d)
  BY <1>3, <1>4 DEF Types, Has
<1>10. BusyTorn'
  BY <1>3, <1>4, <1>5 DEF BusyTorn
<1>11. DoneThere'
  BY <1>2, <1>3, <1>4, <1>5, <1>6, <1>8 DEF DoneThere
<1>12. OneHolds'
  BY <1>3, <1>5, <1>6 DEF OneHolds
<1>13. HeldNotCut'
  BY <1>3, <1>5, <1>6 DEF HeldNotCut
<1>14. CutHas'
  BY <1>3, <1>4 DEF CutHas, Has
<1>15. NewIsEmpty'
  BY <1>3, <1>7 DEF NewIsEmpty
<1>16. Early'
  BY <1>3, <1>5, <1>6 DEF Early
<1>17. Extracting'
  BY <1>3, <1>4, <1>5 DEF Extracting
<1>18. Checked'
  BY <1>3, <1>4, <1>5 DEF Checked
<1>19. BusyPatch'
  BY <1>3, <1>4, <1>5 DEF BusyPatch
<1>20. ExeHasCause'
  BY <1>3, <1>5, <1>6, <1>7 DEF ExeHasCause
<1>21. KeyInv'
  BY <1>3, <1>5, <1>6 DEF KeyInv
<1>22. Chain'
  BY <1>2, <1>3, <1>5, <1>6 DEF Chain
<1> QED BY <1>10, <1>11, <1>12, <1>13, <1>14, <1>15, <1>16, <1>17, <1>18, <1>19, <1>20, <1>21, <1>22

\* The old key goes.
LEMMA UnregisterInv ==
    ASSUME IInv, NEW l \in Launcher, Unregister(l)
    PROVE  (DirInv /\ KeyInv /\ Chain)'
<1> USE DEF IInv, DirInv
<1>1. step[l] \in 1 .. Len(Steps)
  BY DEF Types, Steps
<1>2. Installing(l) /\ step[l] = 4
  BY <1>1, StepAt DEF Unregister
<1>3. UNCHANGED <<dir, phase, busy, override, target, files, torn, exe, made, spoilt, cut>>
  BY DEF Unregister, Enter, dirVars, regVars, history
<1>4. step' = [step EXCEPT ![l] = @ + 1]
      /\ overlap' = (overlap \/ \E m \in Launcher \ {l} : InPatch(m))
  BY DEF Unregister, Advance, Enter, PathSet, dirVars, regVars, history
<1>5. /\ ~(l \in busy) /\ ~(l \in busy') /\ Begun(l) /\ Begun(l)' /\ Held(l) /\ Held(l)'
      /\ ~InPatch(l) /\ InPatch(l)' /\ step'[l] = 5
  BY <1>2, <1>3, <1>4 DEF Types, BusyOK, Begun, Held, InPatch, Installing
<1>6. \A m \in Launcher \ {l} : /\ step'[m] = step[m] /\ (Begun(m)' <=> Begun(m)) /\ (Held(m)' <=> Held(m))
                                /\ (InPatch(m)' <=> InPatch(m))
  BY <1>3, <1>4 DEF Types, Begun, Held, InPatch, Installing
<1>7. BusyTorn'
  BY <1>3, <1>4, <1>5 DEF BusyTorn
<1>8. DoneThere'
  BY <1>2, <1>3, <1>5, <1>6 DEF DoneThere
<1>9. OneHolds'
  BY <1>3, <1>5, <1>6 DEF OneHolds
<1>10. HeldNotCut'
  BY <1>3, <1>5, <1>6 DEF HeldNotCut
<1>11. CutHas'
  BY <1>3 DEF CutHas, Has
<1>12. NewIsEmpty'
  BY <1>3 DEF NewIsEmpty, Has
<1>13. Early'
  BY <1>3, <1>5, <1>6 DEF Early
<1>14. Extracting'
  BY <1>3, <1>4, <1>5 DEF Extracting
<1>15. Checked'
  BY <1>3, <1>4, <1>5 DEF Checked
<1>16. BusyPatch'
  BY <1>3, <1>4, <1>5 DEF BusyPatch
<1>17. ExeHasCause'
  BY <1>3, <1>5, <1>6 DEF ExeHasCause
<1>18. KeyInv'
  <2> SUFFICES ASSUME ~overlap'  PROVE KeyInv'
    BY DEF KeyInv
  <2>1. ~overlap /\ \A m \in Launcher : InPatch(m)' => m = l
    BY <1>4, <1>6 DEF Types
  <2>2. step'[l] = 5
    BY <1>5
  <2> QED BY <1>3, <2>1, <2>2 DEF KeyInv
<1>19. Chain'
  BY <1>3, <1>4, <1>5, <1>6 DEF Types, Chain
<1> QED BY <1>7, <1>8, <1>9, <1>10, <1>11, <1>12, <1>13, <1>14, <1>15, <1>16, <1>17, <1>18, <1>19

\* The key is there.
LEMMA RegisterInv ==
    ASSUME IInv, NEW l \in Launcher, Register(l)
    PROVE  (DirInv /\ KeyInv /\ Chain)'
<1> USE DEF IInv, DirInv
<1>1. step[l] \in 1 .. Len(Steps)
  BY DEF Types, Steps
<1>2. Installing(l) /\ step[l] = 5
  BY <1>1, StepAt DEF Register
<1>3. UNCHANGED <<dir, phase, busy, target, files, torn, exe, path, overlap, spoilt, cut>>
  BY DEF Register, Enter, dirVars, regVars, history
<1>4. step' = [step EXCEPT ![l] = @ + 1]
  BY DEF Register, Advance, Enter, PathSet, dirVars, regVars, history
<1>5. /\ ~(l \in busy) /\ ~(l \in busy') /\ Begun(l) /\ Begun(l)' /\ Held(l) /\ Held(l)'
      /\ InPatch(l) /\ InPatch(l)' /\ step'[l] = 6
  BY <1>2, <1>3, <1>4 DEF Types, BusyOK, Begun, Held, InPatch, Installing
<1>6. \A m \in Launcher \ {l} : /\ step'[m] = step[m] /\ (Begun(m)' <=> Begun(m)) /\ (Held(m)' <=> Held(m))
                                /\ (InPatch(m)' <=> InPatch(m))
  BY <1>3, <1>4 DEF Types, Begun, Held, InPatch, Installing
<1>7. override' = [override EXCEPT ![l] = key'] /\ key' # 0 /\ key' \in Nat
  BY DEF Register, Types
<1>8. BusyTorn'
  BY <1>3, <1>4, <1>5 DEF BusyTorn
<1>9. DoneThere'
  BY <1>2, <1>3, <1>5, <1>6 DEF DoneThere
<1>10. OneHolds'
  BY <1>3, <1>5, <1>6 DEF OneHolds
<1>11. HeldNotCut'
  BY <1>3, <1>5, <1>6 DEF HeldNotCut
<1>12. CutHas'
  BY <1>3 DEF CutHas, Has
<1>13. NewIsEmpty'
  BY <1>3 DEF NewIsEmpty, Has
<1>14. Early'
  BY <1>3, <1>5, <1>6 DEF Early
<1>15. Extracting'
  BY <1>3, <1>4, <1>5 DEF Extracting
<1>16. Checked'
  BY <1>3, <1>4, <1>5 DEF Checked
<1>17. BusyPatch'
  BY <1>3, <1>4, <1>5 DEF BusyPatch
<1>18. ExeHasCause'
  BY <1>3, <1>5, <1>6 DEF ExeHasCause
<1>19. KeyInv'
  BY <1>3, <1>5, <1>6, <1>7 DEF Types, KeyInv
<1>20. Chain'
  BY <1>2, <1>3, <1>5, <1>6 DEF Chain
<1> QED BY <1>8, <1>9, <1>10, <1>11, <1>12, <1>13, <1>14, <1>15, <1>16, <1>17, <1>18, <1>19, <1>20

\* The path is set.
LEMMA SetPathInv ==
    ASSUME IInv, NEW l \in Launcher, SetPath(l), ~Ended(l)
    PROVE  (DirInv /\ KeyInv /\ Chain)'
<1> USE DEF IInv, DirInv
<1>1. step[l] \in 1 .. Len(Steps)
  BY DEF Types, Steps
<1>2. Installing(l) /\ step[l] = 6
  BY <1>1, StepAt DEF SetPath
<1>3. UNCHANGED <<dir, phase, busy, override, target, files, torn, exe, key, made, overlap, spoilt, cut>>
  BY DEF SetPath, Enter, dirVars, regVars, history
<1>4. step' = [step EXCEPT ![l] = @ + 1]
      /\ path' = dir[l]
  BY DEF SetPath, Advance, Enter, PathSet, dirVars, regVars, history
<1>5. /\ ~(l \in busy) /\ ~(l \in busy') /\ Begun(l) /\ Begun(l)' /\ Held(l) /\ Held(l)'
      /\ InPatch(l) /\ InPatch(l)' /\ step'[l] = 7
  BY <1>2, <1>3, <1>4 DEF Types, BusyOK, Begun, Held, InPatch, Installing
<1>6. \A m \in Launcher \ {l} : /\ step'[m] = step[m] /\ (Begun(m)' <=> Begun(m)) /\ (Held(m)' <=> Held(m))
                                /\ (InPatch(m)' <=> InPatch(m))
  BY <1>3, <1>4 DEF Types, Begun, Held, InPatch, Installing
<1>7. BusyTorn'
  BY <1>3, <1>4, <1>5 DEF BusyTorn
<1>8. DoneThere'
  BY <1>2, <1>3, <1>5, <1>6 DEF DoneThere
<1>9. OneHolds'
  BY <1>3, <1>5, <1>6 DEF OneHolds
<1>10. HeldNotCut'
  BY <1>3, <1>5, <1>6 DEF HeldNotCut
<1>11. CutHas'
  BY <1>3 DEF CutHas, Has
<1>12. NewIsEmpty'
  BY <1>3 DEF NewIsEmpty, Has
<1>13. Early'
  BY <1>3, <1>5, <1>6 DEF Early
<1>14. Extracting'
  BY <1>3, <1>4, <1>5 DEF Extracting
<1>15. Checked'
  BY <1>3, <1>4, <1>5 DEF Checked
<1>16. BusyPatch'
  BY <1>3, <1>4, <1>5 DEF BusyPatch
<1>17. ExeHasCause'
  BY <1>3, <1>5, <1>6 DEF ExeHasCause
<1>18. KeyInv'
  BY <1>2, <1>3, <1>4, <1>5, <1>6 DEF KeyInv
<1>19. Chain'
  BY <1>2, <1>3, <1>5, <1>6 DEF Chain
<1> QED BY <1>7, <1>8, <1>9, <1>10, <1>11, <1>12, <1>13, <1>14, <1>15, <1>16, <1>17, <1>18, <1>19

\* The key goes again.
LEMMA CleanupInv ==
    ASSUME IInv, NEW l \in Launcher, Cleanup(l), ~Ended(l)
    PROVE  (DirInv /\ KeyInv /\ Chain)'
<1> USE DEF IInv, DirInv
<1>1. step[l] \in 1 .. Len(Steps)
  BY DEF Types, Steps
<1>2. Installing(l) /\ step[l] = 8
  BY <1>1, StepAt DEF Cleanup
<1>3. UNCHANGED <<dir, phase, busy, target, files, torn, exe, overlap, spoilt, cut>>
  BY DEF Cleanup, Enter, dirVars, regVars, history
<1>4. step' = [step EXCEPT ![l] = @ + 1]
      /\ override' = [override EXCEPT ![l] = 0]
  BY DEF Cleanup, Advance, Enter, PathSet, dirVars, regVars, history
<1>5. /\ ~(l \in busy) /\ ~(l \in busy') /\ Begun(l) /\ Begun(l)' /\ Held(l) /\ Held(l)'
      /\ InPatch(l) /\ ~InPatch(l)' /\ step'[l] = 9
  BY <1>2, <1>3, <1>4 DEF Types, BusyOK, Begun, Held, InPatch, Installing
<1>6. \A m \in Launcher \ {l} : /\ step'[m] = step[m] /\ (Begun(m)' <=> Begun(m)) /\ (Held(m)' <=> Held(m))
                                /\ (InPatch(m)' <=> InPatch(m))
  BY <1>3, <1>4 DEF Types, Begun, Held, InPatch, Installing
<1>7. BusyTorn'
  BY <1>3, <1>4, <1>5 DEF BusyTorn
<1>8. DoneThere'
  BY <1>2, <1>3, <1>5, <1>6 DEF DoneThere
<1>9. OneHolds'
  BY <1>3, <1>5, <1>6 DEF OneHolds
<1>10. HeldNotCut'
  BY <1>3, <1>5, <1>6 DEF HeldNotCut
<1>11. CutHas'
  BY <1>3 DEF CutHas, Has
<1>12. NewIsEmpty'
  BY <1>3 DEF NewIsEmpty, Has
<1>13. Early'
  BY <1>3, <1>5, <1>6 DEF Early
<1>14. Extracting'
  BY <1>3, <1>4, <1>5 DEF Extracting
<1>15. Checked'
  BY <1>3, <1>4, <1>5 DEF Checked
<1>16. BusyPatch'
  BY <1>3, <1>4, <1>5 DEF BusyPatch
<1>17. ExeHasCause'
  BY <1>3, <1>5, <1>6 DEF ExeHasCause
<1>18. KeyInv'
  BY <1>3, <1>5, <1>6 DEF KeyInv
<1>19. Chain'
  BY <1>2, <1>3, <1>5, <1>6 DEF Chain
<1> QED BY <1>7, <1>8, <1>9, <1>10, <1>11, <1>12, <1>13, <1>14, <1>15, <1>16, <1>17, <1>18, <1>19

\* The patch is in.
LEMMA EndPatchInv ==
    ASSUME IInv, NEW l \in Launcher, EndPatch(l)
    PROVE  (DirInv /\ KeyInv /\ Chain)'
<1> USE DEF IInv, DirInv
<1>1. step[l] \in 1 .. Len(Steps)
  BY DEF Types, Steps
<1>2. Installing(l) /\ step[l] = 7
  BY <1>1, StepAt DEF EndPatch
<1>3. UNCHANGED <<dir, phase, override, target, files, torn, key, made, path, overlap, spoilt, cut>>
  BY DEF EndPatch, regVars, history
<1>4. /\ l \in busy /\ busy' = busy \ {l} /\ step' = [step EXCEPT ![l] = @ + 1]
      /\ exe' = [exe EXCEPT ![target[l]] = "v1.09"]
  BY DEF EndPatch, Advance
<1>5. target[l] \in Dir /\ exe[target[l]] # "none"
  BY <1>2, <1>4 DEF BusyPatch
<1>6. \A d \in Dir : exe'[d] = IF d = target[l] THEN "v1.09" ELSE exe[d]
  BY <1>4 DEF Types
<1>7. Begun(l) /\ Begun(l)' /\ Held(l) /\ Held(l)' /\ InPatch(l) /\ InPatch(l)' /\ step'[l] = 8 /\ l \notin busy'
  BY <1>2, <1>3, <1>4 DEF Types, BusyOK, Begun, Held, InPatch, Installing
<1>8. \A m \in Launcher \ {l} : /\ step'[m] = step[m] /\ (Begun(m)' <=> Begun(m)) /\ (Held(m)' <=> Held(m))
                                /\ (InPatch(m)' <=> InPatch(m))
  BY <1>3, <1>4 DEF Types, Begun, Held, InPatch, Installing
<1>9. BusyTorn'
  BY <1>3, <1>4 DEF BusyTorn
<1>10. DoneThere'
  BY <1>2, <1>3, <1>7, <1>8 DEF DoneThere
<1>11. OneHolds'
  BY <1>3, <1>7, <1>8 DEF OneHolds
<1>12. HeldNotCut'
  BY <1>3, <1>7, <1>8 DEF HeldNotCut
<1>13. CutHas'
  BY <1>3 DEF CutHas, Has
<1>14. NewIsEmpty'
  BY <1>3, <1>5, <1>6 DEF NewIsEmpty, Has
<1>15. Early'
  BY <1>3, <1>4, <1>5, <1>7, <1>8 DEF Early
<1>16. Extracting'
  BY <1>2, <1>3, <1>4 DEF Extracting
<1>17. Checked'
  BY <1>3, <1>4, <1>7 DEF Checked
<1>18. BusyPatch'
  BY <1>3, <1>4 DEF BusyPatch
<1>19. ExeHasCause'
  <2> SUFFICES ASSUME NEW d \in Dir, exe'[d] # "none", d \notin cut, ~(Whole \subseteq files'[d])
              PROVE  \E m \in Launcher : Begun(m)' /\ dir[m] = d
    BY <1>3 DEF ExeHasCause
  <2>1. PICK m \in Launcher : Begun(m) /\ dir[m] = d
    BY <1>3, <1>5, <1>6, <1>7, <1>8 DEF Types, ExeHasCause
  <2> QED BY <2>1, <1>3, <1>5, <1>6, <1>7, <1>8
<1>20. KeyInv'
  BY <1>3, <1>4, <1>7 DEF KeyInv, InPatch, Installing
<1>21. Chain'
  <2> SUFFICES ASSUME ~overlap  PROVE Chain'
    BY <1>3 DEF Chain
  <2>1. target[l] = dir[l]
    BY <1>2, <1>4, <1>7 DEF Chain
  <2>2. \A m \in Launcher \ {l} : Begun(m) => dir[m] # dir[l]
    BY <1>7 DEF OneHolds, Held
  <2>3. \A m \in Launcher \ {l} : m \in busy' <=> m \in busy
    BY <1>4
  <2> QED BY <1>3, <1>6, <1>7, <1>8, <2>1, <2>2, <2>3 DEF Chain, Types
<1> QED BY <1>9, <1>10, <1>11, <1>12, <1>13, <1>14, <1>15, <1>16, <1>17, <1>18, <1>19, <1>20, <1>21

\* The patch fails: Game.exe stays as it is.
LEMMA FailPatchInv ==
    ASSUME IInv, NEW l \in Launcher, FailPatch(l)
    PROVE  (DirInv /\ KeyInv /\ Chain)'
<1> USE DEF IInv, DirInv
<1>1. step[l] \in 1 .. Len(Steps)
  BY DEF Types, Steps
<1>2. Installing(l) /\ step[l] = 7
  BY <1>1, StepAt DEF FailPatch
<1>3. UNCHANGED <<dir, phase, override, target, files, torn, exe, key, made, path, overlap, cut>>
  BY DEF FailPatch, dirVars, regVars
<1>4. busy' = busy \ {l} /\ step' = [step EXCEPT ![l] = @ + 1] /\ spoilt' = spoilt \cup {l}
  BY DEF FailPatch, Advance
<1>5. /\ Begun(l) /\ Begun(l)' /\ Held(l) /\ Held(l)' /\ InPatch(l) /\ InPatch(l)'
      /\ step'[l] = 8 /\ l \notin busy' /\ l \in spoilt'
  BY <1>2, <1>3, <1>4 DEF Types, BusyOK, Begun, Held, InPatch, Installing
<1>6. \A m \in Launcher \ {l} : /\ step'[m] = step[m] /\ (m \in busy' <=> m \in busy)
                                /\ (Begun(m)' <=> Begun(m)) /\ (Held(m)' <=> Held(m))
                                /\ (InPatch(m)' <=> InPatch(m)) /\ (m \in spoilt' <=> m \in spoilt)
  BY <1>3, <1>4 DEF Types, Begun, Held, InPatch, Installing
<1>7. BusyTorn'
  BY <1>3, <1>4 DEF BusyTorn
<1>8. DoneThere'
  BY <1>2, <1>3, <1>5, <1>6 DEF DoneThere
<1>9. OneHolds'
  BY <1>3, <1>5, <1>6 DEF OneHolds
<1>10. HeldNotCut'
  BY <1>3, <1>5, <1>6 DEF HeldNotCut
<1>11. CutHas' /\ NewIsEmpty'
  BY <1>3 DEF CutHas, NewIsEmpty, Has
<1>12. Early'
  BY <1>3, <1>5, <1>6 DEF Early
<1>13. Extracting'
  BY <1>2, <1>3, <1>4 DEF Extracting
<1>14. Checked'
  BY <1>3, <1>4, <1>5 DEF Checked
<1>15. BusyPatch'
  BY <1>3, <1>4 DEF BusyPatch
<1>16. ExeHasCause'
  BY <1>3, <1>5, <1>6 DEF ExeHasCause
<1>17. KeyInv'
  BY <1>2, <1>3, <1>5, <1>6 DEF KeyInv
<1>18. Chain'
  BY <1>2, <1>3, <1>5, <1>6 DEF Chain
<1> QED BY <1>7, <1>8, <1>9, <1>10, <1>11, <1>12, <1>13, <1>14, <1>15, <1>16, <1>17, <1>18

\* The patch finds a game, or does not.
LEMMA StartPatchInv ==
    ASSUME IInv, NEW l \in Launcher, StartPatch(l)
    PROVE  (DirInv /\ KeyInv /\ Chain)'
<1> USE DEF IInv, DirInv
<1>1. step[l] \in 1 .. Len(Steps)
  BY DEF Types, Steps
<1>2. Installing(l) /\ step[l] = 7
  BY <1>1, StepAt DEF StartPatch
<1>3. UNCHANGED <<dir, phase, override, files, torn, key, made, path, overlap, spoilt, cut>>
  BY DEF StartPatch, regVars, history
<1>4. Found(l) \in Dir \cup {NoDir} /\ NoDir \notin Dir
  BY DirAssumption DEF Found, Types
<1>5. \A d \in Dir : exe'[d] = IF d = Found(l) /\ exe[d] = "v1.00" THEN "torn" ELSE exe[d]
  BY DEF StartPatch
<1>6. /\ l \notin busy /\ target' = [target EXCEPT ![l] = Found(l)]
      /\ \/ /\ Found(l) \in Dir /\ exe[Found(l)] = "v1.00"
            /\ busy' = busy \cup {l} /\ step' = step
         \/ /\ Found(l) = NoDir \/ exe[Found(l)] # "v1.00"
            /\ busy' = busy /\ step' = [step EXCEPT ![l] = @ + 1]
  BY <1>4 DEF StartPatch, Advance
<1>7. /\ Begun(l) /\ Begun(l)' /\ Held(l) /\ Held(l)' /\ InPatch(l) /\ InPatch(l)'
      /\ \/ (step'[l] = 8 /\ l \notin busy')
         \/ (step'[l] = 7 /\ l \in busy')
  BY <1>2, <1>3, <1>6 DEF Types, BusyOK, Begun, Held, InPatch, Installing
<1>8. \A m \in Launcher \ {l} : /\ step'[m] = step[m] /\ (m \in busy' <=> m \in busy) /\ target'[m] = target[m]
                                /\ (Begun(m)' <=> Begun(m)) /\ (Held(m)' <=> Held(m))
                                /\ (InPatch(m)' <=> InPatch(m))
  BY <1>3, <1>6 DEF Types, Begun, Held, InPatch, Installing
<1>9. overlap \/ (Found(l) = dir[l] /\ exe[dir[l]] = "v1.00")
  BY <1>2, <1>6, <1>7 DEF KeyInv, Chain, Found, InPatch
<1>10. BusyTorn'
  BY <1>3, <1>6, <1>7 DEF Types, BusyTorn, BusyOK
<1>11. DoneThere'
  BY <1>2, <1>3, <1>7, <1>8 DEF DoneThere
<1>12. OneHolds'
  BY <1>3, <1>7, <1>8 DEF OneHolds
<1>13. HeldNotCut'
  BY <1>3, <1>7, <1>8 DEF HeldNotCut
<1>14. CutHas'
  BY <1>3 DEF CutHas, Has
<1>15. NewIsEmpty'
  BY <1>3, <1>5 DEF NewIsEmpty, Has
<1>16. Early'
  BY <1>3, <1>5, <1>7, <1>8 DEF Types, Early
<1>17. Extracting'
  BY <1>3, <1>5, <1>6, <1>7 DEF Types, Extracting, BusyOK
<1>18. Checked'
  BY <1>3, <1>5, <1>6, <1>7 DEF Types, Checked
<1>19. BusyPatch'
  BY <1>5, <1>6 DEF Types, BusyPatch, BusyOK
<1>20. ExeHasCause'
  <2> SUFFICES ASSUME NEW d \in Dir, exe'[d] # "none", d \notin cut, ~(Whole \subseteq files'[d])
              PROVE  \E m \in Launcher : Begun(m)' /\ dir[m] = d
    BY <1>3 DEF ExeHasCause
  <2>1. PICK m \in Launcher : Begun(m) /\ dir[m] = d
    BY <1>3, <1>5, <1>7, <1>8 DEF Types, ExeHasCause
  <2> QED BY <2>1, <1>3, <1>5, <1>7, <1>8
<1>21. KeyInv'
  BY <1>2, <1>3, <1>6, <1>7, <1>8, <1>9 DEF KeyInv
<1>22. Chain'
  <2> SUFFICES ASSUME ~overlap  PROVE Chain'
    BY <1>3 DEF Chain
  <2>1. /\ Found(l) = dir[l] /\ exe[dir[l]] = "v1.00" /\ dir[l] \in Dir
        /\ l \in busy' /\ step'[l] = 7 /\ target'[l] = dir[l]
    BY <1>2, <1>4, <1>6, <1>9 DEF Types
  <2>2. \A m \in Launcher \ {l} : Begun(m) => dir[m] # dir[l]
    BY <1>7 DEF OneHolds, Held
  <2> QED BY <1>3, <1>5, <1>7, <1>8, <2>1, <2>2 DEF Chain, Types
<1> QED BY <1>10, <1>11, <1>12, <1>13, <1>14, <1>15, <1>16, <1>17, <1>18, <1>19, <1>20, <1>21, <1>22

\* A directory that is deleted.
LEMMA DeleteDirInv ==
    ASSUME IInv, NEW d \in Dir, DeleteDir(d)
    PROVE  (DirInv /\ KeyInv /\ Chain)'
<1> USE DEF IInv, DirInv
<1>1. UNCHANGED <<dir, phase, step, busy, override, target, key, made, path, overlap, spoilt>>
  BY DEF DeleteDir, procVars, regVars
<1>2. /\ files' = [files EXCEPT ![d] = {}] /\ torn' = [torn EXCEPT ![d] = {}]
      /\ exe' = [exe EXCEPT ![d] = "none"] /\ cut' = cut \ {d}
  BY DEF DeleteDir
<1>3. \A l \in Launcher : (Held(l) \/ phase[l] = "window") => dir[l] # d
  BY DEF DeleteDir, Alive, Held, Begun, Installing
<1>4. \A l \in busy : l \in Launcher /\ Held(l) /\ target[l] # d
  BY DEF Types, BusyOK, DeleteDir, Held, Begun
<1>5. \A l \in Launcher : (Held(l)' <=> Held(l)) /\ (Begun(l)' <=> Begun(l)) /\ (InPatch(l)' <=> InPatch(l))
  BY <1>1 DEF Begun, Held, InPatch, Installing
<1>6. /\ files'[d] = {} /\ torn'[d] = {} /\ exe'[d] = "none"
      /\ \A e \in Dir \ {d} : files'[e] = files[e] /\ torn'[e] = torn[e] /\ exe'[e] = exe[e]
  BY <1>2 DEF Types
<1>7. BusyTorn'
  BY <1>1, <1>2, <1>3, <1>4 DEF BusyTorn
<1>8. DoneThere'
  BY <1>1, <1>2, <1>3, <1>5 DEF DoneThere
<1>9. OneHolds'
  BY <1>1, <1>5 DEF OneHolds
<1>10. HeldNotCut'
  BY <1>1, <1>2, <1>5 DEF HeldNotCut
<1>11. CutHas'
  BY <1>2 DEF CutHas, Has
<1>12. NewIsEmpty'
  BY <1>6 DEF NewIsEmpty, Has
<1>13. Early'
  BY <1>1, <1>2, <1>5 DEF Early
<1>14. Extracting'
  BY <1>1, <1>2, <1>3, <1>4 DEF Extracting
<1>15. Checked'
  BY <1>1, <1>2, <1>3 DEF Checked, Held
<1>16. BusyPatch'
  BY <1>1, <1>4, <1>6 DEF BusyPatch
<1>17. ExeHasCause'
  BY <1>1, <1>2, <1>5, <1>6 DEF ExeHasCause
<1>18. KeyInv'
  BY <1>1, <1>5 DEF KeyInv
<1>19. Chain'
  BY <1>1, <1>2, <1>3 DEF Chain, Begun, Held, Installing
<1> QED BY <1>7, <1>8, <1>9, <1>10, <1>11, <1>12, <1>13, <1>14, <1>15, <1>16, <1>17, <1>18, <1>19

\* A stuttering step.
LEMMA IdleInv ==
    ASSUME IInv, UNCHANGED vars
    PROVE  (DirInv /\ KeyInv /\ Chain)'
<1> USE DEF vars, procVars, dirVars, regVars, history
<1>1. DirInv'
  BY DEF IInv, DirInv, BusyTorn, DoneThere, OneHolds, HeldNotCut, CutHas, NewIsEmpty, Early, Extracting,
         Checked, BusyPatch, ExeHasCause, Has, Held, Begun, Installing
<1>2. KeyInv' /\ Chain'
  BY DEF IInv, KeyInv, Chain, InPatch, Begun, Installing
<1> QED BY <1>1, <1>2

\* Every step keeps the invariant.
LEMMA InvStep == IInv /\ [Next]_vars => IInv'
<1> SUFFICES ASSUME IInv, [Next]_vars  PROVE (DirInv /\ KeyInv /\ Chain)'
  BY StepTypes DEF IInv
<1>1. CASE UNCHANGED vars
  BY <1>1, IdleInv
<1>2. ASSUME NEW d \in Dir, DeleteDir(d)  PROVE (DirInv /\ KeyInv /\ Chain)'
  BY <1>2, DeleteDirInv
<1>3. ASSUME NEW l \in Launcher, Ended(l), Alive(l)  PROVE (DirInv /\ KeyInv /\ Chain)'
  BY <1>3, EndedInv
<1>4. \A l \in Launcher : Installing(l) => Alive(l)
  BY DEF Installing, Alive
<1>5. ASSUME NEW l \in Launcher, NEW p \in Copies, StartCopy(l, p)  PROVE (DirInv /\ KeyInv /\ Chain)'
  <2>1. CASE Ended(l)
    BY <1>3, <1>4, <1>5, <2>1 DEF StartCopy, At
  <2>2. CASE ~Ended(l)
    <3>1. ~Exists(dir[l], p)
      BY <1>5, <2>2 DEF StartCopy
    <3> QED BY <1>5, <2>2, <3>1, StartCopyInv
  <2> QED BY <2>1, <2>2
<1>6. ASSUME NEW l \in Launcher, SetPath(l) \/ Cleanup(l)  PROVE (DirInv /\ KeyInv /\ Chain)'
  <2>1. CASE Ended(l)
    BY <1>3, <1>4, <1>6, <2>1 DEF SetPath, Cleanup, At
  <2>2. CASE ~Ended(l)
    BY <1>6, <2>2, SetPathInv, CleanupInv
  <2> QED BY <2>1, <2>2
<1>7. ASSUME NEW l \in Launcher, Begin(l) \/ AnswerOK(l) \/ Verify(l) \/ Confirm(l)
      PROVE  (DirInv /\ KeyInv /\ Chain)'
  BY <1>7, BeginInv, VerifyInv
<1>8. ASSUME NEW l \in Launcher,
             StartExtract(l) \/ EndExtract(l) \/ WriteCfg(l) \/ Unregister(l) \/ Register(l) \/ StartPatch(l) \/ EndPatch(l)
             \/ FailPatch(l)
      PROVE  (DirInv /\ KeyInv /\ Chain)'
  BY <1>8, StartExtractInv, EndExtractInv, WriteCfgInv, UnregisterInv, RegisterInv, StartPatchInv, EndPatchInv,
          FailPatchInv
<1>9. ASSUME NEW l \in Launcher, Kill(l)  PROVE (DirInv /\ KeyInv /\ Chain)'
  BY <1>3, <1>9 DEF Kill
<1>10. ASSUME NEW l \in Launcher, NEW p \in Copies, EndCopy(l, p)  PROVE (DirInv /\ KeyInv /\ Chain)'
  BY <1>10, EndCopyInv
<1> QED BY <1>1, <1>2, <1>5, <1>6, <1>7, <1>8, <1>9, <1>10 DEF Next

\* So it always holds.
LEMMA Invariant == Spec => []IInv
<1>1. Init => IInv
  BY TypesInit, InvInit DEF IInv
<1> QED BY <1>1, InvStep, PTL DEF Spec

-----------------------------------------------------------------------------
(* The theorems. *)

\* "Installation successful!" is shown only when everything is there (the MD5
\* check of wmain, and the copies that refuse to overwrite).
THEOREM SuccessCorrect == Spec => []SuccessIsComplete
<1>1. IInv => SuccessIsComplete
  <2> SUFFICES ASSUME IInv, NEW l \in Launcher, phase[l] = "success"  PROVE Complete(dir[l])
    BY DEF SuccessIsComplete
  <2>1. Held(l) /\ step[l] = 13 /\ exe[dir[l]] = "v1.09"
    BY DEF IInv, DirInv, Checked, Held
  <2> QED BY <2>1 DEF IInv, DirInv, DoneThere, Complete, Whole, Copies
<1> QED BY <1>1, Invariant, PTL

\* Two launchers never install into one directory at once.
THEOREM OneInstallsCorrect == Spec => []OneInstalls
<1>1. IInv => OneInstalls
  BY DEF IInv, DirInv, OneHolds, OneInstalls, Held
<1> QED BY <1>1, Invariant, PTL

\* Nobody installs over what a broken installation left.
THEOREM BrokenCorrect == Spec => []BrokenIsLeft
<1>1. IInv => BrokenIsLeft
  BY DEF IInv, DirInv, HeldNotCut, BrokenIsLeft, Held
<1> QED BY <1>1, Invariant, PTL

\* Who sees the settings has a complete game, or an installation there was
\* broken off or still goes on: the check looks at Game.exe alone.
THEOREM PlayCorrect == Spec => []PlayHasCause
<1>1. IInv => PlayHasCause
  <2> SUFFICES ASSUME IInv, NEW l \in Launcher, phase[l] = "window", ~Complete(dir[l]), dir[l] \notin cut
               PROVE  \E m \in Launcher : dir[m] = dir[l] /\ Installing(m)
    BY DEF PlayHasCause
  <2>1. dir[l] \in Dir /\ exe[dir[l]] = "v1.09"
    BY DEF IInv, DirInv, Types, Checked
  <2> QED BY <2>1 DEF IInv, DirInv, ExeHasCause, Begun, Complete
<1> QED BY <1>1, Invariant, PTL

\* As long as no two launchers patch at once, each patches its own game: they
\* share one registry key.
THEOREM PatchesCorrect == Spec => []PatchesOwnGame
<1>1. IInv => PatchesOwnGame
  BY DEF IInv, KeyInv, PatchesOwnGame
<1> QED BY <1>1, Invariant, PTL

\* "Installation failed!" has two causes: the launcher's own patch failed, which
\* nobody notices before the MD5 check, or two launchers patched at once.
THEOREM FailureCorrect == Spec => []FailureHasCause
<1>1. IInv => FailureHasCause
  BY DEF IInv, Chain, FailureHasCause
<1> QED BY <1>1, Invariant, PTL
=============================================================================
