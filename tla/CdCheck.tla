------------------------------- MODULE CdCheck -------------------------------
(***************************************************************************)
(* The game's check for its CDs (EmperorHooks/DoCdCheck.cpp), with a user  *)
(* who changes discs meanwhile, or with what Installer.cpp has put on the  *)
(* hard disk instead of them.                                              *)
(***************************************************************************)
EXTENDS Naturals

CONSTANTS
    Retries, \* looks after the first that a patient check of a house CD takes; 9
    Limit    \* somethingThatControlsExitingCdCheckLoop

House == {"AT", "HK", "OR"}
Discs == House \cup {"Install"}
Bits  == {1, 2, 4, 8}
AnyCd == 15

\* The CDCheck label of a disc.
Label(cd) == CASE cd = 1 -> "Install" [] cd = 2 -> "AT" [] cd = 4 -> "HK" [] cd = 8 -> "OR"

\* CD1 to CD4 in the resource.cfg of the installer: there is no folder for the
\* first disc.
CfgInstalled(cd) == IF cd = 1 THEN "AT" ELSE Label(cd)

VARIABLES
    path,    \* GetResourceString of CD1 to CD4 and currentCdDataPath, by number
    music,   \* folders with a MUSIC.BAG
    disc,    \* the disc in the drive
    cdIndex, \* arguments of the check
    patient, \* a2
    i,       \* looks so far
    pc,      \* where the check is
    result,  \* of the last check
    seen,    \* history: the discs that were in at its looks
    taken    \* history: how many looks it took

args == <<cdIndex, patient>>
history == <<seen, taken>>
vars == <<path, music, disc, args, i, pc, result, history>>

Places == House \cup {"drive", "null"}

TypeOK ==
    /\ path \in [Bits \cup {AnyCd} -> Places]
    /\ music \subseteq House
    /\ disc \in Discs \cup {"none"}
    /\ cdIndex \in 0 .. 15 /\ patient \in BOOLEAN
    /\ i \in 0 .. IF cdIndex = AnyCd THEN Limit ELSE Retries
    /\ pc \in {"idle", "look", "sleep"}
    /\ result \in BOOLEAN
    /\ seen \subseteq Discs \cup {"none"}
    /\ taken \in Nat

\* Played from the CDs, from an installation that may lack some of its parts, or
\* with a resource.cfg that names no CD.
Init ==
    /\ \E any \in House :
          \/ path = [cd \in Bits \cup {AnyCd} |-> "drive"]
          \/ path = [cd \in Bits \cup {AnyCd} |-> IF cd = AnyCd THEN any ELSE CfgInstalled(cd)]
          \/ path = [cd \in Bits \cup {AnyCd} |-> IF cd = AnyCd THEN any ELSE "null"]
    /\ music \in SUBSET House
    /\ disc \in Discs \cup {"none"}
    /\ cdIndex = 0 /\ patient = FALSE
    /\ i = 0 /\ pc = "idle" /\ result = TRUE /\ seen = {} /\ taken = 0

-----------------------------------------------------------------------------

\* Labels that will do: any game disc, or that of the house.
Wanted == IF cdIndex = AnyCd THEN Discs ELSE {Label(cdIndex)}

\* Nothing to check for no CD, for one there is no name of, and without a path.
Checked(cd) == cd \in DOMAIN path /\ path[cd] # "null"

doCdCheck(cd, a2) ==
    /\ pc = "idle"
    /\ cdIndex' = cd /\ patient' = a2 /\ i' = 0 /\ seen' = {} /\ taken' = 0
    /\ pc' = IF Checked(cd) THEN "look" ELSE "idle"
    /\ result' = ~Checked(cd)
    /\ UNCHANGED <<path, music, disc>>

\* GetVolumeInformationA of a drive, std::filesystem::exists in a folder.  The
\* mutant takes no notice of a disc that comes in after the first look.
OkAtFirst == IF path[cdIndex] = "drive" THEN i = 0 /\ disc \in Wanted ELSE path[cdIndex] \in music
Ok == IF path[cdIndex] = "drive" THEN disc \in Wanted ELSE path[cdIndex] \in music

Look ==
    /\ pc = "look"
    /\ result' = Ok
    /\ pc' = IF Ok THEN "idle" ELSE "sleep"
    /\ seen' = seen \cup {disc} /\ taken' = taken + 1
    /\ UNCHANGED <<path, music, disc, args, i>>

\* How many looks the check of any CD has, a patient one of a house's, and an
\* impatient one.
Looks == IF cdIndex = AnyCd THEN Limit ELSE IF patient THEN Retries + 1 ELSE 1

Wake ==
    /\ pc = "sleep"
    /\ IF i + 1 < Looks THEN pc' = "look" /\ i' = i + 1 ELSE pc' = "idle" /\ UNCHANGED i
    /\ UNCHANGED <<path, music, disc, args, result, history>>

\* The user, who may take the disc out or put another one in.
ChangeDisc(d) ==
    /\ d # disc
    /\ disc' = d
    /\ UNCHANGED <<path, music, args, i, pc, result, history>>

Next ==
    \/ \E cd \in Bits \cup {0, 3, AnyCd}, a2 \in BOOLEAN : doCdCheck(cd, a2)
    \/ Look \/ Wake
    \/ \E d \in Discs \cup {"none"} : ChangeDisc(d)

Spec == Init /\ [][Next]_vars

-----------------------------------------------------------------------------
(* Properties. *)

\* The disc that belongs to a CD number.
Belongs(cd, d) == cd = AnyCd \/ <<cd, d>> \in {<<1, "Install">>, <<2, "AT">>, <<4, "HK">>, <<8, "OR">>}

\* The disc of the CD asked for, or some disc of the game, was in the drive at a
\* look of the check; or there is music in the folder that is looked at instead.
SeenRight ==
    IF path[cdIndex] = "drive" THEN \E d \in seen \ {"none"} : Belongs(cdIndex, d)
                               ELSE path[cdIndex] \in music

\* Discs come and go while a check waits.  It ends at the first look that finds
\* the right one in, up to the last look, and passes; it fails only when all its
\* looks are taken and the right disc was in at none of them, and with everything
\* installed not even for the first disc, which has no folder.
CheckIsRight ==
    Checked(cdIndex) =>
        /\ pc # "idle" /\ taken > 0 => ~SeenRight
        /\ pc = "idle" /\ result => taken > 0 /\ SeenRight
        /\ pc = "idle" /\ ~result =>
             /\ taken = IF cdIndex = AnyCd THEN Limit ELSE IF patient THEN 1 + Retries ELSE 1
             /\ ~SeenRight
             /\ path[cdIndex] # "drive" => music # House
=============================================================================
