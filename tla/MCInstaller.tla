----------------------------- MODULE MCInstaller -----------------------------
(***************************************************************************)
(* Installer for TLC.  Launchers differ in nothing but what they have      *)
(* done, and every property of the run is an invariant.  Directories do    *)
(* differ: one of them may be RealPath.                                    *)
(***************************************************************************)
EXTENDS Installer, TLC

AlikeLaunchers == Permutations(Launcher)
=============================================================================
