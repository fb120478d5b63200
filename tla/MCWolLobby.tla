----------------------------- MODULE MCWolLobby -----------------------------
(* WolLobby on a small set of players, for TLC. *)
EXTENDS WolLobby, TLC

\* Players, who are their own nicks, are interchangeable.
Players == Permutations(Conn)

\* What a handler wrote is on the wires: states that differ only in it are one.
StateOfLobby == <<connVars, userVars, gameVars, mutex, fault, lobbyVars>>
=============================================================================
