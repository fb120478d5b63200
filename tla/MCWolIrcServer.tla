--------------------------- MODULE MCWolIrcServer ---------------------------
(* WolIrcServer on a small set of connections, for TLC. *)
EXTENDS WolIrcServer, TLC

\* Connections, nicks and topics are interchangeable.
Symmetry == Permutations(Conn) \cup Permutations(Nick) \cup Permutations(Topic)

\* What a handler wrote is not read back: states that differ only in it are one
\* state.  The properties about it are about steps, which TLC checks for every
\* step, new state or not.
StateOfServer == <<connVars, userVars, gameVars, mutex, fault>>
=============================================================================
