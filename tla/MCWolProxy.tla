------------------------------ MODULE MCWolProxy ------------------------------
(* WolProxy on a few addresses, for TLC. *)
EXTENDS WolProxy

\* Two clients on different machines; two runs on one machine (or two machines
\* behind one router).
TwoClients == {[ip |-> "ip1", port |-> 1], [ip |-> "ip2", port |-> 1]}
TwoRuns    == {[ip |-> "ip1", port |-> 1], [ip |-> "ip1", port |-> 2]}

\* The second address of TwoRuns as a run of the network test.
SecondRun == {[ip |-> "ip1", port |-> 2]}

\* Of its two ports the runs use the first.
OneRange == {[lo |-> 1, hi |-> 2]}

\* The state without the frame limits and what only they depend on, for the
\* runs in which no game sets one.
WithoutLimits == <<hostVars, phase, portRange, claimed, inbox, net, silence, announced>>
=============================================================================
