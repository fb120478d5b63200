---------------------------- MODULE VectorLoops ----------------------------
(***************************************************************************)
(* The two loops of EmperorHooks/WolIrcServer.cpp that erase from a vector *)
(* while they walk over it, iteration by iteration: the one of the         *)
(* teardown, which goes on at the next index after an erase, and the one   *)
(* of KICK, which breaks.  PointerVectors gives their results in closed    *)
(* form; the invariant here compares the two.                              *)
(***************************************************************************)
EXTENDS PointerVectors, SequencesExt

CONSTANTS Elem,      \* the pointers
          MaxLength  \* bound: the length of the vector a loop starts with

VARIABLES loop,   \* "teardown" or "KICK"
          input,  \* the vector before the loop
          target, \* the pointer to erase
          v,      \* hostChannelMembers
          j,      \* the index, from 1
          done

vars == <<loop, input, target, v, j, done>>

Init ==
    /\ loop \in {"teardown", "KICK"}
    /\ input \in BoundedSeq(Elem, MaxLength)
    /\ target \in Elem
    /\ v = input
    /\ j = 1
    /\ done = FALSE

\* The condition of the loop fails.
Exit ==
    /\ ~done /\ j > Len(v)
    /\ done' = TRUE
    /\ UNCHANGED <<loop, input, target, v, j>>

Skip ==
    /\ ~done /\ j <= Len(v) /\ v[j] # target
    /\ j' = j + 1
    /\ UNCHANGED <<loop, input, target, v, done>>

EraseAndGoOn ==
    /\ loop = "teardown"
    /\ ~done /\ j <= Len(v) /\ v[j] = target
    /\ v' = RemoveAt(v, j)
    /\ j' = j + 1
    /\ UNCHANGED <<loop, input, target, done>>

EraseAndBreak ==
    /\ loop = "KICK"
    /\ ~done /\ j <= Len(v) /\ v[j] = target
    /\ v' = RemoveAt(v, j)
    /\ done' = TRUE
    /\ UNCHANGED <<loop, input, target, j>>

Next == Exit \/ Skip \/ EraseAndGoOn \/ EraseAndBreak

Spec == Init /\ [][Next]_vars

\* The loops compute EraseSkipping and DropFirst, and the search loop that
\* precedes an erase reads what Scanned says: runs of equal entries included.
ClosedForm ==
    done => CASE loop = "teardown" -> v = EraseSkipping(input, target)
              [] loop = "KICK" -> /\ v = DropFirst(input, {target})
                                  /\ Range(SubSeq(input, 1, Min({j, Len(input)})))
                                       = Scanned(input, {target})
=============================================================================
