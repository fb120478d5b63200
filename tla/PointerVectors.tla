--------------------------- MODULE PointerVectors ---------------------------
(***************************************************************************)
(* What the server does to its std::vector<Connection*>: search loops,     *)
(* erase-and-break, and the erase loop of the teardown in                  *)
(* EmperorHooks/WolIrcServer.cpp that does not step back after an erase.   *)
(***************************************************************************)
EXTENDS Integers, Sequences, FiniteSets, Functions

\* The entries of s at the positions K, in order.
Keep(s, K) ==
    [i \in 1 .. Cardinality(K) |->
        s[CHOOSE k \in K : Cardinality(K \cap 1 .. k) = i]]

Positions(s, S) == {k \in DOMAIN s : s[k] \in S}

\* The entries of s that are in S, in order.
Select(s, S) == Keep(s, Positions(s, S))

FirstPosition(s, S) ==
    CHOOSE k \in Positions(s, S) : Cardinality(Positions(s, S) \cap 1 .. k) = 1

\* Mutants of the erasure in KICK: it is forgotten; begin() + i lost its i.
DropNone(s, S)  == s
DropFront(s, S) == IF Positions(s, S) = {} THEN s ELSE Keep(s, DOMAIN s \ {1})

\* s without its first entry in S: "erase(begin() + i); break;"
DropFirst(s, S) ==
    IF Positions(s, S) = {} THEN s
    ELSE Keep(s, DOMAIN s \ {FirstPosition(s, S)})

\* The entries a search loop reads before it stops at the first one in S.
Scanned(s, S) ==
    {s[k] : k \in {i \in DOMAIN s : \A j \in 1 .. (i - 1) : s[j] \notin S}}

\* Mutant of Erased: every entry equal to x, as if the loop stepped back.
ErasedAll(s, x, k) == s[k] = x

\* Position k is erased by "for j: if (v[j] == x) erase(begin() + j)".  The
\* loop steps over the entry that slides into the erased place, so of a run
\* of equal entries it erases the first, the third, ...
Erased(s, x, k) ==
    \E i \in 1 .. k : /\ \A j \in i .. k : s[j] = x
                      /\ i = 1 \/ s[i - 1] # x
                      /\ (k - i) % 2 = 0

\* Mutant of the loop: its bound is one too small.
EraseNotLast(s, x) == Keep(s, {k \in DOMAIN s : ~Erased(s, x, k) \/ k = Len(s)})

EraseSkipping(s, x) == Keep(s, {k \in DOMAIN s : ~Erased(s, x, k)})

Occurrences(s, x) == Cardinality({k \in DOMAIN s : s[k] = x})

Once(s, x) == \A i, j \in DOMAIN s : s[i] = x /\ s[j] = x => i = j
=============================================================================
