------------------------- MODULE PointerVectorProofs -------------------------
(***************************************************************************)
(* Facts about the vector operations that the proofs about the server use. *)
(***************************************************************************)
EXTENDS PointerVectors, FiniteSetTheorems, TLAPS

\* The positions up to k among finitely many positions K can be counted.
LEMMA CountUpTo ==
    ASSUME NEW n \in Nat, NEW K \in SUBSET (1 .. n), NEW k \in Nat
    PROVE  /\ IsFiniteSet(K) /\ Cardinality(K) \in Nat
           /\ IsFiniteSet(K \cap 1 .. k)
           /\ Cardinality(K \cap 1 .. k) \in 0 .. Cardinality(K)
<1>1. IsFiniteSet(1 .. n)
  BY FS_Interval
<1>2. IsFiniteSet(K)
  BY <1>1, FS_Subset
<1>3. K \cap 1 .. k \in SUBSET K
  OBVIOUS
<1>4. IsFiniteSet(K \cap 1 .. k) /\ Cardinality(K \cap 1 .. k) <= Cardinality(K)
  BY <1>2, <1>3, FS_Subset
<1>5. Cardinality(K) \in Nat /\ Cardinality(K \cap 1 .. k) \in Nat
  BY <1>2, <1>4, FS_CardinalityType
<1> QED BY <1>2, <1>4, <1>5

\* Every number up to the size of K counts the positions up to some member of
\* K, and only one: the members of K can be numbered in order.
LEMMA NthPosition ==
    ASSUME NEW n \in Nat, NEW K \in SUBSET (1 .. n)
    PROVE  /\ \A i \in 1 .. Cardinality(K) :
                 \E k \in K : Cardinality(K \cap 1 .. k) = i
           /\ \A k, l \in K :
                 Cardinality(K \cap 1 .. k) = Cardinality(K \cap 1 .. l) => k = l
           /\ \A k \in K : Cardinality(K \cap 1 .. k) \in 1 .. Cardinality(K)
<1> DEFINE C == Cardinality(K)
           f == [k \in K |-> Cardinality(K \cap 1 .. k)]
<1>1. \A k \in K : /\ k \in Nat
                   /\ IsFiniteSet(K \cap 1 .. k)
                   /\ Cardinality(K \cap 1 .. k) \in 0 .. C
  BY CountUpTo
<1>2. IsFiniteSet(K) /\ C \in Nat
  BY CountUpTo
<1>3. \A k \in K : Cardinality(K \cap 1 .. k) # 0
  <2> TAKE k \in K
  <2>1. k \in K \cap 1 .. k
    OBVIOUS
  <2> QED BY <2>1, <1>1, FS_EmptySet
<1>4. \A k \in K : Cardinality(K \cap 1 .. k) \in 1 .. C
  BY <1>1, <1>2, <1>3
<1>5. ASSUME NEW k \in K, NEW l \in K, k < l
      PROVE  Cardinality(K \cap 1 .. k) # Cardinality(K \cap 1 .. l)
  <2>1. K \cap 1 .. k \in SUBSET (K \cap 1 .. l)
    BY <1>5
  <2>2. l \in K \cap 1 .. l /\ l \notin K \cap 1 .. k
    BY <1>5
  <2> QED BY <2>1, <2>2, <1>1, FS_Subset
<1>6. \A k, l \in K : Cardinality(K \cap 1 .. k) = Cardinality(K \cap 1 .. l) => k = l
  <2> TAKE k, l \in K
  <2>1. k \in Nat /\ l \in Nat
    BY <1>1
  <2>2. k < l \/ l < k \/ k = l
    BY <2>1
  <2> QED BY <2>2, <1>5
<1>7. f \in Injection(K, 1 .. C)
  BY <1>4, <1>6 DEF Injection, IsInjective
<1>8. IsFiniteSet(1 .. C) /\ Cardinality(1 .. C) = C
  BY <1>2, FS_Interval
<1>9. f \in Surjection(K, 1 .. C)
  BY <1>7, <1>8, FS_Injection
<1>10. \A i \in 1 .. C : \E k \in K : f[k] = i
  BY <1>9 DEF Surjection
<1> QED BY <1>4, <1>6, <1>10

\* Keep returns a vector, of the kept entries and no others, and keeps an
\* entry that occurred once from occurring twice.
LEMMA KeepProperties ==
    ASSUME NEW S, NEW s \in Seq(S), NEW K \in SUBSET (DOMAIN s)
    PROVE  /\ Keep(s, K) \in Seq(S)
           /\ Len(Keep(s, K)) = Cardinality(K)
           /\ Range(Keep(s, K)) = {s[k] : k \in K}
           /\ \A x : Once(s, x) => Once(Keep(s, K), x)
<1> DEFINE C == Cardinality(K)
           pos(i) == CHOOSE k \in K : Cardinality(K \cap 1 .. k) = i
<1>1. Len(s) \in Nat /\ DOMAIN s = 1 .. Len(s) /\ \A k \in K : s[k] \in S
  OBVIOUS
<1>2. \A i \in 1 .. C : pos(i) \in K /\ Cardinality(K \cap 1 .. pos(i)) = i
  BY <1>1, NthPosition
<1>3. \A k \in K : Cardinality(K \cap 1 .. k) \in 1 .. C
                   /\ pos(Cardinality(K \cap 1 .. k)) = k
  BY <1>1, <1>2, NthPosition
<1>4. C \in Nat
  BY <1>1, CountUpTo
<1>5. Keep(s, K) = [i \in 1 .. C |-> s[pos(i)]]
  BY DEF Keep
<1> HIDE DEF C, pos
<1>6. Keep(s, K) \in [1 .. C -> S]
  BY <1>1, <1>2, <1>5
<1>7. Keep(s, K) \in Seq(S) /\ Len(Keep(s, K)) = C /\ DOMAIN Keep(s, K) = 1 .. C
  BY <1>4, <1>6
<1>8. Range(Keep(s, K)) = {s[k] : k \in K}
  <2>1. ASSUME NEW x \in Range(Keep(s, K))  PROVE x \in {s[k] : k \in K}
    <3>1. PICK i \in 1 .. C : x = Keep(s, K)[i]
      BY <1>7 DEF Range
    <3>2. x = s[pos(i)] /\ pos(i) \in K
      BY <3>1, <1>2, <1>5
    <3> QED BY <3>2
  <2>2. ASSUME NEW k \in K  PROVE s[k] \in Range(Keep(s, K))
    <3> DEFINE i == Cardinality(K \cap 1 .. k)
    <3>1. i \in 1 .. C /\ pos(i) = k
      BY <1>3
    <3> HIDE DEF i
    <3>2. Keep(s, K)[i] = s[k]
      BY <3>1, <1>5
    <3> QED BY <3>1, <3>2, <1>7 DEF Range
  <2> QED BY <2>1, <2>2
<1>9. \A x : Once(s, x) => Once(Keep(s, K), x)
  <2> SUFFICES ASSUME NEW x, Once(s, x),
                      NEW i \in 1 .. C, NEW j \in 1 .. C,
                      Keep(s, K)[i] = x, Keep(s, K)[j] = x
               PROVE  i = j
    BY <1>7 DEF Once
  <2>1. s[pos(i)] = x /\ s[pos(j)] = x
    BY <1>5
  <2>2. pos(i) \in DOMAIN s /\ pos(j) \in DOMAIN s
    BY <1>2
  <2>3. pos(i) = pos(j)
    BY <2>1, <2>2 DEF Once
  <2>4. i = Cardinality(K \cap 1 .. pos(i)) /\ j = Cardinality(K \cap 1 .. pos(j))
    BY <1>2
  <2> QED BY <2>3, <2>4
<1> QED BY <1>7, <1>8, <1>9 DEF C

\* Selecting the entries in T returns a vector of just those.
LEMMA SelectProperties ==
    ASSUME NEW S, NEW s \in Seq(S), NEW T
    PROVE  /\ Select(s, T) \in Seq(S)
           /\ Range(Select(s, T)) = Range(s) \cap T
           /\ Positions(s, T) # {} =>
                 /\ Select(s, T)[1] \in Range(s) \cap T
                 /\ FirstPosition(s, T) \in DOMAIN s
                 /\ s[FirstPosition(s, T)] = Select(s, T)[1]
<1> DEFINE K == Positions(s, T)
<1>1. K \in SUBSET (DOMAIN s) /\ Len(s) \in Nat /\ DOMAIN s = 1 .. Len(s)
  BY DEF Positions
<1>2. Select(s, T) \in Seq(S) /\ Range(Select(s, T)) = {s[k] : k \in K}
  BY <1>1, KeepProperties DEF Select
<1>3. {s[k] : k \in K} = Range(s) \cap T
  BY DEF Positions, Range
<1>4. ASSUME K # {}
      PROVE  /\ FirstPosition(s, T) \in K
             /\ s[FirstPosition(s, T)] = Select(s, T)[1]
  <2>1. Cardinality(K) \in Nat /\ 1 \in 1 .. Cardinality(K)
    <3>1. IsFiniteSet(K) /\ Cardinality(K) \in Nat
      BY <1>1, CountUpTo
    <3>2. Cardinality(K) # 0
      BY <3>1, <1>4, FS_EmptySet
    <3> QED BY <3>1, <3>2
  <2>2. \E k \in K : Cardinality(K \cap 1 .. k) = 1
    BY <2>1, <1>1, NthPosition
  <2>3. FirstPosition(s, T) \in K
    BY <2>2 DEF FirstPosition
  <2>4. Select(s, T)[1] = s[FirstPosition(s, T)]
    BY <2>1 DEF Select, Keep, FirstPosition
  <2> QED BY <2>3, <2>4
<1> QED BY <1>2, <1>3, <1>4, <1>1 DEF Positions, Range

\* KICK's erasure returns a vector, loses no entry outside T, adds none, and
\* doubles none; an entry that occurred once and is the first in T is gone.
LEMMA DropFirstProperties ==
    ASSUME NEW S, NEW s \in Seq(S), NEW T
    PROVE  /\ DropFirst(s, T) \in Seq(S)
           /\ Range(DropFirst(s, T)) \subseteq Range(s)
           /\ Range(s) \ T \subseteq Range(DropFirst(s, T))
           /\ \A x : Once(s, x) => Once(DropFirst(s, T), x)
           /\ Positions(s, T) # {} =>
                 (Once(s, Select(s, T)[1]) => Select(s, T)[1] \notin Range(DropFirst(s, T)))
           /\ \A x \in Range(s) : x = Select(s, T)[1] \/ x \in Range(DropFirst(s, T))
<1> DEFINE K == DOMAIN s \ {FirstPosition(s, T)}
<1>1. CASE Positions(s, T) = {}
  BY <1>1 DEF DropFirst
<1>2. CASE Positions(s, T) # {}
  <2>1. DropFirst(s, T) = Keep(s, K)
    BY <1>2 DEF DropFirst
  <2>2. K \in SUBSET (DOMAIN s)
    OBVIOUS
  <2>3. /\ FirstPosition(s, T) \in DOMAIN s
        /\ s[FirstPosition(s, T)] = Select(s, T)[1]
        /\ Select(s, T)[1] \in T
    BY <1>2, SelectProperties
  <2>4. /\ Keep(s, K) \in Seq(S)
        /\ Range(Keep(s, K)) = {s[k] : k \in K}
        /\ \A x : Once(s, x) => Once(Keep(s, K), x)
    BY <2>2, KeepProperties
  <2>5. Range(Keep(s, K)) \subseteq Range(s)
    BY <2>4 DEF Range
  <2>6. ASSUME NEW x \in Range(s), x # Select(s, T)[1]  PROVE x \in {s[k] : k \in K}
    BY <2>3, <2>6 DEF Range
  <2>7. ASSUME Once(s, Select(s, T)[1])  PROVE Select(s, T)[1] \notin {s[k] : k \in K}
    BY <2>3, <2>7 DEF Once
  <2> HIDE DEF K
  <2> QED BY <2>1, <2>3, <2>4, <2>5, <2>6, <2>7
<1> QED BY <1>1, <1>2

\* The erase loop of the teardown returns a vector that still has every other
\* entry; it removes x for certain only if x occurred once.
LEMMA EraseSkippingProperties ==
    ASSUME NEW S, NEW s \in Seq(S), NEW x
    PROVE  /\ EraseSkipping(s, x) \in Seq(S)
           /\ Range(EraseSkipping(s, x)) \subseteq Range(s)
           /\ Range(s) \ {x} \subseteq Range(EraseSkipping(s, x))
           /\ \A y : Once(s, y) => Once(EraseSkipping(s, x), y)
           /\ Once(s, x) => x \notin Range(EraseSkipping(s, x))
<1> DEFINE K == {k \in DOMAIN s : ~Erased(s, x, k)}
<1>1. /\ EraseSkipping(s, x) \in Seq(S)
      /\ Range(EraseSkipping(s, x)) = {s[k] : k \in K}
      /\ \A y : Once(s, y) => Once(EraseSkipping(s, x), y)
  BY KeepProperties DEF EraseSkipping
<1>2. DOMAIN s = 1 .. Len(s) /\ Len(s) \in Nat
  OBVIOUS
<1>3. \A k \in DOMAIN s : s[k] # x => k \in K
  BY <1>2 DEF Erased
<1>4. ASSUME Once(s, x), NEW k \in DOMAIN s, s[k] = x  PROVE Erased(s, x, k)
  <2>1. k \in 1 .. k /\ (k - k) % 2 = 0 /\ \A j \in k .. k : s[j] = x
    BY <1>2, <1>4
  <2>2. k = 1 \/ s[k - 1] # x
    BY <1>2, <1>4 DEF Once
  <2> QED BY <2>1, <2>2 DEF Erased
<1> QED BY <1>1, <1>3, <1>4 DEF Range

\* Entering a game appends: nobody leaves, only the newcomer is doubled.
LEMMA AppendProperties ==
    ASSUME NEW S, NEW s \in Seq(S), NEW x \in S
    PROVE  /\ Append(s, x) \in Seq(S)
           /\ Range(Append(s, x)) = Range(s) \cup {x}
           /\ \A y : Once(s, y) /\ (y # x \/ x \notin Range(s)) => Once(Append(s, x), y)
<1>1. /\ Append(s, x) \in Seq(S) /\ Len(s) \in Nat
      /\ DOMAIN s = 1 .. Len(s) /\ DOMAIN Append(s, x) = 1 .. (Len(s) + 1)
      /\ \A i \in 1 .. Len(s) : Append(s, x)[i] = s[i]
      /\ Append(s, x)[Len(s) + 1] = x
  OBVIOUS
<1>2. Range(Append(s, x)) = Range(s) \cup {x}
  BY <1>1 DEF Range
<1>3. \A y : Once(s, y) /\ (y # x \/ x \notin Range(s)) => Once(Append(s, x), y)
  BY <1>1 DEF Once, Range
<1> QED BY <1>1, <1>2, <1>3

\* The number of entries equal to x is a number.
LEMMA OccurrencesType ==
    ASSUME NEW S, NEW s \in Seq(S), NEW x
    PROVE  Occurrences(s, x) \in Nat
<1>1. {k \in DOMAIN s : s[k] = x} \in SUBSET (1 .. Len(s)) /\ Len(s) \in Nat
  OBVIOUS
<1> QED BY <1>1, CountUpTo DEF Occurrences

-----------------------------------------------------------------------------
(***************************************************************************)
(* What the loops need that compute these operators (VectorLoops): Keep    *)
(* entry by entry, and Erased position by position.                        *)
(***************************************************************************)
\* An entry that is kept stands where the count of the positions up to its own says.
LEMMA KeepNth ==
    ASSUME NEW S, NEW s \in Seq(S), NEW K \in SUBSET (DOMAIN s), NEW k \in K
    PROVE  /\ Cardinality(K \cap 1 .. k) \in 1 .. Cardinality(K)
           /\ Keep(s, K)[Cardinality(K \cap 1 .. k)] = s[k]
<1> DEFINE i == Cardinality(K \cap 1 .. k)
           pos == CHOOSE l \in K : Cardinality(K \cap 1 .. l) = i
<1>1. Len(s) \in Nat /\ K \in SUBSET (1 .. Len(s))
  OBVIOUS
<1>2. i \in 1 .. Cardinality(K)
  BY <1>1, NthPosition
<1>3. pos = k
  BY <1>1, NthPosition
<1>4. Keep(s, K)[i] = s[pos]
  BY <1>2 DEF Keep
<1> QED BY <1>2, <1>3, <1>4

\* Keeping everything changes nothing.
LEMMA KeepAll ==
    ASSUME NEW S, NEW s \in Seq(S)
    PROVE  Keep(s, DOMAIN s) = s
<1> DEFINE D == DOMAIN s
           t == Keep(s, D)
<1>0. ASSUME NEW n \in Nat PROVE Cardinality(1 .. n) = n
  <2>1. 1 \in Int /\ n \in Int /\ n >= 0
    OBVIOUS
  <2>2. Cardinality(1 .. n) = IF 1 > n THEN 0 ELSE n - 1 + 1
    BY <2>1, FS_Interval
  <2> QED BY <2>1, <2>2
<1>1. Len(s) \in Nat /\ D = 1 .. Len(s)
  OBVIOUS
<1>2. t \in Seq(S) /\ Len(t) = Len(s)
  <2>1. Cardinality(D) = Len(s)
    BY <1>0, <1>1
  <2> QED BY <2>1, KeepProperties
<1>3. ASSUME NEW k \in 1 .. Len(s) PROVE t[k] = s[k]
  <2>0. k \in Nat /\ D \cap 1 .. k = 1 .. k
    BY <1>1
  <2>1. D \cap 1 .. k = 1 .. k /\ Cardinality(1 .. k) = k
    BY <1>0, <2>0
  <2>2. k \in D /\ D \in SUBSET (DOMAIN s)
    BY <1>1
  <2> QED BY <2>1, <2>2, KeepNth
<1> HIDE DEF t
<1> QED BY <1>2, <1>3 DEF t

\* Keeping one position less is erasing its entry: those after it move up.
LEMMA KeepWithout ==
    ASSUME NEW S, NEW s \in Seq(S), NEW K \in SUBSET (DOMAIN s), NEW p \in K
    PROVE  /\ Len(Keep(s, K \ {p})) = Cardinality(K) - 1
           /\ \A i \in 1 .. Cardinality(K) - 1 :
                 Keep(s, K \ {p})[i] =
                     Keep(s, K)[IF i < Cardinality(K \cap 1 .. p) THEN i ELSE i + 1]
<1> DEFINE L == K \ {p}
           c == Cardinality(K)
           a == Cardinality(K \cap 1 .. p)
<1>1. Len(s) \in Nat /\ K \in SUBSET (1 .. Len(s)) /\ L \in SUBSET (1 .. Len(s))
  OBVIOUS
<1>2. IsFiniteSet(K) /\ c \in Nat
  BY <1>1, CountUpTo
<1>3. Cardinality(L) = c - 1
  BY <1>2, FS_RemoveElement
<1>4. Len(Keep(s, L)) = c - 1
  BY <1>3, KeepProperties
<1>5. \A k \in K : IsFiniteSet(K \cap 1 .. k) /\ Cardinality(K \cap 1 .. k) \in Nat
  <2> TAKE k \in K
  <2>1. k \in Nat
    BY <1>1
  <2> QED BY <1>1, <1>2, <2>1, CountUpTo
<1>6. ASSUME NEW k \in L, k < p
      PROVE  /\ Cardinality(L \cap 1 .. k) = Cardinality(K \cap 1 .. k)
             /\ Cardinality(K \cap 1 .. k) < a
  <2>1. L \cap 1 .. k = K \cap 1 .. k
    BY <1>1, <1>6
  <2>2. K \cap 1 .. k \in SUBSET (K \cap 1 .. p) /\ p \in K \cap 1 .. p /\ p \notin K \cap 1 .. k
    BY <1>1, <1>6
  <2>3. Cardinality(K \cap 1 .. k) <= a /\ Cardinality(K \cap 1 .. k) # a
    BY <1>5, <2>2, FS_Subset
  <2>4. Cardinality(K \cap 1 .. k) \in Nat /\ a \in Nat
    BY <1>5
  <2>5. Cardinality(L \cap 1 .. k) = Cardinality(K \cap 1 .. k)
    BY <2>1
  <2> HIDE DEF L, a
  <2> QED BY <2>3, <2>4, <2>5
<1>7. ASSUME NEW k \in L, p < k
      PROVE  /\ Cardinality(L \cap 1 .. k) = Cardinality(K \cap 1 .. k) - 1
             /\ a < Cardinality(K \cap 1 .. k)
  <2>1. L \cap 1 .. k = (K \cap 1 .. k) \ {p} /\ p \in K \cap 1 .. k
    BY <1>1, <1>7
  <2>2. K \cap 1 .. p \in SUBSET (K \cap 1 .. k) /\ k \in K \cap 1 .. k /\ k \notin K \cap 1 .. p
    BY <1>1, <1>7
  <2>3. a <= Cardinality(K \cap 1 .. k) /\ a # Cardinality(K \cap 1 .. k)
    BY <1>5, <2>2, FS_Subset
  <2>4. Cardinality((K \cap 1 .. k) \ {p}) = Cardinality(K \cap 1 .. k) - 1
    BY <1>5, <2>1, FS_RemoveElement
  <2>5. Cardinality(K \cap 1 .. k) \in Nat /\ a \in Nat
    BY <1>5
  <2>6. Cardinality(L \cap 1 .. k) = Cardinality(K \cap 1 .. k) - 1
    BY <2>1, <2>4
  <2> HIDE DEF L, a
  <2> QED BY <2>3, <2>5, <2>6
<1>8. ASSUME NEW i \in 1 .. c - 1
      PROVE  Keep(s, L)[i] = Keep(s, K)[IF i < a THEN i ELSE i + 1]
  <2>1. PICK k \in L : Cardinality(L \cap 1 .. k) = i
    BY <1>1, <1>3, NthPosition
  <2>2. Keep(s, L)[i] = s[k]
    <3>1. L \in SUBSET (DOMAIN s)
      OBVIOUS
    <3> HIDE DEF L
    <3>2. Keep(s, L)[Cardinality(L \cap 1 .. k)] = s[k]
      BY <3>1, KeepNth
    <3> QED BY <2>1, <3>2
  <2>3. Keep(s, K)[Cardinality(K \cap 1 .. k)] = s[k]
    BY KeepNth
  <2>4. k \in Int /\ p \in Int /\ k # p /\ a \in Nat /\ Cardinality(K \cap 1 .. k) \in Nat
    <3>1. k \in Int /\ p \in Int /\ k # p
      BY <1>1
    <3>2. a \in Nat /\ Cardinality(K \cap 1 .. k) \in Nat
      BY <1>5
    <3> QED BY <3>1, <3>2
  <2> HIDE DEF L, a
  <2>5. CASE k < p
    <3>1. Cardinality(K \cap 1 .. k) = i /\ i < a
      BY <1>6, <2>1, <2>5
    <3> QED BY <2>2, <2>3, <3>1
  <2>6. CASE p < k
    <3>1. i = Cardinality(K \cap 1 .. k) - 1 /\ a < Cardinality(K \cap 1 .. k)
      BY <1>7, <2>1, <2>6
    <3>2. Cardinality(K \cap 1 .. k) = i + 1 /\ ~(i < a)
      BY <2>4, <3>1
    <3> QED BY <2>2, <2>3, <3>2
  <2> QED BY <2>4, <2>5, <2>6
<1> QED BY <1>4, <1>8

\* With every position from p on kept, that of p counts those before it but for the
\* ones that are not.
LEMMA KeptFrom ==
    ASSUME NEW n \in Nat, NEW K \in SUBSET (1 .. n), NEW p \in 1 .. n, p .. n \subseteq K
    PROVE  p \in K /\ Cardinality(K \cap 1 .. p) = p - (n - Cardinality(K))
<1> DEFINE B == K \cap 1 .. p
           A == p + 1 .. n
<1>1. IsFiniteSet(B) /\ Cardinality(B) \in Nat /\ IsFiniteSet(A)
      /\ Cardinality(A) = n - p
  <2>1. p \in Nat /\ p + 1 \in Int /\ n \in Int /\ p <= n
    OBVIOUS
  <2>2. IsFiniteSet(K) /\ IsFiniteSet(B) /\ Cardinality(B) \in 0 .. Cardinality(K)
    BY <2>1, CountUpTo
  <2>3. IsFiniteSet(A) /\ Cardinality(A) = IF p + 1 > n THEN 0 ELSE n - (p + 1) + 1
    BY <2>1, FS_Interval
  <2>4. Cardinality(B) \in Nat /\ Cardinality(A) = n - p
    <3> HIDE DEF A, B
    <3> QED BY <2>1, <2>2, <2>3
  <2> QED BY <2>2, <2>3, <2>4
<1>2. K = B \cup A /\ B \cap A = {}
  <2>1. ASSUME NEW k \in K PROVE k \in B \cup A
    <3>1. k \in 1 .. n /\ p \in 1 .. n
      OBVIOUS
    <3>2. k \in 1 .. p \/ k \in A
      BY <3>1
    <3> QED BY <3>2
  <2>2. ASSUME NEW k \in A PROVE k \in K /\ k \notin B
    <3>1. k \in p .. n /\ k \notin 1 .. p
      OBVIOUS
    <3> QED BY <3>1
  <2>3. B \subseteq K
    OBVIOUS
  <2> HIDE DEF A, B
  <2> QED BY <2>1, <2>2, <2>3
<1>3. Cardinality(B \cap A) = 0
  BY <1>2, FS_EmptySet
<1>4. Cardinality(K) = Cardinality(B) + (n - p) - 0
  BY <1>1, <1>2, <1>3, FS_Union
<1> HIDE DEF B
<1> QED BY <1>1, <1>4 DEF B

\* Of a run of equal entries the loop erases each whose predecessor it left.
LEMMA ErasedInTurn ==
    ASSUME NEW S, NEW s \in Seq(S), NEW x, NEW k \in DOMAIN s
    PROVE  Erased(s, x, k) <=> s[k] = x /\ (k = 1 \/ ~Erased(s, x, k - 1))
<1>1. Len(s) \in Nat /\ k \in 1 .. Len(s)
  OBVIOUS
<1> DEFINE Run(i, m) == i \in 1 .. m /\ (\A j \in i .. m : s[j] = x) /\ (i = 1 \/ s[i - 1] # x)
<1>2. \A m : Erased(s, x, m) <=> \E i : Run(i, m) /\ (m - i) % 2 = 0
  BY DEF Erased
<1>3. ASSUME NEW i, NEW j, Run(i, k), Run(j, k - 1) PROVE (i = k /\ s[k - 1] # x) \/ i = j
  BY <1>1, <1>3
\* The run that ends at k starts behind the last other entry.
<1>4. ASSUME s[k] = x PROVE \E i : Run(i, k)
  <2> DEFINE O == {m \in 1 .. k : s[m] # x}
             c == Cardinality(O)
  <2>1. k \in Nat /\ O \in SUBSET (1 .. k) /\ IsFiniteSet(O) /\ c \in Nat
    <3>1. k \in Nat /\ O \in SUBSET (1 .. k)
      BY <1>1
    <3> QED BY <3>1, CountUpTo
  <2>2. CASE O = {}
    <3>1. Run(1, k)
      BY <1>1, <2>2
    <3> QED BY <3>1
  <2>3. CASE O # {}
    <3>1. c \in 1 .. c
      <4>1. c # 0
        BY <2>1, <2>3, FS_EmptySet
      <4>2. c \in Nat
        BY <2>1
      <4> HIDE DEF c
      <4> QED BY <4>1, <4>2
    <3>2. PICK l \in O : Cardinality(O \cap 1 .. l) = c
      <4>1. c \in 1 .. Cardinality(O)
        BY <3>1
      <4> HIDE DEF c, O
      <4> QED BY <2>1, <4>1, NthPosition
    <3>3. O \cap 1 .. l = O
      <4>1. O \cap 1 .. l \in SUBSET O
        OBVIOUS
      <4> QED BY <2>1, <3>2, <4>1, FS_Subset
    <3>4. \A m \in 1 .. k : s[m] # x => m <= l
      BY <3>3
    <3>5. l \in 1 .. k /\ s[l] # x /\ l # k
      BY <1>4
    <3>6. Run(l + 1, k)
      BY <1>1, <3>4, <3>5
    <3> QED BY <3>6
  <2> QED BY <2>2, <2>3
<1>5. ASSUME NEW i, Run(i, k), i # k PROVE Run(i, k - 1) /\ s[k - 1] = x /\ k # 1
  BY <1>1, <1>5
<1>6. ASSUME NEW i \in Int PROVE (k - i) % 2 = 0 <=> (k - 1 - i) % 2 # 0
  <2>1. \A d \in Int : d % 2 = 0 <=> (d - 1) % 2 # 0
    OBVIOUS
  <2>2. k - i \in Int /\ k - 1 - i = (k - i) - 1
    BY <1>1
  <2> QED BY <2>1, <2>2
<1>7. ASSUME NEW i, NEW m, Run(i, m), m \in Int PROVE i \in Int /\ s[m] = x
  BY <1>7
<1> HIDE DEF Run
<1>8. ASSUME Erased(s, x, k) PROVE s[k] = x /\ (k = 1 \/ ~Erased(s, x, k - 1))
  <2>1. PICK i : Run(i, k) /\ (k - i) % 2 = 0
    BY <1>2, <1>8
  <2>2. i \in Int /\ s[k] = x
    BY <1>1, <1>7, <2>1
  <2>3. ASSUME k # 1, NEW j, Run(j, k - 1), (k - 1 - j) % 2 = 0 PROVE FALSE
    <3>1. j \in Int /\ s[k - 1] = x
      BY <1>1, <1>7, <2>3
    <3>2. i = j
      BY <1>3, <2>1, <2>3, <3>1
    <3> QED BY <1>6, <2>1, <2>3, <3>1, <3>2
  <2> QED BY <1>2, <2>2, <2>3
<1>9. ASSUME s[k] = x, k = 1 \/ ~Erased(s, x, k - 1) PROVE Erased(s, x, k)
  <2>1. PICK i : Run(i, k)
    BY <1>4, <1>9
  <2>2. CASE i = k
    <3>1. (k - k) % 2 = 0
      BY <1>1
    <3> QED BY <1>2, <2>1, <2>2, <3>1
  <2>3. CASE i # k
    <3>1. Run(i, k - 1) /\ k # 1 /\ i \in Int
      BY <1>1, <1>5, <1>7, <2>1, <2>3
    <3>2. ~((k - 1 - i) % 2 = 0)
      BY <1>2, <1>9, <3>1
    <3>3. (k - i) % 2 = 0
      BY <1>6, <3>1, <3>2
    <3> QED BY <1>2, <2>1, <3>3
  <2> QED BY <2>2, <2>3
<1> QED BY <1>8, <1>9
=============================================================================
