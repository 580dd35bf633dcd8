------------------------------ MODULE Induction ------------------------------
(***************************************************************************)
(* Induction over data, for the proofs about walks and fixpoints.  The     *)
(* library's induction theorems take the induction formula as an operator; *)
(* here it is a SET of numbers, { n \in Nat : P(n) } at each use, and the  *)
(* principle follows from the well-foundedness of strict inclusion on      *)
(* finite sets.  RecursionExists is the same for a recursive function on   *)
(* an initial segment of the naturals, f[0] = c, f[n] = D[<<f[n - 1], n>>],  *)
(* IterationExists for one on all of them, f[n + 1] = D[f[n]].             *)
(***************************************************************************)
EXTENDS Integers, FiniteSets, FiniteSetTheorems, WellFoundedInduction, TLAPS

\* A nonempty set of naturals has a least element.
LEMMA LeastNat ==
  ASSUME NEW T, T \subseteq Nat, T # {}
  PROVE  \E m \in T : \A k \in T : m <= k
<1> DEFINE Downs == {0..t : t \in T}
           R == StrictSubsetOrdering(Nat)
           F == FiniteSubsetsOf(Nat)
<1>1. Downs \subseteq F
  <2> SUFFICES ASSUME NEW t \in T PROVE 0..t \in F
    OBVIOUS
  <2>1. t \in Nat
    OBVIOUS
  <2>2. IsFiniteSet(0..t)
    BY <2>1, FS_Interval
  <2>3. 0..t \subseteq Nat
    BY <2>1
  <2> QED
    BY <2>2, <2>3 DEF FiniteSubsetsOf
<1>2. Downs # {}
  OBVIOUS
<1>3. IsWellFoundedOn(R, F)
  BY FS_StrictSubsetOrderingWellFounded
<1> HIDE DEF Downs, R, F
<1>4. PICK x \in Downs : \A y \in Downs : ~(<<y, x>> \in R)
  BY <1>1, <1>2, <1>3, WFMin
<1> USE DEF Downs, R, F
<1>5. PICK m \in T : x = 0..m
  OBVIOUS
<1>6. ASSUME NEW k \in T PROVE m <= k
  <2> SUFFICES ASSUME k < m PROVE FALSE
    OBVIOUS
  <2>1. 0..k \in SUBSET Nat /\ 0..m \in SUBSET Nat /\ 0..k \subseteq 0..m
    OBVIOUS
  <2>2. m \in 0..m /\ m \notin 0..k
    OBVIOUS
  <2>3. 0..k # 0..m
    BY <2>2
  <2>4. <<0..k, x>> \in R
    BY <2>1, <2>3, <1>5 DEF StrictSubsetOrdering
  <2> QED
    BY <2>4, <1>4
<1> QED
  BY <1>6

\* Induction, with the set of the numbers that have the property.
LEMMA NatInd ==
  ASSUME NEW S, 0 \in S, \A n \in Nat : n \in S => n + 1 \in S
  PROVE  Nat \subseteq S
<1> SUFFICES ASSUME Nat \ S # {} PROVE FALSE
  OBVIOUS
<1>1. PICK m \in Nat \ S : \A k \in Nat \ S : m <= k
  BY LeastNat
<1>2. m # 0 /\ m - 1 \in Nat /\ ~(m <= m - 1)
  OBVIOUS
<1>3. m - 1 \in S
  BY <1>1, <1>2
<1>4. (m - 1) + 1 \in S
  BY <1>2, <1>3
<1> QED
  BY <1>4

\* Induction up to a bound.
LEMMA UpTo ==
  ASSUME NEW N \in Nat, NEW S, 0 \in S,
         \A n \in 0..N : n \in S /\ n < N => n + 1 \in S
  PROVE  0..N \subseteq S
<1> DEFINE Good == {n \in Nat : n <= N => n \in S}
<1>1. 0 \in Good
  OBVIOUS
<1>2. \A n \in Nat : n \in Good => n + 1 \in Good
  OBVIOUS
<1> HIDE DEF Good
<1>3. Nat \subseteq Good
  BY <1>1, <1>2, NatInd
<1> QED
  BY <1>3 DEF Good

\* A nonempty set of naturals with an upper bound has a greatest element.
LEMMA GreatestNat ==
  ASSUME NEW T, T \subseteq Nat, T # {}, NEW b \in Nat, \A t \in T : t <= b
  PROVE  \E m \in T : \A k \in T : k <= m
<1> DEFINE Gaps == {b - t : t \in T}
<1>1. Gaps \subseteq Nat /\ Gaps # {}
  <2>1. \A t \in T : b - t \in Nat
    OBVIOUS
  <2>2. Gaps \subseteq Nat
    BY <2>1
  <2> QED
    BY <2>2
<1> HIDE DEF Gaps
<1>2. PICK g \in Gaps : \A k \in Gaps : g <= k
  BY <1>1, LeastNat
<1>3. PICK m \in T : g = b - m
  BY DEF Gaps
<1>4. ASSUME NEW k \in T PROVE k <= m
  <2>1. b - k \in Gaps
    BY DEF Gaps
  <2> QED
    BY <2>1, <1>2, <1>3
<1> QED
  BY <1>4

\* The values of g are those given by its value at 0 and a step.
Recursive(N, c, D, g) ==
  \A i \in 0..N : g[i] = IF i = 0 THEN c ELSE D[<<g[i - 1], i>>]

\* There is such a function, and it has the type of the step.
LEMMA RecursionExists ==
  ASSUME NEW N \in Nat, NEW S, NEW c \in S, NEW D \in [S \X (1..N) -> S]
  PROVE  \E g \in [0..N -> S] : Recursive(N, c, D, g)
<1> USE DEF Recursive
<1> DEFINE Holds(n, g) == \A i \in 0..n : g[i] = IF i = 0 THEN c ELSE D[<<g[i - 1], i>>]
           Good == {n \in Nat : n <= N => \E g \in [0..n -> S] : Holds(n, g)}
<1>1. 0 \in Good
  <2> DEFINE g == [i \in 0..0 |-> c]
  <2>1. g \in [0..0 -> S] /\ Holds(0, g)
    OBVIOUS
  <2> QED
    BY <2>1
<1>2. ASSUME NEW n \in Nat, n \in Good PROVE n + 1 \in Good
  <2> SUFFICES ASSUME n + 1 <= N PROVE \E g \in [0..(n + 1) -> S] : Holds(n + 1, g)
    OBVIOUS
  <2>1. PICK g \in [0..n -> S] : Holds(n, g)
    BY <1>2
  <2> DEFINE h == [i \in 0..(n + 1) |-> IF i = n + 1 THEN D[<<g[n], n + 1>>] ELSE g[i]]
  <2>2. n + 1 \in 1..N /\ g[n] \in S
    BY <2>1
  <2>3. h \in [0..(n + 1) -> S]
    <3>1. D[<<g[n], n + 1>>] \in S
      BY <2>2
    <3> QED
      BY <3>1
  <2>4. \A i \in 0..n : h[i] = g[i]
    OBVIOUS
  <2>5. ASSUME NEW i \in 0..(n + 1)
        PROVE  h[i] = IF i = 0 THEN c ELSE D[<<h[i - 1], i>>]
    <3>1. CASE i = n + 1
      <4>1. i - 1 \in 0..n /\ i # 0 /\ i - 1 = n
        BY <3>1
      <4>2. h[i - 1] = g[n]
        BY <4>1, <2>4
      <4> HIDE DEF h
      <4>3. h[i] = D[<<g[n], n + 1>>]
        BY <3>1 DEF h
      <4> QED
        BY <4>1, <4>2, <4>3, <3>1
    <3>2. CASE i # n + 1
      <4>1. i \in 0..n /\ (i # 0 => i - 1 \in 0..n)
        BY <3>2
      <4>2. h[i] = g[i] /\ (i # 0 => h[i - 1] = g[i - 1])
        BY <4>1, <2>4
      <4> HIDE DEF h
      <4> QED
        BY <2>1, <4>1, <4>2
    <3> QED
      BY <3>1, <3>2
  <2> HIDE DEF h
  <2> QED
    BY <2>3, <2>5
<1> HIDE DEF Good
<1>3. N \in Good
  BY <1>1, <1>2, NatInd
<1> QED
  BY <1>3 DEF Good

\* There is a sequence without end that starts at c and takes every value to D
\* of it.
LEMMA IterationExists ==
  ASSUME NEW S, NEW c \in S, NEW D \in [S -> S]
  PROVE  \E g \in [Nat -> S] : g[0] = c /\ \A n \in Nat : g[n + 1] = D[g[n]]
<1> DEFINE Holds(n, g) == g[0] = c /\ \A i \in 0..n : i < n => g[i + 1] = D[g[i]]
           Good == {n \in Nat : \E g \in [0..n -> S] : Holds(n, g)}
           H == [n \in Nat |-> CHOOSE g \in [0..n -> S] : Holds(n, g)]
           G == [n \in Nat |-> H[n][n]]
<1>1. 0 \in Good
  <2> DEFINE g == [i \in 0..0 |-> c]
  <2>1. g \in [0..0 -> S] /\ Holds(0, g)
    OBVIOUS
  <2> QED
    BY <2>1
<1>2. ASSUME NEW n \in Nat, n \in Good PROVE n + 1 \in Good
  <2>1. PICK g \in [0..n -> S] : Holds(n, g)
    BY <1>2
  <2> DEFINE h == [i \in 0..(n + 1) |-> IF i = n + 1 THEN D[g[n]] ELSE g[i]]
  <2>2. h \in [0..(n + 1) -> S]
    <3>1. g[n] \in S /\ D[g[n]] \in S
      BY <2>1
    <3> QED
      BY <3>1
  <2>3. (\A i \in 0..n : h[i] = g[i]) /\ h[n + 1] = D[g[n]]
    OBVIOUS
  <2> HIDE DEF h
  <2>4. ASSUME NEW i \in 0..(n + 1), i < n + 1 PROVE h[i + 1] = D[h[i]]
    <3>1. CASE i = n
      BY <2>3, <3>1
    <3>2. CASE i # n
      BY <2>1, <2>3, <2>4, <3>2
    <3> QED
      BY <3>1, <3>2
  <2>5. h[0] = c
    BY <2>1, <2>3
  <2>6. Holds(n + 1, h)
    BY <2>4, <2>5
  <2> QED
    BY <2>2, <2>6
<1> HIDE DEF Good
<1>3. Nat \subseteq Good
  BY <1>1, <1>2, NatInd
<1>4. ASSUME NEW n \in Nat PROVE H[n] \in [0..n -> S] /\ Holds(n, H[n])
  <2>1. \E g \in [0..n -> S] : Holds(n, g)
    BY <1>3 DEF Good
  <2>2. H[n] = CHOOSE g \in [0..n -> S] : Holds(n, g)
    OBVIOUS
  <2> HIDE DEF H
  <2> QED
    BY <2>1, <2>2
<1> HIDE DEF H
\* The functions for n and n + 1 agree as far as n.
<1>5. ASSUME NEW n \in Nat PROVE H[n + 1][n] = H[n][n]
  <2> DEFINE Same == {i \in 0..n : H[n + 1][i] = H[n][i]}
  <2>1. 0 \in Same
    BY <1>4
  <2>2. ASSUME NEW i \in 0..n, i \in Same, i < n PROVE i + 1 \in Same
    <3>1. H[n][i + 1] = D[H[n][i]]
      BY <1>4, <2>2
    <3>2. H[n + 1][i + 1] = D[H[n + 1][i]]
      BY <1>4, <2>2
    <3> QED
      BY <3>1, <3>2, <2>2
  <2> HIDE DEF Same
  <2>3. 0..n \subseteq Same
    BY <2>1, <2>2, UpTo
  <2> QED
    BY <2>3 DEF Same
<1>6. G \in [Nat -> S]
  BY <1>4
<1>7. G[0] = c
  BY <1>4
<1>8. ASSUME NEW n \in Nat PROVE G[n + 1] = D[G[n]]
  <2>1. H[n + 1][n + 1] = D[H[n + 1][n]]
    BY <1>4
  <2> QED
    BY <2>1, <1>5
<1> QED
  BY <1>6, <1>7, <1>8

\* A growing set has stopped growing after as many rounds as there are
\* elements it could take: the bound of the fixpoint loops.
LEMMA FixpointReached ==
  ASSUME NEW N \in Nat, NEW P, IsFiniteSet(P), Cardinality(P) <= N,
         NEW F \in [SUBSET P -> SUBSET P], \A X \in SUBSET P : X \subseteq F[X],
         NEW g \in [0..N -> SUBSET P], \A n \in 1..N : g[n] = F[g[n - 1]]
  PROVE  F[g[N]] = g[N]
<1> DEFINE Stopped(n) == F[g[n]] = g[n]
           Good == {n \in 0..N : Stopped(n) \/ n <= Cardinality(g[n])}
<1>1. ASSUME NEW n \in 0..N
      PROVE  /\ g[n] \in SUBSET P /\ IsFiniteSet(g[n])
             /\ Cardinality(g[n]) \in Nat
             /\ Cardinality(g[n]) <= Cardinality(P)
             /\ Cardinality(g[n]) = Cardinality(P) => g[n] = P
  <2>1. g[n] \in SUBSET P
    OBVIOUS
  <2> QED
    BY <2>1, FS_Subset, FS_CardinalityType
<1>2. Cardinality(P) \in Nat
  BY FS_CardinalityType
<1>3. 0 \in Good
  BY <1>1
<1>4. ASSUME NEW n \in 0..N, n \in Good, n < N
      PROVE  n + 1 \in Good
  <2>1. n + 1 \in 1..N /\ n + 1 \in 0..N /\ (n + 1) - 1 = n
    BY <1>4
  <2>2. g[n + 1] = F[g[n]]
    BY <2>1
  <2>3. CASE Stopped(n)
    BY <2>1, <2>2, <2>3
  <2>4. CASE ~Stopped(n)
    <3>1. g[n] \subseteq g[n + 1] /\ g[n] # g[n + 1]
      BY <2>2, <2>4, <1>1
    <3>2. Cardinality(g[n]) <= Cardinality(g[n + 1])
          /\ Cardinality(g[n]) # Cardinality(g[n + 1])
      BY <3>1, <1>1, <2>1, FS_Subset
    <3>3. n <= Cardinality(g[n])
      BY <1>4, <2>4
    <3> QED
      BY <3>2, <3>3, <2>1, <1>1
  <2> QED
    BY <2>3, <2>4
<1> HIDE DEF Good
<1>5. N \in Good
  <2>1. \A n \in 0..N : n \in Good /\ n < N => n + 1 \in Good
    BY <1>4
  <2>2. 0..N \subseteq Good
    BY <1>3, <2>1, UpTo
  <2> QED
    BY <2>2
<1>6. CASE ~Stopped(N)
  <2>1. g[N] = P
    BY <1>5, <1>6, <1>1, <1>2 DEF Good
  <2>2. F[g[N]] \in SUBSET P /\ g[N] \subseteq F[g[N]]
    BY <1>1
  <2> QED
    BY <2>1, <2>2
<1> QED
  BY <1>6
=============================================================================
