-------------------------- MODULE DominatorsProofs --------------------------
(***************************************************************************)
(* compute_dominators is right on every graph: the rounds end, the blocks  *)
(* in dom[b] are those on every path from the entry to b, and the tree     *)
(* built from them has one path to each block that is reached.             *)
(*                                                                         *)
(* The search is the least set closed under branches.  The rounds only     *)
(* shrink the sets and never below the true dominators, so one of them     *)
(* changes nothing; a map that a round leaves alone is not above the true  *)
(* dominators either, because the blocks a does not dominate by it are     *)
(* closed under the branches that avoid a.                                 *)
(***************************************************************************)
EXTENDS Dominators, Induction, TLAPS

\* A graph: finitely many blocks, listed with the entry first.
Graph(labels, succ) ==
  /\ IsFiniteSet(DOMAIN succ)
  /\ labels \in Seq(DOMAIN succ) /\ labels # <<>>
  /\ DOMAIN succ = {labels[i] : i \in DOMAIN labels}

\* A set that no branch leaves.
ClosedUnder(succ, X) == \A a \in X \intersect DOMAIN succ : succ[a] \intersect DOMAIN succ \subseteq X

-----------------------------------------------------------------------------
(* The search.                                                             *)

IsSearch(succ, found, g) ==
  /\ g \in [Nat -> SUBSET DOMAIN succ]
  /\ g[0] = found
  /\ \A n \in Nat : g[n + 1] = Further(succ, g[n])

\* The search is what its recursive definition says.
LEMMA ReachClosureIs ==
  ASSUME NEW succ, NEW found, found \subseteq DOMAIN succ
  PROVE  \E g : IsSearch(succ, found, g) /\ ReachClosure(succ, found) = g[Cardinality(DOMAIN succ)]
<1> DEFINE L == DOMAIN succ
           S == SUBSET L
           D == [X \in S |-> Further(succ, X)]
           Is(f) == f = [n \in Nat |-> IF n = 0 THEN found ELSE Further(succ, f[n - 1])]
           G == CHOOSE f : Is(f)
<1>1. D \in [S -> S] /\ found \in S
  BY DEF Further
<1> HIDE DEF D, S
<1>2. PICK g \in [Nat -> S] : g[0] = found /\ \A n \in Nat : g[n + 1] = D[g[n]]
  BY <1>1, IterationExists
<1>3. \A n \in Nat : g[n + 1] = Further(succ, g[n])
  BY <1>2 DEF D
<1>4. Is(g)
  <2>1. ASSUME NEW n \in Nat
        PROVE  g[n] = IF n = 0 THEN found ELSE Further(succ, g[n - 1])
    <3>1. CASE n = 0
      BY <1>2, <3>1
    <3>2. CASE n # 0
      <4>1. n - 1 \in Nat /\ (n - 1) + 1 = n
        BY <3>2
      <4>2. g[(n - 1) + 1] = Further(succ, g[n - 1])
        BY <4>1, <1>3
      <4> QED
        BY <3>2, <4>1, <4>2
    <3> QED
      BY <3>1, <3>2
  <2> QED
    BY <2>1
<1>5. ReachClosure(succ, found) = G[Cardinality(L)]
  BY DEF ReachClosure
<1>6. Is(G)
  BY <1>4
<1> HIDE DEF G
<1>7. G[0] = found /\ \A n \in Nat : G[n + 1] = Further(succ, G[n])
  <2>1. \A n \in Nat : G[n] = IF n = 0 THEN found ELSE Further(succ, G[n - 1])
    BY <1>6
  <2> QED
    BY <2>1
<1>8. G \in [Nat -> SUBSET L]
  <2> DEFINE Good == {n \in Nat : G[n] \in SUBSET L}
  <2>1. 0 \in Good
    BY <1>7
  <2>2. \A n \in Nat : n \in Good => n + 1 \in Good
    BY <1>7 DEF Further
  <2> HIDE DEF Good
  <2>3. Nat \subseteq Good
    BY <2>1, <2>2, NatInd
  <2>4. \A n \in Nat : G[n] \in SUBSET L
    BY <2>3 DEF Good
  <2>5. G = [n \in Nat |-> G[n]]
    BY <1>6
  <2> QED
    BY <2>4, <2>5
<1> QED
  BY <1>5, <1>7, <1>8 DEF IsSearch

\* The search finds the blocks it starts from, and no branch leaves what it
\* finds.
LEMMA ReachClosureClosed ==
  ASSUME NEW succ, IsFiniteSet(DOMAIN succ), NEW found, found \subseteq DOMAIN succ
  PROVE  /\ found \subseteq ReachClosure(succ, found)
         /\ ReachClosure(succ, found) \subseteq DOMAIN succ
         /\ ClosedUnder(succ, ReachClosure(succ, found))
<1> DEFINE L == DOMAIN succ
           N == Cardinality(L)
           F == [X \in SUBSET L |-> Further(succ, X)]
<1>1. PICK g : IsSearch(succ, found, g) /\ ReachClosure(succ, found) = g[N]
  BY ReachClosureIs
<1>2. N \in Nat
  BY FS_CardinalityType
<1> DEFINE h == [n \in 0..N |-> g[n]]
<1>3. h \in [0..N -> SUBSET L] /\ h[N] = g[N]
  BY <1>1, <1>2 DEF IsSearch
<1>4. F \in [SUBSET L -> SUBSET L] /\ \A X \in SUBSET L : X \subseteq F[X]
  BY DEF Further
<1>5. ASSUME NEW n \in 1..N PROVE h[n] = F[h[n - 1]]
  <2>1. n - 1 \in Nat /\ n - 1 \in 0..N /\ (n - 1) + 1 = n /\ n \in 0..N
    BY <1>2
  <2>2. g[n] = Further(succ, g[n - 1]) /\ g[n - 1] \in SUBSET L
    BY <1>1, <2>1 DEF IsSearch
  <2> QED
    BY <2>1, <2>2
<1> HIDE DEF h, F, N
<1>6. F[h[N]] = h[N]
  <2>1. Cardinality(L) <= N
    BY <1>2 DEF N
  <2> QED
    BY <1>2, <1>3, <1>4, <1>5, <2>1, FixpointReached
<1>7. Further(succ, g[N]) = g[N] /\ g[N] \in SUBSET L
  BY <1>3, <1>6, <1>2 DEF F
<1>8. found \subseteq g[N]
  <2> DEFINE Good == {n \in Nat : found \subseteq g[n]}
  <2>1. 0 \in Good
    BY <1>1 DEF IsSearch
  <2>2. \A n \in Nat : n \in Good => n + 1 \in Good
    BY <1>1 DEF IsSearch, Further
  <2> HIDE DEF Good
  <2>3. Nat \subseteq Good
    BY <2>1, <2>2, NatInd
  <2> QED
    BY <2>3, <1>2 DEF Good
<1>9. ClosedUnder(succ, g[N])
  BY <1>7 DEF ClosedUnder, Further
<1> QED
  BY <1>1, <1>7, <1>8, <1>9

\* It finds no more than it has to.
LEMMA ReachClosureLeast ==
  ASSUME NEW succ, IsFiniteSet(DOMAIN succ), NEW found, found \subseteq DOMAIN succ,
         NEW X, found \subseteq X, ClosedUnder(succ, X)
  PROVE  ReachClosure(succ, found) \subseteq X
<1>1. PICK g : IsSearch(succ, found, g) /\ ReachClosure(succ, found) = g[Cardinality(DOMAIN succ)]
  BY ReachClosureIs
<1>2. Cardinality(DOMAIN succ) \in Nat
  BY FS_CardinalityType
<1> DEFINE Good == {n \in Nat : g[n] \subseteq X}
<1>3. 0 \in Good
  BY <1>1 DEF IsSearch
<1>4. \A n \in Nat : n \in Good => n + 1 \in Good
  BY <1>1 DEF IsSearch, Further, ClosedUnder
<1> HIDE DEF Good
<1>5. Nat \subseteq Good
  BY <1>3, <1>4, NatInd
<1> QED
  BY <1>1, <1>2, <1>5 DEF Good

\* Blocks reached from the entry: the least set with the entry that no branch
\* leaves.
LEMMA ReachFacts ==
  ASSUME NEW labels, NEW succ, Graph(labels, succ)
  PROVE  LET R == ReachableBlocks(labels, succ)
         IN  /\ labels[1] \in DOMAIN succ
             /\ labels[1] \in R /\ R \subseteq DOMAIN succ /\ ClosedUnder(succ, R)
             /\ \A X : labels[1] \in X /\ ClosedUnder(succ, X) => R \subseteq X
<1>1. 1 \in DOMAIN labels
  BY DEF Graph
<1>2. labels[1] \in DOMAIN succ /\ IsFiniteSet(DOMAIN succ)
  BY <1>1 DEF Graph
<1> DEFINE found == {labels[1]}
<1>3. found \subseteq DOMAIN succ
  BY <1>2
<1> HIDE DEF found
<1>4. /\ found \subseteq ReachClosure(succ, found)
      /\ ReachClosure(succ, found) \subseteq DOMAIN succ
      /\ ClosedUnder(succ, ReachClosure(succ, found))
  BY <1>2, <1>3, ReachClosureClosed
<1>5. \A X : found \subseteq X /\ ClosedUnder(succ, X) => ReachClosure(succ, found) \subseteq X
  BY <1>2, <1>3, ReachClosureLeast
<1> QED
  BY <1>2, <1>4, <1>5 DEF ReachableBlocks, found

-----------------------------------------------------------------------------
(* The rounds.                                                             *)

DomMaps(succ) == [DOMAIN succ -> SUBSET DOMAIN succ]
Below(succ, d1, d2) == \A b \in DOMAIN succ : d1[b] \subseteq d2[b]

\* A map that a refinement can only shrink.
Shrinking(labels, succ, reach, d) ==
  \A b \in DOMAIN succ : Refined(d, labels[1], succ, reach, b) \subseteq d[b]

\* One turn of the inner loop.
Turn(labels, succ, reach, d, b) == [d EXCEPT ![b] = Refined(d, labels[1], succ, reach, b)]

LEMMA RefinedType ==
  ASSUME NEW succ, NEW entry, NEW reach, NEW d \in DomMaps(succ), NEW b \in DOMAIN succ
  PROVE  Refined(d, entry, succ, reach, b) \in SUBSET DOMAIN succ
BY DEF Refined, DomMaps

\* A refinement of a smaller map is smaller.
LEMMA RefinedMonotone ==
  ASSUME NEW succ, NEW entry, NEW reach, NEW d1, NEW d2, Below(succ, d1, d2), NEW b \in DOMAIN succ
  PROVE  Refined(d1, entry, succ, reach, b) \subseteq Refined(d2, entry, succ, reach, b)
<1> DEFINE preds == Preds(succ, b) \intersect reach
<1>1. \A q \in preds : d1[q] \subseteq d2[q]
  BY DEF Preds, Below
<1> QED
  BY <1>1 DEF Refined, Below

\* What holds of the map at every turn: it only shrinks from here, the entry is
\* done, and it is above every map that no refinement shrinks too far.
Sound(labels, succ, reach, low, d) ==
  /\ d \in DomMaps(succ)
  /\ Shrinking(labels, succ, reach, d)
  /\ d[labels[1]] = {labels[1]}
  /\ Below(succ, low, d)

\* A map that no refinement takes below itself.
Kept(labels, succ, reach, low) ==
  \A b \in DOMAIN succ : low[b] \subseteq Refined(low, labels[1], succ, reach, b)

\* A turn keeps a sound map sound.
LEMMA TurnSound ==
  ASSUME NEW labels, NEW succ, NEW reach, NEW low, Kept(labels, succ, reach, low),
         NEW d, Sound(labels, succ, reach, low, d), NEW b \in DOMAIN succ
  PROVE  LET t == Turn(labels, succ, reach, d, b)
         IN  /\ Sound(labels, succ, reach, low, t)
             /\ Below(succ, t, d)
             /\ t[b] = Refined(d, labels[1], succ, reach, b)
<1> DEFINE L == DOMAIN succ
           Ref(m, c) == Refined(m, labels[1], succ, reach, c)
           t == Turn(labels, succ, reach, d, b)
<1>1. d \in [L -> SUBSET L] /\ Ref(d, b) \in SUBSET L
  BY RefinedType DEF Sound, DomMaps
<1> HIDE DEF Ref
<1>2. t = [d EXCEPT ![b] = Ref(d, b)]
  BY DEF Turn, Ref
<1> HIDE DEF t
<1>3. t \in [L -> SUBSET L] /\ t[b] = Ref(d, b) /\ \A c \in L \ {b} : t[c] = d[c]
  BY <1>1, <1>2
<1>4. \A c \in L : Ref(d, c) \subseteq d[c]
  BY DEF Sound, Shrinking, Ref
<1>5. Below(succ, t, d)
  BY <1>3, <1>4 DEF Below
<1>6. \A c \in L : Ref(t, c) \subseteq Ref(d, c)
  BY <1>5, RefinedMonotone DEF Ref
<1>7. Shrinking(labels, succ, reach, t)
  <2>1. \A c \in L : Ref(t, c) \subseteq t[c]
    BY <1>3, <1>4, <1>6
  <2> QED
    BY <2>1 DEF Shrinking, Ref
<1>8. t[labels[1]] = {labels[1]}
  <2>1. CASE b = labels[1]
    <3>1. Ref(d, b) = d[b]
      BY <2>1 DEF Ref, Refined
    <3> QED
      BY <3>1, <2>1, <1>3 DEF Sound
  <2>2. CASE b # labels[1]
    <3>1. t[labels[1]] = d[labels[1]]
      BY <1>1, <1>2, <2>2
    <3> QED
      BY <3>1 DEF Sound
  <2> QED
    BY <2>1, <2>2
<1>9. Below(succ, low, t)
  <2>1. Below(succ, low, d)
    BY DEF Sound
  <2>2. low[b] \subseteq Ref(low, b) /\ Ref(low, b) \subseteq Ref(d, b)
    BY <2>1, RefinedMonotone DEF Kept, Ref
  <2> QED
    BY <2>1, <2>2, <1>3 DEF Below
<1> QED
  BY <1>3, <1>5, <1>7, <1>8, <1>9 DEF Sound, DomMaps, Ref, t

\* t is the maps of a round that starts from d.
Turns(labels, succ, reach, d, t) ==
  /\ t \in [0..Len(labels) -> DomMaps(succ)]
  /\ t[0] = d
  /\ \A i \in 1..Len(labels) : t[i] = Turn(labels, succ, reach, t[i - 1], labels[i])
  /\ Round(d, labels, succ, reach) = t[Len(labels)]

\* A round is a turn for every label of the list.
LEMMA RoundTurns ==
  ASSUME NEW labels, NEW succ, Graph(labels, succ), NEW reach, NEW d \in DomMaps(succ)
  PROVE  \E t : Turns(labels, succ, reach, d, t)
<1> DEFINE N == Len(labels)
           S == DomMaps(succ)
           D == [x \in S \X (1..N) |-> Turn(labels, succ, reach, x[1], labels[x[2]])]
           Is(f) == f = [i \in 0..N |->
                           IF i = 0 THEN d
                           ELSE LET prev == f[i - 1]
                                IN  [prev EXCEPT ![labels[i]] =
                                       Refined(prev, labels[1], succ, reach, labels[i])]]
           G == CHOOSE f : Is(f)
<1>1. N \in Nat /\ \A i \in 1..N : labels[i] \in DOMAIN succ
  BY DEF Graph
<1>2. ASSUME NEW m \in S, NEW b \in DOMAIN succ
      PROVE  Turn(labels, succ, reach, m, b) \in S
  BY <1>2, RefinedType DEF Turn, DomMaps
<1>3. D \in [S \X (1..N) -> S]
  BY <1>1, <1>2
<1>4. \A m \in S, i \in 1..N : D[<<m, i>>] = Turn(labels, succ, reach, m, labels[i])
  OBVIOUS
<1> HIDE DEF D, S
<1>5. PICK g \in [0..N -> S] : Recursive(N, d, D, g)
  <2>1. d \in S
    BY DEF S
  <2> HIDE DEF N
  <2> QED
    BY <1>1, <1>3, <2>1, RecursionExists
<1>6. \A i \in 1..N : g[i] = Turn(labels, succ, reach, g[i - 1], labels[i])
  <2> SUFFICES ASSUME NEW i \in 1..N
               PROVE  g[i] = Turn(labels, succ, reach, g[i - 1], labels[i])
    OBVIOUS
  <2>1. i \in 0..N /\ i - 1 \in 0..N /\ i # 0
    BY <1>1
  <2>2. g[i] = D[<<g[i - 1], i>>] /\ g[i - 1] \in S
    BY <1>5, <2>1 DEF Recursive
  <2> QED
    BY <2>2, <1>4
<1>7. g[0] = d
  BY <1>1, <1>5 DEF Recursive
<1>8. Is(g)
  <2>1. ASSUME NEW i \in 0..N
        PROVE  g[i] = IF i = 0 THEN d
                      ELSE LET prev == g[i - 1]
                           IN  [prev EXCEPT ![labels[i]] =
                                  Refined(prev, labels[1], succ, reach, labels[i])]
    <3>1. CASE i = 0
      BY <1>7, <3>1
    <3>2. CASE i # 0
      <4>1. i \in 1..N
        BY <1>1, <3>2
      <4> QED
        BY <4>1, <3>2, <1>6 DEF Turn
    <3> QED
      BY <3>1, <3>2
  <2> QED
    BY <2>1
<1>9. Round(d, labels, succ, reach) = G[N]
  BY DEF Round
<1>10. Is(G)
  BY <1>8
<1> HIDE DEF G
<1>11. G[0] = d /\ \A i \in 1..N : G[i] = Turn(labels, succ, reach, G[i - 1], labels[i])
  <2>1. \A i \in 0..N : G[i] = IF i = 0 THEN d
                               ELSE Turn(labels, succ, reach, G[i - 1], labels[i])
    BY <1>10 DEF Turn
  <2>2. 0 \in 0..N /\ \A i \in 1..N : i \in 0..N /\ i # 0
    BY <1>1
  <2> QED
    BY <2>1, <2>2
<1>12. G \in [0..N -> S]
  <2> DEFINE Good == {i \in 0..N : G[i] \in S}
  <2>1. 0 \in Good
    BY <1>1, <1>11 DEF S
  <2>2. ASSUME NEW i \in 0..N, i \in Good, i < N PROVE i + 1 \in Good
    <3>1. i + 1 \in 1..N /\ i + 1 \in 0..N /\ (i + 1) - 1 = i
      BY <1>1, <2>2
    <3>2. G[i + 1] = Turn(labels, succ, reach, G[i], labels[i + 1])
      BY <3>1, <1>11
    <3> QED
      BY <3>1, <3>2, <1>1, <1>2, <2>2
  <2> HIDE DEF Good
  <2>3. 0..N \subseteq Good
    BY <1>1, <2>1, <2>2, UpTo
  <2>4. \A i \in 0..N : G[i] \in S
    BY <2>3 DEF Good
  <2>5. G = [i \in 0..N |-> G[i]]
    BY <1>10
  <2> QED
    BY <2>4, <2>5
<1> QED
  BY <1>9, <1>11, <1>12 DEF S, Turns

\* A round keeps a sound map sound and shrinks it; one that changes nothing
\* leaves a fixpoint of every refinement.
LEMMA RoundSound ==
  ASSUME NEW labels, NEW succ, Graph(labels, succ), NEW reach,
         NEW low, Kept(labels, succ, reach, low), NEW d, Sound(labels, succ, reach, low, d)
  PROVE  LET r == Round(d, labels, succ, reach)
         IN  /\ Sound(labels, succ, reach, low, r)
             /\ Below(succ, r, d)
             /\ r = d => \A b \in DOMAIN succ : d[b] = Refined(d, labels[1], succ, reach, b)
<1> DEFINE N == Len(labels)
           L == DOMAIN succ
<1>1. N \in Nat /\ \A i \in 1..N : labels[i] \in L
  BY DEF Graph
<1>2. d \in DomMaps(succ)
  BY DEF Sound
<1>11. PICK t : Turns(labels, succ, reach, d, t)
  BY <1>2, RoundTurns
<1>3. /\ t \in [0..N -> DomMaps(succ)]
      /\ t[0] = d
      /\ \A i \in 1..N : t[i] = Turn(labels, succ, reach, t[i - 1], labels[i])
      /\ Round(d, labels, succ, reach) = t[N]
  BY <1>11 DEF Turns
<1> DEFINE Good == {i \in 0..N : /\ Sound(labels, succ, reach, low, t[i])
                                 /\ Below(succ, t[i], d)}
<1>4. 0 \in Good
  BY <1>1, <1>3 DEF Below
<1>5. ASSUME NEW i \in 0..N, i < N, Sound(labels, succ, reach, low, t[i])
      PROVE  /\ Sound(labels, succ, reach, low, t[i + 1])
             /\ Below(succ, t[i + 1], t[i])
             /\ t[i + 1][labels[i + 1]] = Refined(t[i], labels[1], succ, reach, labels[i + 1])
  <2>1. i + 1 \in 1..N /\ (i + 1) - 1 = i
    BY <1>1, <1>5
  <2>2. t[i + 1] = Turn(labels, succ, reach, t[i], labels[i + 1]) /\ labels[i + 1] \in L
    BY <2>1, <1>1, <1>3
  <2> QED
    BY <2>2, <1>5, TurnSound
<1>6. ASSUME NEW i \in 0..N, i \in Good, i < N PROVE i + 1 \in Good
  <2>1. i + 1 \in 0..N
    BY <1>1, <1>6
  <2> QED
    BY <2>1, <1>5, <1>6 DEF Below
<1> HIDE DEF Good
<1>7. 0..N \subseteq Good
  BY <1>1, <1>4, <1>6, UpTo
<1>8. \A i \in 0..N : Sound(labels, succ, reach, low, t[i]) /\ Below(succ, t[i], d)
  BY <1>7 DEF Good
<1>9. Sound(labels, succ, reach, low, t[N]) /\ Below(succ, t[N], d)
  BY <1>1, <1>8
<1>10. ASSUME t[N] = d, NEW b \in L PROVE d[b] = Refined(d, labels[1], succ, reach, b)
  <2>1. PICK i \in DOMAIN labels : b = labels[i]
    BY DEF Graph
  <2>2. i \in 1..N /\ i \in 0..N /\ i - 1 \in 0..N /\ i - 1 < N /\ (i - 1) + 1 = i
    BY <2>1, <1>1 DEF Graph
\* From the end of the round backwards, every map is above the last.
  <2> DEFINE Above == {k \in 0..N : Below(succ, d, t[N - k])}
  <2>3. 0 \in Above
    <3>1. N - 0 = N /\ 0 \in 0..N
      BY <1>1
    <3> QED
      BY <3>1, <1>10 DEF Below
  <2>4. ASSUME NEW k \in 0..N, k \in Above, k < N PROVE k + 1 \in Above
    <3>1. N - (k + 1) \in 0..N /\ N - (k + 1) < N /\ (N - (k + 1)) + 1 = N - k /\ k + 1 \in 0..N
      BY <1>1, <2>4
    <3>2. Below(succ, t[N - k], t[N - (k + 1)])
      BY <3>1, <1>5, <1>8
    <3> QED
      BY <3>1, <3>2, <2>4 DEF Below
  <2> HIDE DEF Above
  <2>5. 0..N \subseteq Above
    BY <1>1, <2>3, <2>4, UpTo
  <2>6. \A j \in 0..N : Below(succ, d, t[j])
    <3> SUFFICES ASSUME NEW j \in 0..N PROVE Below(succ, d, t[j])
      OBVIOUS
    <3>1. N - j \in 0..N /\ N - (N - j) = j
      BY <1>1
    <3> QED
      BY <3>1, <2>5 DEF Above
  <2>7. \A j \in 0..N : t[j] = d
    <3> SUFFICES ASSUME NEW j \in 0..N PROVE t[j] = d
      OBVIOUS
    <3>1. t[j] \in [L -> SUBSET L] /\ d \in [L -> SUBSET L]
      BY <1>2, <1>3 DEF DomMaps
    <3>2. \A c \in L : t[j][c] = d[c]
      BY <1>8, <2>6 DEF Below
    <3> QED
      BY <3>1, <3>2
  <2>8. t[i][labels[i]] = Refined(t[i - 1], labels[1], succ, reach, labels[i])
    BY <2>2, <1>5, <1>8
  <2> QED
    BY <2>1, <2>2, <2>7, <2>8
<1> QED
  BY <1>3, <1>9, <1>10

\* The rounds end in a sound map that no refinement changes.
LEMMA ComputeDominatorsFixpoint ==
  ASSUME NEW labels, NEW succ, Graph(labels, succ),
         NEW low, Kept(labels, succ, ReachableBlocks(labels, succ), low),
         Sound(labels, succ, ReachableBlocks(labels, succ), low, AllBlocks(labels, succ))
  PROVE  LET R == ReachableBlocks(labels, succ)
             dom == ComputeDominators(labels, succ)
         IN  /\ Sound(labels, succ, R, low, dom)
             /\ \A b \in DOMAIN succ : dom[b] = Refined(dom, labels[1], succ, R, b)
<1> DEFINE L == DOMAIN succ
           R == ReachableBlocks(labels, succ)
           S == {d \in DomMaps(succ) : Sound(labels, succ, R, low, d)}
           top == AllBlocks(labels, succ)
           D == [d \in S |-> Round(d, labels, succ, R)]
           Is(f) == f = [n \in Nat |-> IF n = 0 THEN top ELSE Round(f[n - 1], labels, succ, R)]
           A == CHOOSE f : Is(f)
           M == EnoughRounds(succ)
<1> HIDE DEF R, top
<1>1. \A d : Sound(labels, succ, R, low, d) <=> d \in S
  BY DEF Sound
<1>2. ASSUME NEW d \in S
      PROVE  /\ Round(d, labels, succ, R) \in S
             /\ Below(succ, Round(d, labels, succ, R), d)
             /\ Round(d, labels, succ, R) = d =>
                  \A b \in L : d[b] = Refined(d, labels[1], succ, R, b)
  <2>1. Sound(labels, succ, R, low, d) /\ Kept(labels, succ, R, low)
    BY <1>2, <1>1 DEF R
  <2> HIDE DEF S
  <2>2. /\ Sound(labels, succ, R, low, Round(d, labels, succ, R))
        /\ Below(succ, Round(d, labels, succ, R), d)
        /\ Round(d, labels, succ, R) = d =>
             \A b \in L : d[b] = Refined(d, labels[1], succ, R, b)
    BY <2>1, RoundSound
  <2> QED
    BY <2>2, <1>1
<1>3. D \in [S -> S] /\ top \in S
  <2>1. top \in S
    BY <1>1 DEF R, top
  <2> QED
    BY <1>2, <2>1
<1> HIDE DEF S, D
<1>4. PICK g \in [Nat -> S] : g[0] = top /\ \A n \in Nat : g[n + 1] = D[g[n]]
  BY <1>3, IterationExists
<1>5. \A n \in Nat : g[n + 1] = Round(g[n], labels, succ, R)
  BY <1>4 DEF D
<1>6. Is(g)
  <2>1. ASSUME NEW n \in Nat
        PROVE  g[n] = IF n = 0 THEN top ELSE Round(g[n - 1], labels, succ, R)
    <3>1. CASE n = 0
      BY <1>4, <3>1
    <3>2. CASE n # 0
      <4>1. n - 1 \in Nat /\ (n - 1) + 1 = n
        BY <3>2
      <4>2. g[(n - 1) + 1] = Round(g[n - 1], labels, succ, R)
        BY <4>1, <1>5
      <4> QED
        BY <3>2, <4>1, <4>2
    <3> QED
      BY <3>1, <3>2
  <2> QED
    BY <2>1
<1>7. Is(A)
  BY <1>6
<1>8. ComputeDominators(labels, succ) = A[CHOOSE n \in 0..M : A[n + 1] = A[n]]
  BY DEF ComputeDominators, R, top
<1> HIDE DEF A
<1>9. A[0] = top /\ \A n \in Nat : A[n + 1] = Round(A[n], labels, succ, R)
  <2>1. \A n \in Nat : A[n] = IF n = 0 THEN top ELSE Round(A[n - 1], labels, succ, R)
    BY <1>7
  <2> QED
    BY <2>1
<1>10. \A n \in Nat : A[n] \in S
  <2> DEFINE Good == {n \in Nat : A[n] \in S}
  <2>1. 0 \in Good
    BY <1>3, <1>9
  <2>2. \A n \in Nat : n \in Good => n + 1 \in Good
    BY <1>2, <1>9
  <2> HIDE DEF Good
  <2>3. Nat \subseteq Good
    BY <2>1, <2>2, NatInd
  <2> QED
    BY <2>3 DEF Good
\* The pairs taken out are a growing set of at most M pairs.
<1>11. \E n \in 0..M : A[n + 1] = A[n]
  <2> DEFINE P == L \X L
             Out(d) == {p \in P : p[2] \notin d[p[1]]}
             Map(X) == [b \in L |-> {a \in L : <<b, a>> \notin X}]
             F == [X \in SUBSET P |-> X \union Out(Round(Map(X), labels, succ, R))]
             h == [n \in 0..M |-> Out(A[n])]
  <2>1. IsFiniteSet(P) /\ M \in Nat /\ Cardinality(P) <= M
    <3>1. IsFiniteSet(L)
      BY DEF Graph
    <3>2. IsFiniteSet(P) /\ Cardinality(P) = Cardinality(L) * Cardinality(L)
      BY <3>1, FS_Product
    <3>3. Cardinality(P) \in Nat
      BY <3>2, FS_CardinalityType
    <3> QED
      BY <3>2, <3>3 DEF EnoughRounds
  <2>2. F \in [SUBSET P -> SUBSET P] /\ \A X \in SUBSET P : X \subseteq F[X]
    OBVIOUS
  <2>3. ASSUME NEW d \in S PROVE Map(Out(d)) = d /\ Out(d) \in SUBSET P
    <3>1. d \in [L -> SUBSET L]
      BY DEF S, DomMaps
    <3>2. \A b \in L : Map(Out(d))[b] = d[b]
      BY <3>1
    <3> QED
      BY <3>1, <3>2
  <2>4. ASSUME NEW n \in Nat PROVE F[Out(A[n])] = Out(A[n + 1])
    <3>1. A[n] \in S /\ A[n + 1] = Round(A[n], labels, succ, R) /\ Below(succ, A[n + 1], A[n])
      BY <1>2, <1>9, <1>10
    <3>2. F[Out(A[n])] = Out(A[n]) \union Out(A[n + 1])
      BY <2>3, <3>1
    <3>3. Out(A[n]) \subseteq Out(A[n + 1])
      BY <3>1 DEF Below
    <3> QED
      BY <3>2, <3>3
  <2> HIDE DEF M
  <2>5. h \in [0..M -> SUBSET P] /\ h[M] = Out(A[M])
    BY <2>1, <2>3, <1>10
  <2>6. ASSUME NEW n \in 1..M PROVE h[n] = F[h[n - 1]]
    <3>1. n \in 0..M /\ n - 1 \in 0..M /\ n - 1 \in Nat /\ (n - 1) + 1 = n
      BY <2>1
    <3>2. h[n] = Out(A[n]) /\ h[n - 1] = Out(A[n - 1])
      BY <3>1
    <3> HIDE DEF h, F, Out
    <3> QED
      BY <3>1, <3>2, <2>4
  <2> HIDE DEF h, F, P
  <2>7. F[h[M]] = h[M]
    <3>1. h \in [0..M -> SUBSET P]
      BY <2>5
    <3> HIDE DEF Out, Map, L
    <3> QED
      BY <2>1, <2>2, <3>1, <2>6, FixpointReached
  <2>8. Out(A[M + 1]) = Out(A[M])
    BY <2>1, <2>4, <2>5, <2>7
  <2>9. A[M + 1] = A[M]
    <3> HIDE DEF Out, Map
    <3>1. Map(Out(A[M + 1])) = A[M + 1] /\ Map(Out(A[M])) = A[M]
      BY <2>1, <2>3, <1>10
    <3> QED
      BY <2>8, <3>1
  <2> QED
    BY <2>1, <2>9
<1> DEFINE last == CHOOSE n \in 0..M : A[n + 1] = A[n]
<1>12. last \in 0..M /\ A[last + 1] = A[last]
  BY <1>11
<1> HIDE DEF last
<1>13. last \in Nat
  BY <1>12
<1>14. A[last] \in S /\ Round(A[last], labels, succ, R) = A[last]
  BY <1>9, <1>10, <1>12, <1>13
<1>15. ComputeDominators(labels, succ) = A[last]
  BY <1>8 DEF last
<1> QED
  BY <1>1, <1>2, <1>14, <1>15 DEF R

-----------------------------------------------------------------------------
(* The blocks on every path.                                               *)

\* The blocks reached by paths that avoid a: without a, and the least set with
\* the entry that only branches to a leave.
LEMMA AvoidFacts ==
  ASSUME NEW labels, NEW succ, Graph(labels, succ), NEW a \in DOMAIN succ, a # labels[1]
  PROVE  LET R == ReachableBlocks(labels, succ)
             V == ReachedAvoiding(labels, succ, a)
         IN  /\ labels[1] \in V /\ V \subseteq R /\ a \notin V
             /\ \A x \in V : (succ[x] \intersect DOMAIN succ) \ {a} \subseteq V
             /\ \A X : /\ labels[1] \in X
                       /\ \A x \in (X \intersect DOMAIN succ) \ {a} :
                            (succ[x] \intersect DOMAIN succ) \ {a} \subseteq X
                       => V \subseteq X
<1> DEFINE L == DOMAIN succ
           R == ReachableBlocks(labels, succ)
           V == ReachedAvoiding(labels, succ, a)
           cut == [l \in L |-> IF l = a THEN {} ELSE succ[l] \ {a}]
<1>1. DOMAIN cut = L
  OBVIOUS
<1>2. \A x \in L : cut[x] = IF x = a THEN {} ELSE succ[x] \ {a}
  OBVIOUS
<1>3. V = ReachableBlocks(labels, cut)
  BY DEF ReachedAvoiding
<1>r. labels[1] \in L /\ labels[1] \in R /\ R \subseteq L /\ ClosedUnder(succ, R)
  BY ReachFacts
<1> HIDE DEF cut, V, R
<1>4. Graph(labels, cut)
  BY <1>1 DEF Graph
<1>5. /\ labels[1] \in V /\ V \subseteq L /\ ClosedUnder(cut, V)
      /\ \A X : labels[1] \in X /\ ClosedUnder(cut, X) => V \subseteq X
  <2>1. LET Q == ReachableBlocks(labels, cut)
        IN  /\ labels[1] \in Q /\ Q \subseteq DOMAIN cut /\ ClosedUnder(cut, Q)
            /\ \A X : labels[1] \in X /\ ClosedUnder(cut, X) => Q \subseteq X
    BY <1>4, ReachFacts
  <2> QED
    BY <2>1, <1>1, <1>3
<1>6. V \subseteq R
  <2>1. ClosedUnder(cut, R)
    BY <1>1, <1>2, <1>r DEF ClosedUnder
  <2> QED
    BY <2>1, <1>5, <1>r
<1>7. a \notin V
  <2>1. ClosedUnder(cut, L \ {a})
    BY <1>1, <1>2 DEF ClosedUnder
  <2>2. labels[1] \in L \ {a}
    BY <1>r
  <2> QED
    BY <2>1, <2>2, <1>5
<1>8. ASSUME NEW x \in V PROVE (succ[x] \intersect L) \ {a} \subseteq V
  <2>1. x \in L /\ x # a
    BY <1>5, <1>7
  <2>2. cut[x] \intersect L \subseteq V
    BY <2>1, <1>1, <1>5 DEF ClosedUnder
  <2> QED
    BY <2>1, <2>2, <1>2
<1>9. ASSUME NEW X, labels[1] \in X,
             \A x \in (X \intersect L) \ {a} : (succ[x] \intersect L) \ {a} \subseteq X
      PROVE  V \subseteq X
  <2>1. ClosedUnder(cut, X)
    BY <1>1, <1>2, <1>9 DEF ClosedUnder
  <2> QED
    BY <2>1, <1>5, <1>9
<1> QED
  BY <1>5, <1>6, <1>7, <1>8, <1>9 DEF R, V

\* The true dominators.
Exact(labels, succ) ==
  LET reach == ReachableBlocks(labels, succ)
  IN  [b \in DOMAIN succ |->
         IF b \in reach THEN {a \in reach : b \notin ReachedAvoiding(labels, succ, a)} ELSE {b}]

\* The true dominators of the entry, and those of any block.
LEMMA ExactFacts ==
  ASSUME NEW labels, NEW succ, Graph(labels, succ)
  PROVE  LET R == ReachableBlocks(labels, succ)
             E == Exact(labels, succ)
         IN  /\ E[labels[1]] = {labels[1]}
             /\ \A b \in DOMAIN succ : b \in E[b] /\ E[b] \subseteq DOMAIN succ
             /\ \A b \in R : labels[1] \in E[b] /\ E[b] \subseteq R
             /\ \A b \in DOMAIN succ \ R : E[b] = {b}
<1> DEFINE R == ReachableBlocks(labels, succ)
           E == Exact(labels, succ)
           V(a) == ReachedAvoiding(labels, succ, a)
<1>1. labels[1] \in R /\ R \subseteq DOMAIN succ
  BY ReachFacts
<1>2. V(labels[1]) = {}
  BY DEF ReachedAvoiding
<1>3. \A a \in R \ {labels[1]} : labels[1] \in V(a) /\ a \notin V(a)
  BY <1>1, AvoidFacts
<1>4. \A b \in DOMAIN succ : E[b] = IF b \in R THEN {a \in R : b \notin V(a)} ELSE {b}
  BY DEF Exact
<1> HIDE DEF R, E, V
<1>5. E[labels[1]] = {labels[1]}
  BY <1>1, <1>2, <1>3, <1>4
<1>6. \A b \in DOMAIN succ : b \in E[b] /\ E[b] \subseteq DOMAIN succ
  <2>1. \A b \in R : b \notin V(b)
    BY <1>2, <1>3
  <2> SUFFICES ASSUME NEW b \in DOMAIN succ PROVE b \in E[b] /\ E[b] \subseteq DOMAIN succ
    OBVIOUS
  <2>2. CASE b \in R
    BY <2>1, <2>2, <1>1, <1>4
  <2>3. CASE b \notin R
    BY <2>3, <1>4
  <2> QED
    BY <2>2, <2>3
<1>7. \A b \in R : labels[1] \in E[b] /\ E[b] \subseteq R
  BY <1>1, <1>2, <1>4
<1>8. \A b \in DOMAIN succ \ R : E[b] = {b}
  BY <1>4
<1> QED
  BY <1>5, <1>6, <1>7, <1>8 DEF R, E

\* No branch reaches a block that is not reached, and every other block but the
\* entry is the target of a branch of one that is.
LEMMA PredFacts ==
  ASSUME NEW labels, NEW succ, Graph(labels, succ), NEW b \in DOMAIN succ, b # labels[1]
  PROVE  b \in ReachableBlocks(labels, succ)
           <=> Preds(succ, b) \intersect ReachableBlocks(labels, succ) # {}
<1> DEFINE R == ReachableBlocks(labels, succ)
<1>1. /\ labels[1] \in R /\ R \subseteq DOMAIN succ /\ ClosedUnder(succ, R)
      /\ \A X : labels[1] \in X /\ ClosedUnder(succ, X) => R \subseteq X
  BY ReachFacts
<1> HIDE DEF R
<1>2. ASSUME b \in R, Preds(succ, b) \intersect R = {} PROVE FALSE
  <2>1. ClosedUnder(succ, R \ {b})
    BY <1>1, <1>2 DEF ClosedUnder, Preds
  <2> QED
    BY <2>1, <1>1, <1>2
<1>3. ASSUME NEW q \in Preds(succ, b) \intersect R PROVE b \in R
  BY <1>1 DEF ClosedUnder, Preds
<1> QED
  BY <1>2, <1>3 DEF R

\* No refinement takes the true dominators below themselves.
LEMMA ExactKept ==
  ASSUME NEW labels, NEW succ, Graph(labels, succ)
  PROVE  Kept(labels, succ, ReachableBlocks(labels, succ), Exact(labels, succ))
<1> DEFINE L == DOMAIN succ
           R == ReachableBlocks(labels, succ)
           E == Exact(labels, succ)
           V(a) == ReachedAvoiding(labels, succ, a)
<1>1. labels[1] \in R /\ R \subseteq L
  BY ReachFacts
<1>2. \A b \in L : E[b] = IF b \in R THEN {a \in R : b \notin V(a)} ELSE {b}
  BY DEF Exact
<1>3. V(labels[1]) = {}
  BY DEF ReachedAvoiding
<1>4. \A a \in L \ {labels[1]} : \A x \in V(a) : (succ[x] \intersect L) \ {a} \subseteq V(a)
  BY AvoidFacts
<1>5. \A b \in L \ {labels[1]} : b \in R <=> Preds(succ, b) \intersect R # {}
  BY PredFacts
<1> SUFFICES ASSUME NEW b \in L
             PROVE  E[b] \subseteq Refined(E, labels[1], succ, R, b)
  BY DEF Kept
<1> HIDE DEF R, E, V
<1>6. CASE b = labels[1]
  BY <1>6 DEF Refined
<1>7. CASE b # labels[1] /\ b \notin R
  BY <1>2, <1>7 DEF Refined
<1>8. CASE b # labels[1] /\ b \in R
  <2>1. Preds(succ, b) \intersect R # {}
    BY <1>5, <1>8
  <2> SUFFICES ASSUME NEW a \in E[b], a # b
               PROVE  a \in L /\ \A q \in Preds(succ, b) \intersect R : a \in E[q]
    BY <2>1, <1>8 DEF Refined
  <2>2. a \in R /\ b \notin V(a)
    BY <1>2, <1>8
  <2>3. ASSUME NEW q \in Preds(succ, b) \intersect R PROVE a \in E[q]
    <3>1. q \in L /\ b \in succ[q]
      BY DEF Preds
    <3>2. q \notin V(a)
      BY <3>1, <2>2, <1>1, <1>3, <1>4
    <3> QED
      BY <3>1, <3>2, <2>2, <1>2
  <2> QED
    BY <2>2, <2>3, <1>1
<1> QED
  BY <1>6, <1>7, <1>8

\* A map that no refinement changes is not above the true dominators.
LEMMA FixpointBelow ==
  ASSUME NEW labels, NEW succ, Graph(labels, succ), NEW dom \in DomMaps(succ),
         dom[labels[1]] = {labels[1]},
         \A b \in DOMAIN succ :
           dom[b] = Refined(dom, labels[1], succ, ReachableBlocks(labels, succ), b)
  PROVE  Below(succ, dom, Exact(labels, succ))
<1> DEFINE L == DOMAIN succ
           R == ReachableBlocks(labels, succ)
           E == Exact(labels, succ)
           V(a) == ReachedAvoiding(labels, succ, a)
           Missed(a) == {x \in R : a \notin dom[x]}
<1>1. /\ labels[1] \in R /\ R \subseteq L /\ ClosedUnder(succ, R)
      /\ \A X : labels[1] \in X /\ ClosedUnder(succ, X) => R \subseteq X
  BY ReachFacts
<1>2. \A b \in L : E[b] = IF b \in R THEN {a \in R : b \notin V(a)} ELSE {b}
  BY DEF Exact
<1>3. V(labels[1]) = {}
  BY DEF ReachedAvoiding
<1>4. \A a \in L \ {labels[1]} : \A X :
        /\ labels[1] \in X
        /\ \A x \in (X \intersect L) \ {a} : (succ[x] \intersect L) \ {a} \subseteq X
        => V(a) \subseteq X
  BY AvoidFacts
<1>5. \A b \in L \ {labels[1]} : b \in R <=> Preds(succ, b) \intersect R # {}
  BY PredFacts
<1>6. \A b \in L : dom[b] \subseteq L
  BY DEF DomMaps
<1>7. \A b \in L \ {labels[1]}, a \in L :
        a \in dom[b] <=> \/ a = b
                         \/ /\ Preds(succ, b) \intersect R # {}
                            /\ \A q \in Preds(succ, b) \intersect R : a \in dom[q]
  BY DEF Refined
<1> HIDE DEF R, E, V
\* The blocks a does not dominate by the map are closed under the branches
\* that avoid a.
<1>8. ASSUME NEW a \in L \ {labels[1]}
      PROVE  /\ labels[1] \in Missed(a)
             /\ \A x \in Missed(a) : (succ[x] \intersect L) \ {a} \subseteq Missed(a)
  <2>1. labels[1] \in Missed(a)
    BY <1>1
  <2>2. ASSUME NEW x \in Missed(a), NEW c \in (succ[x] \intersect L) \ {a}
        PROVE  c \in Missed(a)
    <3>1. c \in R /\ x \in Preds(succ, c) \intersect R /\ a \notin dom[x]
      BY <1>1 DEF ClosedUnder, Preds
    <3>2. CASE c = labels[1]
      BY <2>1, <3>2
    <3>3. CASE c # labels[1]
      <4>1. a \notin dom[c]
        BY <3>1, <3>3, <1>7
      <4> QED
        BY <3>1, <4>1
    <3> QED
      BY <3>2, <3>3
  <2> QED
    BY <2>1, <2>2
<1> SUFFICES ASSUME NEW b \in L, NEW a \in dom[b]
             PROVE  a \in E[b]
  BY DEF Below, E
<1>9. CASE b \notin R
  <2>1. b # labels[1] /\ Preds(succ, b) \intersect R = {}
    BY <1>1, <1>5, <1>9
  <2>2. a \in L
    BY <1>6
  <2>3. a = b
    BY <2>1, <2>2, <1>7
  <2> QED
    BY <2>3, <1>2, <1>9
<1>10. CASE b \in R /\ a = labels[1]
  BY <1>1, <1>2, <1>3, <1>10
<1>11. CASE b \in R /\ a # labels[1]
  <2>1. a \in L \ {labels[1]} /\ b \notin Missed(a)
    BY <1>6, <1>11
  <2>2. b \notin V(a)
    BY <2>1, <1>4, <1>8
  <2>3. a \in R
    <3>1. SUFFICES ASSUME a \notin R PROVE FALSE
      OBVIOUS
    <3>2. ClosedUnder(succ, Missed(a))
      BY <3>1, <2>1, <1>1, <1>8 DEF ClosedUnder
    <3>3. R \subseteq Missed(a)
      BY <3>2, <2>1, <1>1, <1>8
    <3> QED
      BY <3>3, <2>1, <1>11
  <2> QED
    BY <2>2, <2>3, <1>2, <1>11
<1> QED
  BY <1>9, <1>10, <1>11

\* compute_dominators returns the true dominators.
LEMMA ComputeDominatorsExact ==
  ASSUME NEW labels, NEW succ, Graph(labels, succ)
  PROVE  ComputeDominators(labels, succ) = Exact(labels, succ)
<1> DEFINE L == DOMAIN succ
           R == ReachableBlocks(labels, succ)
           E == Exact(labels, succ)
           top == AllBlocks(labels, succ)
           dom == ComputeDominators(labels, succ)
<1>1. Kept(labels, succ, R, E)
  BY ExactKept
<1>2. /\ E[labels[1]] = {labels[1]}
      /\ \A b \in L : E[b] \subseteq L
  BY ExactFacts
<1>3. labels[1] \in L
  BY ReachFacts
<1>4. Sound(labels, succ, R, E, top)
  <2> HIDE DEF R, E
  <2>1. top \in DomMaps(succ)
    BY <1>3 DEF AllBlocks, DomMaps
  <2>2. top[labels[1]] = {labels[1]} /\ \A b \in L \ {labels[1]} : top[b] = L
    BY <1>3 DEF AllBlocks
  <2>3. Shrinking(labels, succ, R, top)
    <3> SUFFICES ASSUME NEW b \in L
                 PROVE  Refined(top, labels[1], succ, R, b) \subseteq top[b]
      BY DEF Shrinking
    <3>1. CASE b = labels[1]
      BY <3>1 DEF Refined
    <3>2. CASE b # labels[1]
      <4>1. Refined(top, labels[1], succ, R, b) \in SUBSET L
        BY <2>1, RefinedType
      <4> QED
        BY <4>1, <3>2, <2>2
    <3> QED
      BY <3>1, <3>2
  <2>4. Below(succ, E, top)
    BY <1>2, <2>2 DEF Below
  <2> QED
    BY <2>1, <2>2, <2>3, <2>4 DEF Sound
<1>5. Sound(labels, succ, R, E, dom) /\ \A b \in L : dom[b] = Refined(dom, labels[1], succ, R, b)
  BY <1>1, <1>4, ComputeDominatorsFixpoint
<1>6. dom \in DomMaps(succ) /\ dom[labels[1]] = {labels[1]} /\ Below(succ, E, dom)
  BY <1>5 DEF Sound
<1>7. Below(succ, dom, E)
  BY <1>5, <1>6, FixpointBelow
<1>8. \A b \in L : dom[b] = E[b]
  BY <1>6, <1>7 DEF Below
<1>9. dom = [b \in L |-> dom[b]] /\ E = [b \in L |-> E[b]]
  <2>1. dom \in [L -> SUBSET L]
    BY <1>6 DEF DomMaps
  <2>2. E = [b \in L |-> E[b]]
    BY DEF Exact
  <2> QED
    BY <2>1, <2>2
<1> HIDE DEF dom, E
<1>10. dom = E
  BY <1>8, <1>9
<1> QED
  BY <1>10 DEF dom, E

-----------------------------------------------------------------------------
(* The tree.                                                               *)

\* What is avoided on the way to b by avoiding a, when b does not need a.
LEMMA AvoidNested ==
  ASSUME NEW labels, NEW succ, Graph(labels, succ),
         NEW a \in DOMAIN succ \ {labels[1]}, NEW b \in DOMAIN succ \ {labels[1]},
         b \notin ReachedAvoiding(labels, succ, a)
  PROVE  ReachedAvoiding(labels, succ, a) \subseteq ReachedAvoiding(labels, succ, b)
<1> DEFINE L == DOMAIN succ
           V(x) == ReachedAvoiding(labels, succ, x)
<1>1. \A c \in L \ {labels[1]} :
        /\ labels[1] \in V(c) /\ c \notin V(c)
        /\ \A x \in V(c) : (succ[x] \intersect L) \ {c} \subseteq V(c)
        /\ \A X : /\ labels[1] \in X
                  /\ \A x \in (X \intersect L) \ {c} : (succ[x] \intersect L) \ {c} \subseteq X
                  => V(c) \subseteq X
  BY AvoidFacts
<1> HIDE DEF V
<1> DEFINE X == V(a) \intersect V(b)
<1>2. b \notin V(a)
  BY DEF V
<1>3. ASSUME NEW x \in X, NEW c \in (succ[x] \intersect L) \ {a} PROVE c \in X
  <2>1. c \in V(a)
    BY <1>1
  <2>2. c # b
    BY <1>2, <2>1
  <2> QED
    BY <2>1, <2>2, <1>1
<1>4. labels[1] \in X
  BY <1>1
<1>5. V(a) \subseteq X
  <2> HIDE DEF X
  <2> QED
    BY <1>1, <1>3, <1>4
<1> QED
  BY <1>5 DEF V

\* Dominance is transitive and antisymmetric, and the dominators of a block
\* dominate one another.
LEMMA DominanceOrder ==
  ASSUME NEW labels, NEW succ, Graph(labels, succ)
  PROVE  LET R == ReachableBlocks(labels, succ)
             E == Exact(labels, succ)
         IN  /\ \A c \in R : \A b \in E[c] : E[b] \subseteq E[c]
             /\ \A a, b \in R : a \in E[b] /\ b \in E[a] => a = b
             /\ \A c \in R : \A a, b \in E[c] : a \in E[b] \/ b \in E[a]
<1> DEFINE L == DOMAIN succ
           R == ReachableBlocks(labels, succ)
           E == Exact(labels, succ)
           V(x) == ReachedAvoiding(labels, succ, x)
<1>1. /\ labels[1] \in R /\ R \subseteq L
      /\ \A X : labels[1] \in X /\ ClosedUnder(succ, X) => R \subseteq X
  BY ReachFacts
<1>2. \A b \in R : E[b] = {a \in R : b \notin V(a)}
  BY <1>1 DEF Exact
<1>3. E[labels[1]] = {labels[1]} /\ \A b \in R : labels[1] \in E[b]
  BY ExactFacts
<1>4. \A c \in L \ {labels[1]} :
        /\ labels[1] \in V(c) /\ c \notin V(c)
        /\ \A x \in V(c) : (succ[x] \intersect L) \ {c} \subseteq V(c)
  BY AvoidFacts
<1>5. \A a, b \in L \ {labels[1]} : b \notin V(a) => V(a) \subseteq V(b)
  BY AvoidNested
<1> HIDE DEF R, E, V
<1>6. ASSUME NEW c \in R, NEW b \in E[c], NEW a \in E[b] PROVE a \in E[c]
  <2>1. b \in R /\ c \notin V(b)
    BY <1>2
  <2>2. a \in R /\ b \notin V(a)
    BY <1>2, <2>1
  <2>3. CASE a = labels[1]
    BY <1>3, <2>3
  <2>4. CASE b = labels[1]
    BY <1>3, <2>4
  <2>5. CASE a # labels[1] /\ b # labels[1]
    <3>1. V(a) \subseteq V(b)
      BY <2>1, <2>2, <2>5, <1>1, <1>5
    <3> QED
      BY <3>1, <2>1, <2>2, <1>2
  <2> QED
    BY <2>3, <2>4, <2>5
<1>7. ASSUME NEW a \in R, NEW b \in R, a \in E[b], b \in E[a] PROVE a = b
  <2> SUFFICES ASSUME a # b PROVE FALSE
    OBVIOUS
  <2>1. a # labels[1] /\ b # labels[1]
    BY <1>3, <1>7
  <2>2. b \notin V(a) /\ a \notin V(b)
    BY <1>2, <1>7
  <2>3. V(a) = V(b)
    BY <2>1, <2>2, <1>1, <1>5
  <2>4. ClosedUnder(succ, V(a))
    <3> SUFFICES ASSUME NEW x \in V(a), NEW c \in succ[x] \intersect L PROVE c \in V(a)
      BY DEF ClosedUnder
    <3>1. CASE c # a
      BY <3>1, <2>1, <1>1, <1>4
    <3>2. CASE c = a
      BY <3>2, <2>1, <2>3, <1>1, <1>4
    <3> QED
      BY <3>1, <3>2
  <2>5. R \subseteq V(a)
    BY <2>1, <2>4, <1>1, <1>4
  <2> QED
    BY <2>2, <2>5
<1>8. ASSUME NEW c \in R, NEW a \in E[c], NEW b \in E[c], a \notin E[b], b \notin E[a]
      PROVE  FALSE
  <2>1. a \in R /\ b \in R /\ c \notin V(a) /\ c \notin V(b)
    BY <1>2
  <2>2. a # labels[1] /\ b # labels[1]
    BY <2>1, <1>3, <1>8
  <2>3. b \in V(a) /\ a \in V(b)
    BY <2>1, <1>2, <1>8
  <2> DEFINE X == V(a) \union V(b)
  <2>4. ClosedUnder(succ, X)
    <3> SUFFICES ASSUME NEW x \in X, NEW d \in succ[x] \intersect L PROVE d \in X
      BY DEF ClosedUnder
    <3>1. CASE d = a \/ d = b
      BY <3>1, <2>3
    <3>2. CASE d # a /\ d # b
      BY <3>2, <2>1, <2>2, <1>1, <1>4
    <3> QED
      BY <3>1, <3>2
  <2>5. labels[1] \in X
    BY <2>1, <2>2, <1>1, <1>4
  <2> QED
    BY <2>1, <2>4, <2>5, <1>1
<1> QED
  BY <1>6, <1>7, <1>8 DEF R, E

\* Every block reached but the entry has one immediate dominator, with fewer
\* dominators than the block; other blocks have none.
LEMMA OneImmediateDominator ==
  ASSUME NEW labels, NEW succ, Graph(labels, succ)
  PROVE  LET R == ReachableBlocks(labels, succ)
             E == Exact(labels, succ)
         IN  /\ \A b \in R \ {labels[1]} : \E s \in R :
                  /\ ImmediateDominators(E, b) = {s}
                  /\ Cardinality(E[s]) < Cardinality(E[b])
             /\ \A b \in DOMAIN succ : b \notin R \/ b = labels[1] => ImmediateDominators(E, b) = {}
<1> DEFINE L == DOMAIN succ
           R == ReachableBlocks(labels, succ)
           E == Exact(labels, succ)
<1>1. /\ E[labels[1]] = {labels[1]}
      /\ \A b \in L : b \in E[b] /\ E[b] \subseteq L
      /\ \A b \in R : labels[1] \in E[b] /\ E[b] \subseteq R
      /\ \A b \in L \ R : E[b] = {b}
  BY ExactFacts
<1>2. /\ \A c \in R : \A b \in E[c] : E[b] \subseteq E[c]
      /\ \A a, b \in R : a \in E[b] /\ b \in E[a] => a = b
      /\ \A c \in R : \A a, b \in E[c] : a \in E[b] \/ b \in E[a]
  BY DominanceOrder
<1>3. R \subseteq L /\ labels[1] \in R /\ labels[1] \in L
  BY ReachFacts
<1> HIDE DEF R, E
<1>4. \A b \in L : IsFiniteSet(E[b]) /\ Cardinality(E[b]) \in Nat /\ Cardinality(E[b]) <= Cardinality(L)
  <2>1. IsFiniteSet(L)
    BY DEF Graph
  <2> QED
    BY <2>1, <1>1, FS_Subset, FS_CardinalityType
<1>5. ASSUME NEW b \in R \ {labels[1]}
      PROVE  \E s \in R : /\ ImmediateDominators(E, b) = {s}
                          /\ Cardinality(E[s]) < Cardinality(E[b])
  <2> DEFINE strict == E[b] \ {b}
             sizes == {Cardinality(E[x]) : x \in strict}
  <2>1. labels[1] \in strict /\ strict \subseteq R
    BY <1>1
  <2>2. sizes \subseteq Nat /\ sizes # {} /\ \A m \in sizes : m <= Cardinality(L)
    BY <2>1, <1>3, <1>4
  <2>3. Cardinality(L) \in Nat
    BY FS_CardinalityType DEF Graph
  <2>4. PICK m \in sizes : \A k \in sizes : k <= m
    <3> HIDE DEF sizes
    <3> QED
      BY <2>2, <2>3, GreatestNat
  <2>5. PICK s \in strict : m = Cardinality(E[s])
    BY <2>4
  <2>6. s \in R /\ s \in E[b] /\ s # b
    BY <2>1
\* The strict dominator with the most dominators is dominated by the others.
  <2>7. ASSUME NEW t \in strict PROVE t \in E[s]
    <3>1. t \in E[s] \/ s \in E[t]
      BY <1>2
    <3>2. CASE s \in E[t]
      <4>1. t \in R /\ t \in L /\ s \in L
        BY <2>1, <2>6, <1>3
      <4>2. E[s] \subseteq E[t] /\ Cardinality(E[t]) <= Cardinality(E[s])
        BY <4>1, <3>2, <1>2, <2>4, <2>5
      <4>3. Cardinality(E[s]) <= Cardinality(E[t])
            /\ (Cardinality(E[t]) = Cardinality(E[s]) => E[t] = E[s])
        BY <4>1, <4>2, <1>4, FS_Subset
      <4>4. E[t] = E[s]
        BY <4>1, <4>2, <4>3, <1>4
      <4> QED
        BY <4>1, <4>4, <1>1
    <3> QED
      BY <3>1, <3>2
  <2>8. s \in ImmediateDominators(E, b)
    BY <2>7 DEF ImmediateDominators
  <2>9. ASSUME NEW t \in ImmediateDominators(E, b) PROVE t = s
    <3>1. t \in strict /\ s \in E[t] /\ t \in E[s]
      BY <2>7 DEF ImmediateDominators
    <3> QED
      BY <3>1, <2>1, <2>6, <1>2
  <2>10. Cardinality(E[s]) < Cardinality(E[b])
    <3>1. E[s] \subseteq E[b]
      BY <2>6, <1>2
    <3>2. b \notin E[s] /\ b \in E[b]
      BY <2>6, <1>1, <1>2, <1>3
    <3>3. Cardinality(E[s]) <= Cardinality(E[b])
          /\ (Cardinality(E[b]) = Cardinality(E[s]) => E[b] = E[s])
      BY <3>1, <1>3, <1>4, FS_Subset
    <3> QED
      BY <3>2, <3>3, <2>6, <1>3, <1>4
  <2> QED
    BY <2>6, <2>8, <2>9, <2>10
<1>6. ASSUME NEW b \in L, b \notin R \/ b = labels[1] PROVE ImmediateDominators(E, b) = {}
  BY <1>1, <1>6 DEF ImmediateDominators
<1> QED
  BY <1>5, <1>6 DEF R, E

\* The tree of the true dominators.
LEMMA ExactTree ==
  ASSUME NEW labels, NEW succ, Graph(labels, succ), NEW tree,
         tree = [a \in DOMAIN succ |-> Children(Exact(labels, succ), a)]
  PROVE  LET R == ReachableBlocks(labels, succ)
         IN  /\ ReachableBlocks(labels, tree) = R
             /\ \A b \in DOMAIN succ :
                  Cardinality({a \in DOMAIN succ : b \in tree[a]})
                    = IF b \in R \ {labels[1]} THEN 1 ELSE 0
<1> DEFINE L == DOMAIN succ
           R == ReachableBlocks(labels, succ)
           E == Exact(labels, succ)
           T == ReachableBlocks(labels, tree)
<1>1. /\ \A b \in R \ {labels[1]} : \E s \in R :
            ImmediateDominators(E, b) = {s} /\ Cardinality(E[s]) < Cardinality(E[b])
      /\ \A b \in L : b \notin R \/ b = labels[1] => ImmediateDominators(E, b) = {}
  BY OneImmediateDominator
<1>2. R \subseteq L /\ labels[1] \in R
  BY ReachFacts
<1>3. DOMAIN tree = L /\ DOMAIN E = L
  BY DEF Exact
<1>4. \A a \in L : tree[a] = {b \in L : a \in ImmediateDominators(E, b)}
  BY <1>3 DEF Children
<1>5. Graph(labels, tree)
  BY <1>3 DEF Graph
<1>6. /\ labels[1] \in T /\ T \subseteq L /\ ClosedUnder(tree, T)
      /\ \A X : labels[1] \in X /\ ClosedUnder(tree, X) => T \subseteq X
  <2>1. LET Q == ReachableBlocks(labels, tree)
        IN  /\ labels[1] \in Q /\ Q \subseteq DOMAIN tree /\ ClosedUnder(tree, Q)
            /\ \A X : labels[1] \in X /\ ClosedUnder(tree, X) => Q \subseteq X
    BY <1>5, ReachFacts
  <2> QED
    BY <2>1, <1>3
<1>7. \A b \in L : Cardinality(E[b]) \in Nat
  <2>1. \A b \in L : E[b] \subseteq L
    BY ExactFacts
  <2>2. IsFiniteSet(L)
    BY DEF Graph
  <2> QED
    BY <2>1, <2>2, FS_Subset, FS_CardinalityType
<1> HIDE DEF R, E, T
<1>8. T \subseteq R
  <2>1. ClosedUnder(tree, R)
    BY <1>1, <1>3, <1>4 DEF ClosedUnder
  <2> QED
    BY <2>1, <1>2, <1>6
\* Otherwise the block with the fewest dominators that is missing has a parent.
<1>9. R \subseteq T
  <2> SUFFICES ASSUME R \ T # {} PROVE FALSE
    OBVIOUS
  <2> DEFINE sizes == {Cardinality(E[b]) : b \in R \ T}
  <2>1. sizes \subseteq Nat /\ sizes # {}
    BY <1>2, <1>7
  <2>2. PICK m \in sizes : \A k \in sizes : m <= k
    <3> HIDE DEF sizes
    <3> QED
      BY <2>1, LeastNat
  <2>3. PICK b \in R \ T : m = Cardinality(E[b])
    BY <2>2
  <2>4. b # labels[1]
    BY <1>6
  <2>5. PICK s \in R : ImmediateDominators(E, b) = {s} /\ Cardinality(E[s]) < Cardinality(E[b])
    BY <2>3, <2>4, <1>1
  <2>6. s \in T
    <3> SUFFICES ASSUME s \notin T PROVE FALSE
      OBVIOUS
    <3>1. Cardinality(E[s]) \in sizes
      OBVIOUS
    <3>2. Cardinality(E[b]) <= Cardinality(E[s])
      BY <3>1, <2>2, <2>3
    <3> QED
      BY <3>2, <2>3, <2>5, <1>2, <1>7
  <2>7. b \in tree[s] \intersect L
    BY <2>3, <2>5, <1>2, <1>4
  <2>8. s \in L
    BY <1>2
  <2>9. b \in T
    BY <2>6, <2>7, <2>8, <1>3, <1>6 DEF ClosedUnder
  <2> QED
    BY <2>3, <2>9
<1>10. ASSUME NEW b \in L
       PROVE  Cardinality({a \in L : b \in tree[a]}) = IF b \in R \ {labels[1]} THEN 1 ELSE 0
  <2>1. {a \in L : b \in tree[a]} = ImmediateDominators(E, b) \intersect L
    BY <1>4
  <2>2. CASE b \in R \ {labels[1]}
    <3>1. PICK s \in R : ImmediateDominators(E, b) = {s}
      BY <2>2, <1>1
    <3>2. {a \in L : b \in tree[a]} = {s}
      BY <2>1, <3>1, <1>2
    <3> QED
      BY <2>2, <3>2, FS_Singleton
  <2>3. CASE b \notin R \ {labels[1]}
    <3>1. {a \in L : b \in tree[a]} = {}
      BY <2>1, <2>3, <1>1
    <3> QED
      BY <2>3, <3>1, FS_EmptySet
  <2> QED
    BY <2>2, <2>3
<1> QED
  BY <1>8, <1>9, <1>10 DEF R, T

\* On every graph, with blocks that are not reached, loops with more than one
\* way in and branches back to the entry: the rounds end, and what they end in
\* is the dominators of the docstring of compute_dominators; the immediate
\* dominators of dominator.py make one tree of the blocks reached.
THEOREM ComputeDominatorsRight ==
  ASSUME NEW labels, NEW succ, Graph(labels, succ)
  PROVE  DominatorsRight(labels, succ) /\ TreeRight(labels, succ)
<1> DEFINE R == ReachableBlocks(labels, succ)
           E == Exact(labels, succ)
           dom == ComputeDominators(labels, succ)
           tree == [a \in DOMAIN succ |-> Children(E, a)]
           avoiding == [a \in DOMAIN succ |-> ReachedAvoiding(labels, succ, a)]
<1>1. dom = E
  BY ComputeDominatorsExact
<1>2. \A b \in DOMAIN succ : E[b] = IF b \in R THEN {a \in R : b \notin avoiding[a]} ELSE {b}
  <2>1. R \subseteq DOMAIN succ
    BY ReachFacts
  <2>2. \A a \in R : avoiding[a] = ReachedAvoiding(labels, succ, a)
    BY <2>1
  <2> HIDE DEF avoiding, R
  <2>3. \A b \in DOMAIN succ :
          E[b] = IF b \in R THEN {a \in R : b \notin ReachedAvoiding(labels, succ, a)} ELSE {b}
    BY DEF Exact, R
  <2> QED
    BY <2>2, <2>3
<1>3. /\ ReachableBlocks(labels, tree) = R
      /\ \A b \in DOMAIN succ :
           Cardinality({a \in DOMAIN succ : b \in tree[a]}) = IF b \in R \ {labels[1]} THEN 1 ELSE 0
  <2>1. tree = [a \in DOMAIN succ |-> Children(E, a)]
    OBVIOUS
  <2> HIDE DEF tree
  <2> QED
    BY <2>1, ExactTree
<1>4. DominatorsRight(labels, succ)
  BY <1>1, <1>2 DEF DominatorsRight
<1>5. TreeRight(labels, succ)
  BY <1>1, <1>3 DEF TreeRight
<1> QED
  BY <1>4, <1>5
=============================================================================
