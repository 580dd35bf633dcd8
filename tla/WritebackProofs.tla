--------------------------- MODULE WritebackProofs ---------------------------
(***************************************************************************)
(* CopySequencing for any variables and any jobs: with a right tracing and *)
(* no use of the cycle fallback no copy reads a clobbered register, jobs   *)
(* that have an order never use it, and then the sequence of copies        *)
(* implements ParallelCopy.                                                *)
(*                                                                         *)
(* Writeback for any variables and any assignments to them: _root and      *)
(* identity_fold find the register that holds what the source program has  *)
(* put into a variable, so the first body is written back right.           *)
(***************************************************************************)
EXTENDS Writeback, Induction, TLAPS

USE JobAssumption

\* The parts of the state that the copies depend on, whichever the job.
Typed ==
  /\ job.pending \subseteq Vars
  /\ job.reads \in [Vars -> Registers]
  /\ remaining \subseteq job.pending
  /\ regs \in [Registers -> Registers]

\* Registers that no emitted copy has written keep their first content.
Untouched == \A r \in Registers \ (job.pending \ remaining) : regs[r] = r

\* What SourcesIntact says of jobs that are traced right.
Intact ==
  /\ \A v \in remaining : regs[job.reads[v]] = job.reads[v]
  /\ \A v \in job.pending \ remaining : regs[v] = job.reads[v]

IInv == TypeOK /\ Untouched /\ SourcesIntact /\ ForcedOnlyInCycles

\* At the start of a writeback every register holds what it held (parser.py:337-338).
LEMMA InitIInv == Init => IInv
  BY DEF Init, IInv, TypeOK, Untouched, SourcesIntact, ForcedOnlyInCycles, Registers

\* The part of the types the lemmas about one copy need.
LEMMA TypeOKTyped == TypeOK => Typed
  BY DEF TypeOK, Typed, Registers

\* One copy, whichever it is, as a write of one register.
LEMMA EmitFacts ==
  ASSUME Typed, NEW v \in remaining, Emit(v)
  PROVE  /\ job' = job /\ job.pending \subseteq Vars
         /\ job.reads[v] \in Registers /\ v \in Registers
         /\ remaining' = remaining \ {v}
         /\ regs' \in [Registers -> Registers]
         /\ regs'[v] = regs[job.reads[v]]
         /\ \A r \in Registers : r # v => regs'[r] = regs[r]
  BY DEF Typed, Emit, Registers

\* A copy writes its own register only; the others hold what they held.
LEMMA EmitUntouched ==
  ASSUME Typed, Untouched, NEW v \in remaining, Emit(v)
  PROVE  Untouched'
<1>1. /\ job' = job /\ remaining' = remaining \ {v}
      /\ \A r \in Registers : r # v => regs'[r] = regs[r]
  BY EmitFacts
<1>2. v \in job.pending
  BY DEF Typed
<1>3. SUFFICES ASSUME NEW r \in Registers, r \notin job.pending \ (remaining \ {v})
               PROVE  regs'[r] = r
  BY <1>1 DEF Untouched, Registers
<1>4. r # v /\ r \notin job.pending \ remaining
  BY <1>2, <1>3
<1> QED
  BY <1>1, <1>4 DEF Untouched

\* A copy that writes what no other one reads leaves them intact.
LEMMA EmitIntact ==
  ASSUME Typed, Intact, NEW v \in remaining, Emit(v),
         \A u \in remaining \ {v} : job.reads[u] # v
  PROVE  Intact'
<1>1. /\ job' = job /\ job.pending \subseteq Vars
      /\ job.reads[v] \in Registers /\ v \in Registers
      /\ remaining' = remaining \ {v}
      /\ regs' \in [Registers -> Registers]
      /\ regs'[v] = regs[job.reads[v]]
      /\ \A r \in Registers : r # v => regs'[r] = regs[r]
  BY EmitFacts
<1>2. ASSUME NEW u \in remaining \ {v}
      PROVE  regs'[job.reads[u]] = job.reads[u]
  <2>1. u \in job.pending /\ job.reads[u] \in Registers
    BY DEF Typed
  <2> QED
    BY <1>1, <2>1 DEF Intact
<1>3. ASSUME NEW u \in job.pending \ (remaining \ {v})
      PROVE  regs'[u] = job.reads[u]
  <2>1. CASE u = v
    BY <1>1, <2>1 DEF Intact
  <2>2. CASE u # v
    BY <1>1, <2>2 DEF Registers, Intact
  <2> QED
    BY <2>1, <2>2
<1> QED
  BY <1>1, <1>2, <1>3 DEF Intact

\* A safe copy leaves what the others read alone.
LEMMA EmitSafeInv ==
  ASSUME IInv, NEW v \in remaining, EmitSafe(v)
  PROVE  IInv'
<1>1. TypeOK /\ Emit(v) /\ Safe(v) /\ forced' = forced
  BY DEF IInv, EmitSafe
<1>2. /\ job' = job /\ job.pending \subseteq Vars
      /\ job.reads[v] \in Registers /\ v \in Registers
      /\ remaining' = remaining \ {v}
      /\ regs' \in [Registers -> Registers]
      /\ regs'[v] = regs[job.reads[v]]
      /\ \A r \in Registers : r # v => regs'[r] = regs[r]
  BY <1>1, EmitFacts, TypeOKTyped
<1>3. TypeOK'
  BY <1>1, <1>2 DEF TypeOK
<1>4. Untouched'
  BY <1>1, EmitUntouched, TypeOKTyped DEF IInv
<1>5. SourcesIntact'
  <2>1. SUFFICES ASSUME TracedRight(job), ~forced
                 PROVE  /\ \A u \in remaining \ {v} : regs'[job.reads[u]] = job.reads[u]
                        /\ \A u \in job.pending \ (remaining \ {v}) : regs'[u] = job.reads[u]
    BY <1>1, <1>2 DEF SourcesIntact, TracedRight
  <2>2. Intact
    BY <2>1 DEF IInv, SourcesIntact, Intact
  <2>3. \A u \in remaining \ {v} : job.reads[u] # v
    BY <1>1, <2>1, TypeOKTyped DEF Safe, TracedRight, Typed
  <2>4. Intact'
    BY <1>1, <2>2, <2>3, EmitIntact, TypeOKTyped
  <2> QED
    BY <1>2, <2>4 DEF Intact
<1>6. ForcedOnlyInCycles'
  BY <1>1, <1>2 DEF IInv, ForcedOnlyInCycles, Orderable
<1> QED
  BY <1>3, <1>4, <1>5, <1>6 DEF IInv

\* The fallback is reached with pending copies that block one another.
LEMMA EmitFromCycleInv ==
  ASSUME IInv, NEW v \in remaining, EmitFromCycle(v)
  PROVE  IInv'
<1>1. TypeOK /\ Emit(v) /\ forced' = TRUE
  BY DEF IInv, EmitFromCycle
<1>2. /\ job' = job
      /\ remaining' = remaining \ {v}
      /\ regs' \in [Registers -> Registers]
  BY <1>1, EmitFacts, TypeOKTyped
<1>3. TypeOK'
  BY <1>1, <1>2 DEF TypeOK
<1>4. Untouched'
  BY <1>1, EmitUntouched, TypeOKTyped DEF IInv
<1>5. SourcesIntact'
  BY <1>1 DEF SourcesIntact
<1>6. ~Orderable(job)
  BY <1>1 DEF EmitFromCycle, Safe, Orderable, TypeOK
<1>7. ForcedOnlyInCycles'
  BY <1>2, <1>6 DEF ForcedOnlyInCycles, Orderable
<1> QED
  BY <1>3, <1>4, <1>5, <1>7 DEF IInv

\* Both kinds of copies, safe and forced, keep the invariant.
LEMMA NextIInv == IInv /\ [Next]_copyVars => IInv'
<1> SUFFICES ASSUME IInv, [Next]_copyVars
             PROVE  IInv'
  OBVIOUS
<1>1. ASSUME NEW v \in remaining, EmitSafe(v) PROVE IInv'
  BY <1>1, EmitSafeInv
<1>2. ASSUME NEW v \in remaining, EmitFromCycle(v) PROVE IInv'
  BY <1>2, EmitFromCycleInv
<1>3. CASE UNCHANGED copyVars
  BY <1>3 DEF copyVars, IInv, TypeOK, Untouched, SourcesIntact, ForcedOnlyInCycles,
              TracedRight, Orderable, Registers
<1> QED
  BY <1>1, <1>2, <1>3 DEF Next

\* So it holds while copies are pending, and after.
LEMMA Invariance == Spec => []IInv
  BY InitIInv, NextIInv, PTL DEF Spec

\* The state of a writeback is what it is meant to be.
THEOREM TypeCorrect == Spec => []TypeOK
<1>1. IInv => TypeOK
  BY DEF IInv
<1> QED
  BY <1>1, Invariance, PTL

\* No copy that is still to be emitted finds its source clobbered, and every
\* emitted one got the old content of its source, for any number of variables.
THEOREM SourcesIntactAlways == Spec => []SourcesIntact
<1>1. IInv => SourcesIntact
  BY DEF IInv
<1> QED
  BY <1>1, Invariance, PTL

\* Copies that have an order are always emitted in one.
THEOREM ForcedOnlyInCyclesAlways == Spec => []ForcedOnlyInCycles
<1>1. IInv => ForcedOnlyInCycles
  BY DEF IInv
<1> QED
  BY <1>1, Invariance, PTL

-----------------------------------------------------------------------------
\* The registers and the flag that the abstract writeback sees.
AbsRegs == IF remaining = {} THEN regs ELSE [x \in Registers |-> x]
AbsCopied == remaining = {} /\ job.pending # {}

\* The start of a sequence of copies is the start of the parallel assignment.
LEMMA InitRefines == Init => Parallel!Init
  BY DEF Init, Parallel!Init, Registers

\* The last copy is the abstract one, the others are steps in between.
LEMMA EmitRefines ==
  ASSUME IInv, IInv', NEW v \in remaining, Emit(v)
  PROVE  Parallel!Copy \/ UNCHANGED <<job, AbsRegs, AbsCopied>>
<1>1. /\ job' = job /\ remaining' = remaining \ {v}
      /\ regs' \in [Registers -> Registers]
  BY EmitFacts, TypeOKTyped DEF IInv
<1>2. CASE remaining' # {}
  BY <1>1, <1>2 DEF AbsRegs, AbsCopied, Registers
<1>3. CASE remaining' = {}
  <2>1. job.pending # {} /\ job.pending \subseteq Vars /\ job.reads \in [Vars -> Registers]
    BY DEF IInv, TypeOK, Registers
  <2>2. ~AbsCopied /\ AbsCopied'
    BY <1>1, <1>3, <2>1 DEF AbsCopied
  <2>3. AbsCopied' = TRUE
    BY <2>2 DEF AbsCopied
  <2>4. ASSUME TracedRight(job), Orderable(job)
        PROVE  AbsRegs' = [x \in Registers |-> IF x \in job.pending THEN AbsRegs[job.reads[x]]
                                                                    ELSE AbsRegs[x]]
    <3>1. ~forced'
      BY <1>1, <2>4 DEF IInv, ForcedOnlyInCycles, Orderable
    <3>2. \A r \in job.pending : regs'[r] = job.reads[r]
      BY <1>1, <1>3, <2>4, <3>1 DEF IInv, SourcesIntact, TracedRight
    <3>3. \A r \in Registers \ job.pending : regs'[r] = r
      BY <1>1, <1>3 DEF IInv, Untouched, Registers
    <3>4. regs' = [x \in Registers |-> IF x \in job.pending THEN job.reads[x] ELSE x]
      BY <1>1, <3>2, <3>3 DEF Registers
    <3>5. AbsRegs = [x \in Registers |-> x] /\ AbsRegs' = regs'
      BY <1>3 DEF AbsRegs
    <3>6. \A x \in job.pending : job.reads[x] \in Registers
      BY <2>1
    <3> QED
      BY <3>4, <3>5, <3>6
  <2> QED
    BY <1>1, <2>2, <2>3, <2>4 DEF Parallel!Copy, AbsRegs, AbsCopied, Registers
<1> QED
  BY <1>2, <1>3

\* The sequence of copies is one parallel copy, which does what the source
\* program asked for in every job that can be ordered and that _root traces
\* right.
THEOREM SequenceRefines == Spec => SequenceIsParallel
<1>1. IInv /\ IInv' /\ [Next]_copyVars => [Parallel!Copy]_<<job, AbsRegs, AbsCopied>>
  <2> SUFFICES ASSUME IInv, IInv', [Next]_copyVars
               PROVE  Parallel!Copy \/ UNCHANGED <<job, AbsRegs, AbsCopied>>
    OBVIOUS
  <2>1. ASSUME NEW v \in remaining, EmitSafe(v) \/ EmitFromCycle(v)
        PROVE  Parallel!Copy \/ UNCHANGED <<job, AbsRegs, AbsCopied>>
    BY <2>1, EmitRefines DEF EmitSafe, EmitFromCycle
  <2>2. CASE UNCHANGED copyVars
    BY <2>2 DEF copyVars, AbsRegs, AbsCopied, Registers
  <2> QED
    BY <2>1, <2>2 DEF Next
<1> QED
  BY <1>1, Invariance, InitRefines, PTL
     DEF Spec, SequenceIsParallel, Parallel!Spec, AbsRegs, AbsCopied

-----------------------------------------------------------------------------
(***************************************************************************)
(* Writeback: what a value stands for.                                     *)
(***************************************************************************)
N == Cardinality(Registers)

\* end is where the copies of a value lead to, and rank bounds their number.
Traced(end, rank) ==
  /\ end \in [Registers -> Registers] /\ rank \in [Registers -> Nat]
  /\ \A x \in Registers : chain[x] = None => end[x] = x
  /\ \A x \in Registers : chain[x] # None =>
       chain[x] \in Registers /\ end[x] = end[chain[x]] /\ rank[chain[x]] < rank[x]

\* There are finitely many registers, so a walk along copies has a bound.
LEMMA RegistersFinite == IsFiniteSet(Registers) /\ N \in Nat
<1>1. IsFiniteSet(Registers)
  BY WritebackAssumption, FS_Union DEF Registers, Temps
<1> QED
  BY <1>1, FS_CardinalityType DEF N

Walk == [at : Registers, seen : SUBSET Registers]

\* _root follows the copies to their end: no value is met again before that,
\* because the ranks fall.
LEMMA RootFound ==
  ASSUME NEW end, NEW rank, Traced(end, rank), NEW x \in Registers, rank[x] <= N
  PROVE  Root(x) = end[x]
<1> DEFINE step(prev) ==
             IF prev.at \in prev.seen \/ chain[prev.at] = None THEN prev
             ELSE [at |-> chain[prev.at], seen |-> prev.seen \union {prev.at}]
           start == [at |-> x, seen |-> {}]
           D == [p \in Walk \X (1..N) |-> step(p[1])]
           Is(f) == f = [n \in 0..N |-> IF n = 0 THEN start ELSE step(f[n - 1])]
           walk == CHOOSE f : Is(f)
<1>1. N \in Nat
  BY RegistersFinite
<1>2. start \in Walk
  BY DEF Walk
<1>3. ASSUME NEW w \in Walk PROVE step(w) \in Walk
  <2>1. CASE w.at \in w.seen \/ chain[w.at] = None
    BY <2>1
  <2>2. CASE ~(w.at \in w.seen \/ chain[w.at] = None)
    <3>1. w.at \in Registers /\ w.seen \subseteq Registers
      BY DEF Walk
    <3>2. chain[w.at] \in Registers
      BY <2>2, <3>1 DEF Traced
    <3>3. step(w) = [at |-> chain[w.at], seen |-> w.seen \union {w.at}]
      BY <2>2
    <3> QED
      BY <3>1, <3>2, <3>3 DEF Walk
  <2> QED
    BY <2>1, <2>2
<1> HIDE DEF step
<1>4. D \in [Walk \X (1..N) -> Walk]
  BY <1>3
<1>5. \A w \in Walk, n \in 1..N : D[<<w, n>>] = step(w)
  OBVIOUS
<1> HIDE DEF D, start
<1>6. PICK g \in [0..N -> Walk] : Recursive(N, start, D, g)
  BY <1>1, <1>2, <1>4, RecursionExists
<1>7. ASSUME NEW n \in 0..N PROVE g[n] = IF n = 0 THEN start ELSE step(g[n - 1])
  <2>1. CASE n = 0
    BY <1>1, <1>6, <2>1 DEF Recursive
  <2>2. CASE n # 0
    <3>1. n \in 1..N /\ n - 1 \in 0..N
      BY <1>1, <2>2
    <3>2. g[n] = D[<<g[n - 1], n>>] /\ g[n - 1] \in Walk
      BY <1>6, <2>2, <3>1 DEF Recursive
    <3> QED
      BY <2>2, <3>1, <3>2, <1>5
  <2> QED
    BY <2>1, <2>2
<1>8. Is(g)
  BY <1>7
<1>9. Is(walk)
  BY <1>8
<1>10. Root(x) = walk[N].at
  BY DEF Root, N, step, start
<1> HIDE DEF walk
<1>11. \A n \in 0..N : walk[n] = IF n = 0 THEN start ELSE step(walk[n - 1])
  BY <1>9
<1> HIDE DEF Is
\* The walk is at a value with the same end that has not been met before, and
\* has gone down one rank at every step.
<1> DEFINE w(n) == walk[n]
           Good == {n \in 0..N :
             /\ w(n).at \in Registers /\ end[w(n).at] = end[x]
             /\ chain[w(n).at] = None \/ rank[w(n).at] + n <= rank[x]
             /\ \A y \in w(n).seen : y \in Registers /\ rank[w(n).at] < rank[y]}
<1>12. 0 \in Good
  <2>1. w(0) = start /\ 0 \in 0..N
    BY <1>1, <1>11
  <2>2. rank[x] \in Nat
    BY DEF Traced
  <2> QED
    BY <2>1, <2>2 DEF start
<1>13. ASSUME NEW n \in 0..N, n \in Good, n < N PROVE n + 1 \in Good
  <2>1. n + 1 \in 0..N /\ n + 1 # 0 /\ (n + 1) - 1 = n
    BY <1>1, <1>13
  <2>2. w(n + 1) = step(w(n))
    BY <1>11, <2>1
  <2> DEFINE at == w(n).at
  <2>3. /\ at \in Registers /\ end[at] = end[x]
        /\ chain[at] = None \/ rank[at] + n <= rank[x]
        /\ \A y \in w(n).seen : y \in Registers /\ rank[at] < rank[y]
    BY <1>13
  <2>4. CASE chain[at] = None
    <3>1. w(n + 1) = w(n)
      BY <2>2, <2>4 DEF step
    <3> QED
      BY <2>1, <2>3, <2>4, <3>1
  <2>5. CASE chain[at] # None
    <3>1. at \notin w(n).seen
      BY <2>3 DEF Traced
    <3>2. w(n + 1) = [at |-> chain[at], seen |-> w(n).seen \union {at}]
      BY <2>2, <2>5, <3>1 DEF step
    <3>3. /\ chain[at] \in Registers /\ end[at] = end[chain[at]]
          /\ rank[chain[at]] < rank[at] /\ rank[chain[at]] \in Nat /\ rank[at] \in Nat
          /\ rank[x] \in Nat
      BY <2>3, <2>5 DEF Traced
    <3>4. w(n + 1).at = chain[at] /\ w(n + 1).seen = w(n).seen \union {at}
      BY <3>2
    <3>5. rank[chain[at]] + (n + 1) <= rank[x]
      BY <2>3, <2>5, <3>3
    <3>6. ASSUME NEW y \in w(n + 1).seen PROVE y \in Registers /\ rank[chain[at]] < rank[y]
      <4>1. CASE y = at
        BY <2>3, <3>3, <4>1
      <4>2. CASE y # at
        <5>1. y \in Registers /\ rank[at] < rank[y]
          BY <2>3, <3>4, <4>2
        <5>2. rank[y] \in Nat
          BY <5>1 DEF Traced
        <5> QED
          BY <5>1, <5>2, <3>3
      <4> QED
        BY <4>1, <4>2
    <3> HIDE DEF w, at
    <3> QED
      BY <2>1, <2>3, <3>3, <3>4, <3>5, <3>6
  <2> QED
    BY <2>4, <2>5
<1> HIDE DEF Good
<1>14. N \in Good
  <2>1. \A n \in 0..N : n \in Good /\ n < N => n + 1 \in Good
    BY <1>13
  <2>2. 0..N \subseteq Good
    BY <1>1, <1>12, <2>1, UpTo
  <2> QED
    BY <1>1, <2>2
<1>15. /\ w(N).at \in Registers /\ end[w(N).at] = end[x]
       /\ chain[w(N).at] = None \/ rank[w(N).at] + N <= rank[x]
  BY <1>14 DEF Good
<1>16. chain[w(N).at] = None
  <2> SUFFICES ASSUME chain[w(N).at] # None PROVE FALSE
    OBVIOUS
  <2>1. /\ rank[chain[w(N).at]] < rank[w(N).at] /\ rank[chain[w(N).at]] \in Nat
        /\ rank[w(N).at] \in Nat /\ rank[x] \in Nat
    BY <1>15 DEF Traced
  <2> QED
    BY <1>1, <1>15, <2>1
<1> QED
  BY <1>10, <1>15, <1>16 DEF Traced

\* identity_fold stops at canonical registers; as long as these are the copies
\* of nothing it finds the end of the copies as well.
LEMMA FoldedFound ==
  ASSUME NEW end, NEW rank, Traced(end, rank), NEW x \in Registers, rank[x] <= N,
         \A v \in Vars : chain[v] = None
  PROVE  Folded(x) = end[x]
<1> DEFINE step(prev) == IF prev \in Vars \/ chain[prev] = None THEN prev ELSE chain[prev]
           D == [p \in Registers \X (1..N) |-> step(p[1])]
           Is(f) == f = [n \in 0..N |-> IF n = 0 THEN x ELSE step(f[n - 1])]
           walk == CHOOSE f : Is(f)
<1>1. N \in Nat
  BY RegistersFinite
<1>2. \A r \in Registers : step(r) = IF chain[r] = None THEN r ELSE chain[r]
  OBVIOUS
<1>3. \A r \in Registers : step(r) \in Registers
  BY <1>2 DEF Traced
<1> HIDE DEF step
<1>4. D \in [Registers \X (1..N) -> Registers]
  BY <1>3
<1>5. \A r \in Registers, n \in 1..N : D[<<r, n>>] = step(r)
  OBVIOUS
<1> HIDE DEF D
<1>6. PICK g \in [0..N -> Registers] : Recursive(N, x, D, g)
  BY <1>1, <1>4, RecursionExists
<1>7. ASSUME NEW n \in 0..N PROVE g[n] = IF n = 0 THEN x ELSE step(g[n - 1])
  <2>1. CASE n = 0
    BY <1>1, <1>6, <2>1 DEF Recursive
  <2>2. CASE n # 0
    <3>1. n \in 1..N /\ n - 1 \in 0..N
      BY <1>1, <2>2
    <3>2. g[n] = D[<<g[n - 1], n>>] /\ g[n - 1] \in Registers
      BY <1>6, <2>2, <3>1 DEF Recursive
    <3> QED
      BY <2>2, <3>1, <3>2, <1>5
  <2> QED
    BY <2>1, <2>2
<1>8. Is(g)
  BY <1>7
<1>9. Is(walk)
  BY <1>8
<1>10. Folded(x) = walk[N]
  BY DEF Folded, N, step
<1> HIDE DEF walk
<1>11. \A n \in 0..N : walk[n] = IF n = 0 THEN x ELSE step(walk[n - 1])
  BY <1>9
<1> HIDE DEF Is
<1> DEFINE w(n) == walk[n]
           Good == {n \in 0..N :
             /\ w(n) \in Registers /\ end[w(n)] = end[x]
             /\ chain[w(n)] = None \/ rank[w(n)] + n <= rank[x]}
<1>12. 0 \in Good
  <2>1. w(0) = x /\ 0 \in 0..N
    BY <1>1, <1>11
  <2>2. rank[x] \in Nat
    BY DEF Traced
  <2> QED
    BY <2>1, <2>2
<1>13. ASSUME NEW n \in 0..N, n \in Good, n < N PROVE n + 1 \in Good
  <2>1. n + 1 \in 0..N /\ n + 1 # 0 /\ (n + 1) - 1 = n
    BY <1>1, <1>13
  <2>2. w(n + 1) = step(w(n))
    BY <1>11, <2>1
  <2>3. /\ w(n) \in Registers /\ end[w(n)] = end[x]
        /\ chain[w(n)] = None \/ rank[w(n)] + n <= rank[x]
    BY <1>13
  <2> HIDE DEF w
  <2>4. CASE chain[w(n)] = None
    <3>1. w(n + 1) = w(n)
      BY <1>2, <2>2, <2>3, <2>4
    <3> QED
      BY <2>1, <2>3, <2>4, <3>1
  <2>5. CASE chain[w(n)] # None
    <3>1. w(n + 1) = chain[w(n)]
      BY <1>2, <2>2, <2>3, <2>5
    <3>2. /\ chain[w(n)] \in Registers /\ end[w(n)] = end[chain[w(n)]]
          /\ rank[chain[w(n)]] < rank[w(n)] /\ rank[chain[w(n)]] \in Nat
          /\ rank[w(n)] \in Nat /\ rank[x] \in Nat
      BY <2>3, <2>5 DEF Traced
    <3>3. rank[chain[w(n)]] + (n + 1) <= rank[x]
      BY <2>3, <2>5, <3>2
    <3> QED
      BY <2>1, <2>3, <3>1, <3>2, <3>3
  <2> QED
    BY <2>4, <2>5
<1> HIDE DEF Good
<1>14. N \in Good
  <2>1. \A n \in 0..N : n \in Good /\ n < N => n + 1 \in Good
    BY <1>13
  <2>2. 0..N \subseteq Good
    BY <1>1, <1>12, <2>1, UpTo
  <2> QED
    BY <1>1, <2>2
<1>15. /\ w(N) \in Registers /\ end[w(N)] = end[x]
       /\ chain[w(N)] = None \/ rank[w(N)] + N <= rank[x]
  BY <1>14 DEF Good
<1>16. chain[w(N)] = None
  <2> SUFFICES ASSUME chain[w(N)] # None PROVE FALSE
    OBVIOUS
  <2>1. /\ rank[chain[w(N)]] < rank[w(N)] /\ rank[chain[w(N)]] \in Nat
        /\ rank[w(N)] \in Nat /\ rank[x] \in Nat
    BY <1>15 DEF Traced
  <2> QED
    BY <1>1, <1>15, <2>1
<1> QED
  BY <1>10, <1>15, <1>16 DEF Traced

-----------------------------------------------------------------------------
\* Until the end of the first body no register is written and no canonical
\* register is the copy of a value: what a variable holds in the source program
\* is in the register its current value comes from.
Assigned ==
  /\ regs = [x \in Registers |-> x]
  /\ forced = FALSE
  /\ fresh \subseteq Temps
  /\ chain \in [Registers -> Registers \union {None}]
  /\ binding \in [Vars -> Registers \ fresh]
  /\ content \in [Vars -> Registers]
  /\ \A v \in Vars : chain[v] = None
  /\ \A t \in fresh : chain[t] = None
  /\ \A x \in Registers : chain[x] \notin fresh
  /\ \E end, rank :
       /\ Traced(end, rank)
       /\ \A x \in Registers : rank[x] <= Cardinality(Temps \ fresh)
       /\ \A v \in Vars : content[v] = end[binding[v]]

\* While the copies of the first body are emitted.
Copying ==
  /\ Typed /\ Untouched
  /\ job.root = job.reads
  /\ \A v \in Vars : content[v] = job.reads[v]
  /\ \A v \in Vars \ job.pending : job.reads[v] = v
  /\ binding \in [Vars -> Registers]
  /\ \A v \in Vars \ remaining : binding[v] = v
  /\ phase = "body" /\ ~forced => Intact
  /\ phase = "for_inc" /\ InDeclOrder => Intact

WInv ==
  /\ phase \in {"stmts", "body", "for_inc"} /\ bodies \in Nat
  /\ phase = "stmts" /\ bodies = 0 => Assigned
  /\ phase # "stmts" /\ bodies = 0 => Copying

\* A value that is made now, of which nothing is a copy yet.
LEMMA NewValueFacts ==
  ASSUME Assigned, fresh # {}
  PROVE  /\ NewValue \in fresh /\ NewValue \in Registers /\ NewValue \notin Vars
         /\ chain[NewValue] = None
         /\ Cardinality(Temps \ fresh) \in Nat
         /\ Cardinality(Temps \ (fresh \ {NewValue})) = Cardinality(Temps \ fresh) + 1
<1>1. NewValue \in fresh
  BY DEF NewValue
<1>2. NewValue \in Temps /\ fresh \subseteq Temps /\ Temps \subseteq Registers
  BY <1>1 DEF Assigned, Registers, Temps
<1>3. IsFiniteSet(Temps \ fresh)
  BY WritebackAssumption, FS_Subset
<1>4. Temps \ (fresh \ {NewValue}) = (Temps \ fresh) \union {NewValue}
  BY <1>1, <1>2
<1>5. Cardinality((Temps \ fresh) \union {NewValue}) = Cardinality(Temps \ fresh) + 1
  BY <1>1, <1>3, FS_AddElement
<1> QED
  BY <1>1, <1>2, <1>3, <1>4, <1>5, FS_CardinalityType, WritebackAssumption DEF Assigned

\* A parser whose declarations copied nothing: every variable is its own end.
LEMMA InitWInv == Inits = {} /\ WbInit => WInv
<1> SUFFICES ASSUME Inits = {}, WbInit PROVE WInv
  OBVIOUS
<1> DEFINE end == [x \in Registers |-> x]
           rank == [x \in Registers |-> 0]
<1>1. chain \in [Registers -> {None}]
  BY DEF WbInit
<1>2. None \notin Registers /\ Vars \subseteq Registers /\ Vars \intersect Temps = {}
  BY WritebackAssumption DEF Registers
<1>3. fresh = Temps /\ binding = [v \in Vars |-> v] /\ content = [v \in Vars |-> v]
      /\ regs = [x \in Registers |-> x] /\ forced = FALSE
  BY DEF WbInit
<1>4. Traced(end, rank)
  BY <1>1 DEF Traced
<1>5. \A x \in Registers : rank[x] <= Cardinality(Temps \ fresh)
  <2>1. Temps \ fresh = {}
    BY <1>3
  <2> QED
    BY <2>1, FS_EmptySet
<1>6. \A v \in Vars : content[v] = end[binding[v]]
  BY <1>2, <1>3
<1>7. Temps \subseteq Registers
  BY DEF Temps, Registers
<1> HIDE DEF end, rank
<1>8. Assigned
  BY <1>1, <1>2, <1>3, <1>4, <1>5, <1>6, <1>7 DEF Assigned
<1>9. phase = "stmts" /\ bodies = 0
  BY DEF WbInit
<1> QED
  BY <1>8, <1>9 DEF WInv

\* A copy of the value of u: it leads where the value of u leads, from one rank
\* higher, and no older value leads through it.
LEMMA AssignCopyAssigned ==
  ASSUME Assigned, NEW v \in Vars, NEW u \in Vars, AssignCopy(v, u)
  PROVE  Assigned'
<1> PICK new : new = NewValue
  OBVIOUS
<1>1. /\ new \in fresh /\ new \in Registers /\ new \notin Vars
      /\ chain[new] = None
      /\ Cardinality(Temps \ fresh) \in Nat
      /\ Cardinality(Temps \ (fresh \ {new})) = Cardinality(Temps \ fresh) + 1
  BY NewValueFacts DEF AssignCopy
<1>2. /\ fresh' = fresh \ {new}
      /\ chain' = [chain EXCEPT ![new] = binding[u]]
      /\ binding' = [binding EXCEPT ![v] = new]
      /\ content' = [content EXCEPT ![v] = content[u]]
      /\ regs' = regs
  BY DEF AssignCopy, copyVars
<1>3. /\ fresh \subseteq Temps
      /\ chain \in [Registers -> Registers \union {None}]
      /\ binding \in [Vars -> Registers \ fresh]
      /\ content \in [Vars -> Registers]
      /\ \A r \in Vars : chain[r] = None
      /\ \A t \in fresh : chain[t] = None
      /\ \A x \in Registers : chain[x] \notin fresh
  BY DEF Assigned
<1>4. PICK end, rank :
        /\ Traced(end, rank)
        /\ \A x \in Registers : rank[x] <= Cardinality(Temps \ fresh)
        /\ \A r \in Vars : content[r] = end[binding[r]]
  BY DEF Assigned
<1> DEFINE from == binding[u]
           end1 == [end EXCEPT ![new] = end[from]]
           rank1 == [rank EXCEPT ![new] = rank[from] + 1]
<1>5. from \in Registers /\ from \notin fresh /\ from # new
  BY <1>1, <1>3
<1>6. /\ end \in [Registers -> Registers] /\ rank \in [Registers -> Nat]
  BY <1>4 DEF Traced
<1>7. /\ end1 \in [Registers -> Registers] /\ rank1 \in [Registers -> Nat]
      /\ end1[new] = end[from] /\ rank1[new] = rank[from] + 1
      /\ \A x \in Registers : x # new => end1[x] = end[x] /\ rank1[x] = rank[x]
  BY <1>1, <1>5, <1>6
<1>8. chain'[new] = from /\ \A x \in Registers : x # new => chain'[x] = chain[x]
  BY <1>1, <1>2, <1>3
<1> PICK e, k : e = end1 /\ k = rank1
  OBVIOUS
<1> HIDE DEF end1, rank1
<1>9. None \notin Registers
  BY WritebackAssumption
<1>10. Traced(e, k)'
  <2>1. ASSUME NEW x \in Registers, chain'[x] = None PROVE e[x] = x
    <3>1. x # new /\ chain[x] = None
      BY <2>1, <1>5, <1>8, <1>9
    <3> QED
      BY <3>1, <1>4, <1>7 DEF Traced
  <2>2. ASSUME NEW x \in Registers, chain'[x] # None
        PROVE  chain'[x] \in Registers /\ e[x] = e[chain'[x]] /\ k[chain'[x]] < k[x]
    <3>1. CASE x = new
      <4>1. e[from] = end[from] /\ k[from] = rank[from] /\ rank[from] \in Nat
        BY <1>5, <1>6, <1>7
      <4> QED
        BY <3>1, <4>1, <1>5, <1>7, <1>8
    <3>2. CASE x # new
      <4>1. chain'[x] = chain[x] /\ chain[x] # new
        BY <3>2, <1>1, <1>3, <1>8
      <4>2. chain[x] \in Registers /\ end[x] = end[chain[x]] /\ rank[chain[x]] < rank[x]
        BY <2>2, <4>1, <1>4 DEF Traced
      <4> QED
        BY <3>2, <4>1, <4>2, <1>7
    <3> QED
      BY <3>1, <3>2
  <2> QED
    BY <1>7, <2>1, <2>2 DEF Traced
<1>11. ASSUME NEW x \in Registers PROVE k[x] <= Cardinality(Temps \ (fresh \ {new}))
  <2>1. rank[x] <= Cardinality(Temps \ fresh) /\ rank[from] <= Cardinality(Temps \ fresh)
        /\ rank[x] \in Nat /\ rank[from] \in Nat
    BY <1>4, <1>5, <1>6
  <2>2. k[x] = rank[x] \/ k[x] = rank[from] + 1
    BY <1>7
  <2> QED
    BY <2>1, <2>2, <1>1
<1>12. ASSUME NEW r \in Vars PROVE content'[r] = e[binding'[r]]
  <2>1. content[r] = end[binding[r]] /\ content[u] = end[from] /\ binding[r] \in Registers
        /\ binding[r] # new
    BY <1>1, <1>3, <1>4
  <2>2. content'[v] = content[u] /\ \A q \in Vars : q # v => content'[q] = content[q]
    BY <1>2, <1>3
  <2>3. binding'[v] = new /\ \A q \in Vars : q # v => binding'[q] = binding[q]
    BY <1>2, <1>3
  <2> QED
    BY <2>1, <2>2, <2>3, <1>7
<1>13. /\ binding' \in [Vars -> Registers \ fresh'] /\ fresh' \subseteq Temps
       /\ chain' \in [Registers -> Registers \union {None}]
       /\ content' \in [Vars -> Registers]
       /\ \A r \in Vars : chain'[r] = None
       /\ \A t \in fresh' : chain'[t] = None
       /\ \A x \in Registers : chain'[x] \notin fresh'
  <2>1. Vars \subseteq Registers /\ Temps \subseteq Registers
    BY DEF Registers, Temps
  <2>2. chain' \in [Registers -> Registers \union {None}]
    BY <1>2, <1>3, <1>5
  <2> QED
    BY <1>1, <1>2, <1>3, <1>5, <1>8, <2>1, <2>2
<1>14. regs' = [x \in Registers |-> x] /\ forced' = FALSE
  BY <1>2 DEF Assigned, AssignCopy, copyVars
<1>15. (\A x \in Registers : k[x] <= Cardinality(Temps \ fresh))'
  BY <1>2, <1>11
<1>16. (\A r \in Vars : content[r] = e[binding[r]])'
  BY <1>12
<1> QED
  BY <1>10, <1>13, <1>14, <1>15, <1>16 DEF Assigned

\* A value that copies nothing stays where it is.
LEMMA AssignNewAssigned ==
  ASSUME Assigned, NEW v \in Vars, AssignNew(v)
  PROVE  Assigned'
<1> PICK new : new = NewValue
  OBVIOUS
<1>1. /\ new \in fresh /\ new \in Registers /\ new \notin Vars
      /\ chain[new] = None
      /\ Cardinality(Temps \ fresh) \in Nat
      /\ Cardinality(Temps \ (fresh \ {new})) = Cardinality(Temps \ fresh) + 1
  BY NewValueFacts DEF AssignNew
<1>2. /\ fresh' = fresh \ {new}
      /\ chain' = chain
      /\ binding' = [binding EXCEPT ![v] = new]
      /\ content' = [content EXCEPT ![v] = new]
      /\ regs' = regs /\ forced' = forced
  BY DEF AssignNew, copyVars
<1>3. PICK end, rank :
        /\ Traced(end, rank)
        /\ \A x \in Registers : rank[x] <= Cardinality(Temps \ fresh)
        /\ \A r \in Vars : content[r] = end[binding[r]]
  BY DEF Assigned
<1>4. Traced(end, rank)'
  BY <1>2, <1>3 DEF Traced
<1>5. (\A x \in Registers : rank[x] <= Cardinality(Temps \ fresh))'
  <2>1. ASSUME NEW x \in Registers PROVE rank[x] <= Cardinality(Temps \ (fresh \ {new}))
    <3>1. rank[x] \in Nat /\ rank[x] <= Cardinality(Temps \ fresh)
      BY <1>3 DEF Traced
    <3> QED
      BY <3>1, <1>1
  <2> QED
    BY <1>2, <2>1
<1>6. (\A r \in Vars : content[r] = end[binding[r]])'
  <2>1. end[new] = new
    BY <1>1, <1>3 DEF Traced
  <2>2. ASSUME NEW r \in Vars PROVE content'[r] = end[binding'[r]]
    BY <1>2, <1>3, <2>1 DEF Assigned
  <2> QED
    BY <2>2
<1>7. /\ binding' \in [Vars -> Registers \ fresh'] /\ content' \in [Vars -> Registers]
      /\ fresh' \subseteq Temps
  BY <1>1, <1>2 DEF Assigned
<1> QED
  BY <1>2, <1>4, <1>5, <1>6, <1>7 DEF Assigned

\* At the end of the body the copies read where the values come from.
LEMMA StartWritebackCopying ==
  ASSUME Assigned, NEW kind, StartWriteback(kind)
  PROVE  Copying'
<1>1. PICK end, rank :
        /\ Traced(end, rank)
        /\ \A x \in Registers : rank[x] <= Cardinality(Temps \ fresh)
        /\ \A r \in Vars : content[r] = end[binding[r]]
  BY DEF Assigned
<1>2. ASSUME NEW x \in Registers PROVE rank[x] <= N
  <2>1. Cardinality(Temps \ fresh) <= N /\ Cardinality(Temps \ fresh) \in Nat
    <3>1. Temps \ fresh \subseteq Registers
      BY DEF Registers, Temps
    <3> QED
      BY <3>1, RegistersFinite, FS_Subset, FS_CardinalityType DEF N
  <2>2. rank[x] \in Nat /\ rank[x] <= Cardinality(Temps \ fresh)
    BY <1>1 DEF Traced
  <2> QED
    BY <2>1, <2>2, RegistersFinite
<1>3. binding \in [Vars -> Registers \ fresh] /\ (\A v \in Vars : chain[v] = None)
      /\ regs = [x \in Registers |-> x] /\ Vars \subseteq Registers
  BY DEF Assigned, Registers
<1>4. ASSUME NEW v \in Vars
      PROVE  Root(binding[v]) = content[v] /\ Folded(binding[v]) = content[v]
             /\ content[v] \in Registers
  <2>1. binding[v] \in Registers
    BY <1>3
  <2>2. Root(binding[v]) = end[binding[v]]
    BY <2>1, <1>1, <1>2, RootFound
  <2>3. Folded(binding[v]) = end[binding[v]]
    BY <2>1, <1>1, <1>2, <1>3, FoldedFound
  <2> QED
    BY <2>1, <2>2, <2>3, <1>1 DEF Traced
<1>5. /\ forced' = FALSE
      /\ remaining' = {v \in Vars : binding[v] # v}
      /\ job' = [pending |-> remaining', reads |-> [v \in Vars |-> Folded(binding[v])],
                 root |-> [v \in Vars |-> Root(binding[v])]]
      /\ regs' = regs /\ binding' = binding /\ content' = content
  BY DEF StartWriteback, Assigned
<1>6. job'.pending = remaining' /\ \A v \in Vars : job'.reads[v] = content[v]
  BY <1>4, <1>5
<1>7. job'.root = job'.reads /\ job'.reads \in [Vars -> Registers]
  BY <1>4, <1>5
<1>8. remaining' \subseteq Vars
  BY <1>5
<1>9. Typed'
  BY <1>3, <1>5, <1>6, <1>7, <1>8 DEF Typed
<1>10. Untouched'
  BY <1>3, <1>5 DEF Untouched
<1>11. Intact'
  BY <1>3, <1>5, <1>6, <1>7, <1>8 DEF Intact
<1>12. ASSUME NEW v \in Vars \ job'.pending PROVE job'.reads[v] = v
  <2>1. binding[v] = v
    BY <1>5, <1>6
  <2>2. content[v] = end[v] /\ chain[v] = None /\ v \in Registers
    BY <1>1, <1>3, <2>1
  <2> QED
    BY <1>1, <1>6, <2>2 DEF Traced
<1>13. binding' \in [Vars -> Registers] /\ \A v \in Vars \ remaining' : binding'[v] = v
  BY <1>3, <1>5
<1> QED
  BY <1>5, <1>6, <1>7, <1>9, <1>10, <1>11, <1>12, <1>13 DEF Copying

\* One copy, after which its variable is bound to its register.
LEMMA CopyFacts ==
  ASSUME Copying, NEW v \in remaining, Emit(v), Rebind(v)
  PROVE  /\ Typed' /\ Untouched' /\ job' = job /\ remaining' = remaining \ {v}
         /\ job'.root = job'.reads
         /\ \A r \in Vars : content'[r] = job'.reads[r]
         /\ \A r \in Vars \ job'.pending : job'.reads[r] = r
         /\ binding' \in [Vars -> Registers]
         /\ \A r \in Vars \ remaining' : binding'[r] = r
         /\ phase' = phase /\ bodies' = bodies
<1>1. /\ job' = job /\ job.pending \subseteq Vars
      /\ v \in Registers /\ remaining' = remaining \ {v}
      /\ regs' \in [Registers -> Registers]
  BY EmitFacts DEF Copying
<1>2. Typed'
  BY <1>1 DEF Copying, Typed
<1>3. Untouched'
  BY EmitUntouched DEF Copying
<1>4. v \in Vars /\ binding' = [binding EXCEPT ![v] = v] /\ content' = content
      /\ phase' = phase /\ bodies' = bodies
  BY <1>1 DEF Rebind, Copying, Typed
<1>5. binding' \in [Vars -> Registers] /\ \A r \in Vars \ remaining' : binding'[r] = r
  BY <1>1, <1>4 DEF Copying
<1> QED
  BY <1>1, <1>2, <1>3, <1>4, <1>5 DEF Copying

\* One copy of _loop_writeback, with its effect on _variables and on the chain.
LEMMA CopyBackCopying ==
  ASSUME Copying, phase \in {"stmts", "body", "for_inc"}, NEW v \in remaining, CopyBack(v)
  PROVE  Copying'
<1>1. Emit(v) /\ Rebind(v) /\ phase = "body"
  BY DEF CopyBack, EmitSafe, EmitFromCycle
<1>2. phase' = "body" /\ phase' # "for_inc"
  BY <1>1 DEF Rebind
<1>3. ~forced' => Intact'
  <2> SUFFICES ASSUME ~forced' PROVE Intact'
    OBVIOUS
  <2>1. Safe(v) /\ forced' = forced
    BY DEF CopyBack, EmitSafe, EmitFromCycle
  <2>2. Typed /\ Intact
    BY <1>1, <2>1 DEF Copying
  <2>3. \A u \in remaining \ {v} : job.reads[u] # v
    BY <2>1 DEF Safe, Copying
  <2> QED
    BY <1>1, <2>2, <2>3, EmitIntact
<1> QED
  BY <1>1, <1>2, <1>3, CopyFacts DEF Copying

\* Of the copies of an increment the first in the order of the declarations
\* writes what no other one reads.
LEMMA CopyBackInOrderCopying ==
  ASSUME Copying, NEW v \in remaining, CopyBackInOrder(v)
  PROVE  Copying'
<1>1. Emit(v) /\ Rebind(v) /\ phase = "for_inc" /\ IsFirst(v)
  BY DEF CopyBackInOrder
<1>2. phase' = "for_inc" /\ phase' # "body" /\ job' = job
  BY <1>1, CopyFacts
<1>3. InDeclOrder' => Intact'
  <2> SUFFICES ASSUME InDeclOrder PROVE Intact'
    BY <1>2 DEF InDeclOrder
  <2>1. Typed /\ Intact
    BY <1>1 DEF Copying
  <2>2. ASSUME NEW u \in remaining \ {v}, job.reads[u] = v PROVE FALSE
    <3>1. u \in job.pending /\ v \in job.pending /\ u \in Vars /\ v \in Vars
      BY <2>1 DEF Typed
    <3>2. Declared(u) <= Declared(v)
      BY <3>1, <2>2 DEF InDeclOrder
    <3>3. Declared(v) <= Declared(u)
      BY <1>1 DEF IsFirst
    <3>4. /\ Declared(u) \in DOMAIN DeclOrder /\ DeclOrder[Declared(u)] = u
          /\ Declared(v) \in DOMAIN DeclOrder /\ DeclOrder[Declared(v)] = v
      BY <3>1, WritebackAssumption DEF Declared
    <3>5. DOMAIN DeclOrder \subseteq Nat
      BY WritebackAssumption
    <3>6. Declared(u) = Declared(v)
      BY <3>2, <3>3, <3>4, <3>5
    <3> QED
      BY <2>2, <3>4, <3>6
  <2> QED
    BY <1>1, <2>1, <2>2, EmitIntact
<1> QED
  BY <1>1, <1>2, <1>3, CopyFacts DEF Copying

\* Every step keeps the invariant, which says nothing once a body is finished.
LEMMA NextWInv == WInv /\ [WbNext]_wbVars => WInv'
<1> SUFFICES ASSUME WInv, [WbNext]_wbVars PROVE WInv'
  OBVIOUS
<1>1. /\ phase \in {"stmts", "body", "for_inc"} /\ bodies \in Nat
      /\ (phase = "stmts" /\ bodies = 0 => Assigned)
      /\ (phase # "stmts" /\ bodies = 0 => Copying)
  BY DEF WInv
<1>2. CASE UNCHANGED wbVars
  <2>1. Assigned' <=> Assigned
    BY <1>2 DEF wbVars, copyVars, Assigned, Traced
  <2>2. Copying' <=> Copying
    BY <1>2 DEF wbVars, copyVars, Copying, Typed, Untouched, Intact, InDeclOrder
  <2> QED
    BY <1>1, <1>2, <2>1, <2>2 DEF WInv, wbVars
<1>3. ASSUME NEW v \in Vars, NEW u \in Vars, AssignCopy(v, u) PROVE WInv'
  <2>1. phase = "stmts" /\ phase' = phase /\ bodies' = bodies
    BY <1>3 DEF AssignCopy
  <2> QED
    BY <1>1, <1>3, <2>1, AssignCopyAssigned DEF WInv
<1>4. ASSUME NEW v \in Vars, AssignNew(v) PROVE WInv'
  <2>1. phase = "stmts" /\ phase' = phase /\ bodies' = bodies
    BY <1>4 DEF AssignNew
  <2> QED
    BY <1>1, <1>4, <2>1, AssignNewAssigned DEF WInv
<1>5. ASSUME NEW kind \in Bodies, StartWriteback(kind) PROVE WInv'
  <2>1. phase = "stmts" /\ phase' = kind /\ bodies' = bodies
    BY <1>5 DEF StartWriteback
  <2>2. kind \in {"body", "for_inc"}
    BY WritebackAssumption
  <2> QED
    BY <1>1, <1>5, <2>1, <2>2, StartWritebackCopying DEF WInv
<1>6. ASSUME NEW v \in remaining, CopyBack(v) PROVE WInv'
  <2>1. phase = "body" /\ phase' = phase /\ bodies' = bodies
    BY <1>6 DEF CopyBack, Rebind
  <2> QED
    BY <1>1, <1>6, <2>1, CopyBackCopying DEF WInv
<1>7. ASSUME NEW v \in remaining, CopyBackInOrder(v) PROVE WInv'
  <2>1. phase = "for_inc" /\ phase' = phase /\ bodies' = bodies
    BY <1>7 DEF CopyBackInOrder, Rebind
  <2> QED
    BY <1>1, <1>7, <2>1, CopyBackInOrderCopying DEF WInv
<1>8. CASE FinishBody
  BY <1>1, <1>8 DEF FinishBody, WInv
<1> QED
  BY <1>2, <1>3, <1>4, <1>5, <1>6, <1>7, <1>8 DEF WbNext

\* At the end of the copies every register has what the source program put into
\* its variable.
LEMMA AllCopiedBack == Copying /\ Intact /\ remaining = {} => AllBack
<1> SUFFICES ASSUME Copying, Intact, remaining = {}, NEW v \in Vars
             PROVE  regs[v] = content[v] /\ binding[v] = v
  BY DEF AllBack
<1>1. v \in Registers /\ binding[v] = v /\ content[v] = job.reads[v]
  BY DEF Copying, Registers
<1>2. CASE v \in job.pending
  BY <1>1, <1>2 DEF Intact
<1>3. CASE v \notin job.pending
  BY <1>1, <1>3 DEF Copying, Untouched
<1> QED
  BY <1>1, <1>2, <1>3

\* So the invariant holds in every behaviour after such declarations.
LEMMA WbInvariance == Inits = {} /\ WbSpec => []WInv
<1> QED
  BY InitWInv, NextWInv, PTL DEF WbSpec

\* _loop_writeback (parser.py:256-364) leaves in every canonical register what
\* the program assigned to the variable, however many assignments the body makes
\* and whatever they copy: for the first body after declarations that copy
\* nothing, unless the copies were a cycle.
THEOREM FirstBodyWrittenBack ==
  Inits = {} /\ WbSpec => [](bodies = 0 => WrittenBackUnlessCyclic)
<1>1. WInv => (bodies = 0 => WrittenBackUnlessCyclic)
  BY AllCopiedBack DEF WInv, WrittenBackUnlessCyclic, Written, Copying
<1> QED
  BY <1>1, WbInvariance, PTL

\* The increment of a for loop emits its copies in the order of the declarations
\* (parser.py:2880-2897), and that is enough when no variable takes its value
\* from one that is declared before it.
THEOREM FirstIncrementWrittenBack ==
  Inits = {} /\ WbSpec => [](bodies = 0 => IncrementWrittenBack)
<1>1. WInv => (bodies = 0 => IncrementWrittenBack)
  BY AllCopiedBack DEF WInv, IncrementWrittenBack, Written, Copying
<1> QED
  BY <1>1, WbInvariance, PTL
=============================================================================
