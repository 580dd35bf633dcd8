-------------------------- MODULE CfgCleanupProofs --------------------------
(***************************************************************************)
(* The control-flow graph stays well formed under every order of the       *)
(* passes, for kernels of every size.                                      *)
(***************************************************************************)
EXTENDS CfgCleanup, DominatorsProofs, Induction, TLAPS

IInv == TypeOK /\ CfgWellFormed

-----------------------------------------------------------------------------
\* A terminator has at least the labels of its kind, all of them labels.
LEMMA TermFacts ==
  ASSUME NEW t \in Term
  PROVE  /\ t.kind \in {"br", "cond", "ret"}
         /\ t.kind = "br" => t = Br(t.to) /\ t.to \in Labels /\ Targets(t) = {t.to}
         /\ t.kind = "cond" => /\ t.cond \in Conds
                               /\ t.yes \in Labels /\ t.no \in Labels
                               /\ Targets(t) = {t.yes, t.no}
         /\ t.kind = "ret" => Targets(t) = {}
  BY DEF Term, Targets, Br

\* The terminators the passes build have the targets they name.
LEMMA BuiltTerms ==
  /\ \A l \in Labels : Br(l) \in Term /\ Targets(Br(l)) = {l}
  /\ \A c \in Conds, y \in Labels, n \in Labels :
       CondBr(c, y, n) \in Term /\ Targets(CondBr(c, y, n)) = {y, n}
  BY DEF Br, CondBr, Term, Targets

\* The targets of a block of a well-formed kernel are blocks, and not the entry.
LEMMA TargetFacts ==
  ASSUME IInv, NEW b \in blocks
  PROVE  /\ term[b] \in Term
         /\ Targets(term[b]) \subseteq blocks \ {Entry}
  BY DEF IInv, TypeOK, CfgWellFormed

\* What the verifier demands of a kernel holds of the kernel optimize is given.
LEMMA InitIInv == Init => IInv
  BY CfgAssumption DEF Init, IInv, TypeOK, CfgWellFormed, WellFormedKernel

\* A folded branch keeps one of the targets it had (optimize.py:372-384).
LEMMA FoldBranchesIInv ==
  ASSUME IInv, FoldBranches
  PROVE  IInv'
<1>1. ASSUME NEW b \in Labels
      PROVE  /\ term'[b] \in Term
             /\ b \in blocks => Targets(term'[b]) \subseteq blocks \ {Entry}
  <2>1. term[b] \in Term
    BY DEF IInv, TypeOK
  <2>2. CASE b \in blocks /\ term[b].kind = "cond" /\ term[b].cond \in BOOLEAN
    <3>1. term'[b] = Br(IF term[b].cond THEN term[b].yes ELSE term[b].no)
      BY <2>2 DEF FoldBranches
    <3>2. (IF term[b].cond THEN term[b].yes ELSE term[b].no) \in Targets(term[b]) \intersect Labels
      BY <2>1, <2>2, TermFacts
    <3> QED
      BY <3>1, <3>2, <2>2, BuiltTerms, TargetFacts
  <2>3. CASE ~(b \in blocks /\ term[b].kind = "cond" /\ term[b].cond \in BOOLEAN)
    <3>1. term'[b] = term[b]
      BY <2>3 DEF FoldBranches
    <3> QED
      BY <3>1, <2>1, TargetFacts
  <2> QED
    BY <2>2, <2>3
<1>2. DOMAIN term' = Labels /\ term' = [b \in Labels |-> term'[b]]
  BY DEF FoldBranches
<1>3. term' \in [Labels -> Term]
  BY <1>1, <1>2
<1> QED
  BY <1>1, <1>3 DEF FoldBranches, IInv, TypeOK, CfgWellFormed

\* The blocks that stay are reachable, and so are the targets of a reachable
\* block.
LEMMA DeadBlockElimIInv ==
  ASSUME IInv, DeadBlockElim
  PROVE  IInv'
<1>1. Entry \in blocks'
  BY DEF IInv, TypeOK, CfgWellFormed, DeadBlockElim, Reachable
<1>2. ASSUME NEW b \in blocks' PROVE Targets(term[b]) \subseteq Reachable
  <2>1. b \in blocks /\ b \in Reachable
    BY DEF DeadBlockElim
  <2>2. Targets(term[b]) \subseteq Labels
    BY <2>1, TargetFacts DEF IInv, TypeOK
  <2>3. ASSUME NEW S \in SUBSET Labels, Entry \in S, Closed(S)
        PROVE  Targets(term[b]) \subseteq S
    BY <2>1, <2>3 DEF Reachable, Closed
  <2> QED
    BY <2>2, <2>3 DEF Reachable
<1>3. ASSUME NEW b \in blocks' PROVE Targets(term'[b]) \subseteq blocks' \ {Entry}
  BY <1>2, TargetFacts DEF DeadBlockElim
<1> QED
  BY <1>1, <1>3 DEF IInv, TypeOK, CfgWellFormed, DeadBlockElim

\* The block taken over has no other predecessor, so no branch is left to it.
LEMMA MergeChainIInv ==
  ASSUME IInv, NEW b \in blocks, MergeChain(b)
  PROVE  IInv'
<1> DEFINE t == term[b].to
<1>1. term[b] \in Term /\ term[b].kind = "br"
  BY TargetFacts DEF MergeChain
<1>2. Targets(term[b]) = {t} /\ t \in blocks \ {Entry} /\ t \in Labels
  BY <1>1, TermFacts, TargetFacts
<1>3. term[t] \in Term /\ Targets(term[t]) \subseteq blocks \ {Entry}
  BY <1>2, TargetFacts
<1>4. b \in Labels /\ blocks \subseteq Labels
  BY DEF IInv, TypeOK
<1>5. /\ insts' = [insts EXCEPT ![b] = insts[b] \o insts[t]]
      /\ term' = [term EXCEPT ![b] = term[t]]
      /\ blocks' = blocks \ {t}
  BY DEF MergeChain
<1>6. TypeOK'
  <2>1. insts[b] \o insts[t] \in Seq(Insts)
    BY <1>2, <1>4 DEF IInv, TypeOK
  <2> QED
    BY <2>1, <1>3, <1>4, <1>5 DEF IInv, TypeOK
<1>7. ASSUME NEW c \in blocks' PROVE Targets(term'[c]) \subseteq blocks' \ {Entry}
  <2>1. CASE c = b
    \* b is still there, so it is not t; what t branches to is not t either,
    \* for b would not have been its only predecessor.
    <3>1. term'[c] = term[t] /\ b # t
      BY <2>1, <1>4, <1>5, <1>7 DEF IInv, TypeOK
    <3>2. t \notin Targets(term[t])
      BY <3>1, <1>2 DEF MergeChain
    <3> QED
      BY <3>1, <3>2, <1>3, <1>5
  <2>2. CASE c # b
    <3>1. term'[c] = term[c] /\ c \in blocks
      BY <2>2, <1>4, <1>5 DEF IInv, TypeOK
    <3>2. t \notin Targets(term[c])
      BY <3>1, <2>2 DEF MergeChain
    <3> QED
      BY <3>1, <3>2, <1>5, TargetFacts
  <2> QED
    BY <2>1, <2>2
<1>8. Entry \in blocks'
  BY <1>2, <1>5 DEF IInv, CfgWellFormed
<1> QED
  BY <1>6, <1>7, <1>8 DEF IInv, CfgWellFormed

\* A chain of transparent blocks that starts at a block stays among the blocks
\* that may be targeted: these are closed under branches.
LEMMA ChainFacts ==
  ASSUME IInv, NEW l \in blocks \ {Entry}
  PROVE  Chain(l) \subseteq blocks \ {Entry}
<1> DEFINE S == blocks \ {Entry}
<1>1. S \in SUBSET Labels /\ l \in S
  BY DEF IInv, TypeOK
<1>2. ASSUME NEW b \in S \intersect Transparent PROVE term[b].to \in S
  <2>1. b \in blocks /\ term[b].kind = "br"
    BY DEF Transparent
  <2> QED
    BY <2>1, TargetFacts, TermFacts
<1> QED
  BY <1>1, <1>2 DEF Chain

\* thread_empty_blocks: a forwarded target is a block, and no branch is left to a
\* transparent block that is deleted.
LEMMA ThreadEmptyBlocksIInv ==
  ASSUME IInv, ThreadEmptyBlocks
  PROVE  IInv'
<1> PICK fwd \in [Transparent -> Labels] :
      /\ \A l \in Transparent : Forwards(l, fwd[l])
      /\ term' = [b \in Labels |-> IF b \in blocks THEN Retarget(term[b], fwd) ELSE term[b]]
      /\ blocks' = blocks \ (Transparent \ ({Entry} \union
                      UNION {Targets(term'[b]) : b \in blocks}))
      /\ UNCHANGED <<source, insts>>
  BY DEF ThreadEmptyBlocks
<1> DEFINE f(l) == IF l \in DOMAIN fwd THEN fwd[l] ELSE l
           good == blocks \ {Entry}
<1>1. \A l \in good : f(l) \in good
  <2> SUFFICES ASSUME NEW l \in good PROVE f(l) \in good
    OBVIOUS
  <2>1. CASE l \in Transparent
    <3>1. fwd[l] \in Chain(l)
      BY <2>1 DEF Forwards
    <3> QED
      BY <3>1, <2>1, ChainFacts
  <2>2. CASE l \notin Transparent
    BY <2>2
  <2> QED
    BY <2>1, <2>2
<1>2. good \subseteq Labels
  BY DEF IInv, TypeOK
<1>3. ASSUME NEW b \in blocks
      PROVE  term'[b] \in Term /\ Targets(term'[b]) \subseteq good
  <2>0. term'[b] = Retarget(term[b], fwd) /\ term[b] \in Term /\ Targets(term[b]) \subseteq good
    BY TargetFacts DEF IInv, TypeOK
  <2>1. CASE term[b].kind = "ret"
    BY <2>0, <2>1, TermFacts DEF Retarget
  <2>2. CASE term[b].kind = "br"
    <3>1. term'[b] = Br(f(term[b].to)) /\ term[b].to \in good
      BY <2>0, <2>2, TermFacts DEF Retarget
    <3>2. f(term[b].to) \in good
      BY <3>1, <1>1
    <3>3. Br(f(term[b].to)) \in Term /\ Targets(Br(f(term[b].to))) = {f(term[b].to)}
      BY <3>2, <1>2, BuiltTerms
    <3> QED
      BY <3>1, <3>2, <3>3
  <2>3. CASE term[b].kind = "cond"
    <3>1. /\ term[b].yes \in good /\ term[b].no \in good /\ term[b].cond \in Conds
          /\ \/ term'[b] = Br(f(term[b].yes))
             \/ term'[b] = CondBr(term[b].cond, f(term[b].yes), f(term[b].no))
      BY <2>0, <2>3, TermFacts DEF Retarget
    <3>2. f(term[b].yes) \in good /\ f(term[b].no) \in good
      BY <3>1, <1>1
    <3> DEFINE y == f(term[b].yes)
               n == f(term[b].no)
    <3>3. Br(y) \in Term /\ Targets(Br(y)) = {y}
      BY <3>2, <1>2, BuiltTerms
    <3>4. CondBr(term[b].cond, y, n) \in Term /\ Targets(CondBr(term[b].cond, y, n)) = {y, n}
      BY <3>1, <3>2, <1>2, BuiltTerms
    <3> QED
      BY <3>1, <3>2, <3>3, <3>4
  <2> QED
    BY <2>0, <2>1, <2>2, <2>3, TermFacts
<1>4. TypeOK'
  <2>1. \A b \in Labels : term'[b] \in Term
    BY <1>3 DEF IInv, TypeOK
  <2> QED
    BY <2>1 DEF IInv, TypeOK
<1>5. Entry \in blocks' /\ blocks' \subseteq blocks
  BY DEF IInv, CfgWellFormed
<1>6. ASSUME NEW b \in blocks' PROVE Targets(term'[b]) \subseteq blocks' \ {Entry}
  <2> DEFINE T(c) == Targets(term'[c])
             referenced == {Entry} \union UNION {T(c) : c \in blocks}
  <2>1. b \in blocks /\ T(b) \subseteq good
    BY <1>3, <1>5
  <2>2. blocks' = blocks \ (Transparent \ referenced)
    OBVIOUS
  <2> HIDE DEF T
  <2>3. T(b) \subseteq referenced
    BY <2>1
  <2>4. T(b) \subseteq blocks' \ {Entry}
    BY <2>1, <2>2, <2>3
  <2> QED
    BY <2>4 DEF T
<1> QED
  BY <1>4, <1>5, <1>6 DEF IInv, CfgWellFormed

\* fold_empty_ret_blocks: a branch becomes a return, and a block deleted is one
\* nothing names any more.
LEMMA FoldEmptyRetBlocksIInv ==
  ASSUME IInv, FoldEmptyRetBlocks
  PROVE  IInv'
<1>1. ASSUME NEW b \in Labels
      PROVE  /\ term'[b] \in Term
             /\ b \in blocks => Targets(term'[b]) \subseteq blocks \ {Entry}
  <2>1. term[b] \in Term
    BY DEF IInv, TypeOK
  <2>2. CASE b \in blocks /\ term[b].kind = "br" /\ term[b].to \in EmptyRet
    <3>1. term'[b] = term[term[b].to] /\ term[b].to \in blocks
      BY <2>2 DEF FoldEmptyRetBlocks, EmptyRet
    <3> QED
      BY <3>1, TargetFacts
  <2>3. CASE ~(b \in blocks /\ term[b].kind = "br" /\ term[b].to \in EmptyRet)
    <3>1. term'[b] = term[b]
      BY <2>3 DEF FoldEmptyRetBlocks
    <3> QED
      BY <3>1, <2>1, TargetFacts
  <2> QED
    BY <2>2, <2>3
<1>2. DOMAIN term' = Labels /\ term' = [b \in Labels |-> term'[b]]
  BY DEF FoldEmptyRetBlocks
<1>3. term' \in [Labels -> Term]
  BY <1>1, <1>2
<1> QED
  BY <1>1, <1>3 DEF FoldEmptyRetBlocks, IInv, TypeOK, CfgWellFormed

-----------------------------------------------------------------------------
(***************************************************************************)
(* Runs.                                                                   *)
(***************************************************************************)
Program(bodies, terms) ==
  bodies \in [Labels -> Seq(Insts)] /\ terms \in [Labels -> Term]

Endings == {<<>>, <<"cut">>} \union {<<"ret", v>> : v \in RetVals}

RunState == [at : Labels, trace : Seq(Insts), ended : Endings]

RunStart == [at |-> Entry, trace |-> <<>>, ended |-> <<>>]

Unended(s) == s.ended = <<>>

\* A run goes on at a label with a trace, is cut in a block, or returns from it.
At(l, trace) == [at |-> l, trace |-> trace, ended |-> <<>>]
Cut(l, trace) == [at |-> l, trace |-> SubSeq(trace, 1, MaxTrace), ended |-> <<"cut">>]
Returned(l, trace, v) == [at |-> l, trace |-> trace, ended |-> <<"ret", v>>]

\* Two states that show the same and are at the same label if they go on.
Same(s, t) ==
  s.trace = t.trace /\ s.ended = t.ended /\ (Unended(s) => s.at = t.at)

\* Only a run that goes on has not ended, and where one has ended is not shown.
LEMMA StateFacts ==
  ASSUME NEW l, NEW k, NEW trace, NEW v
  PROVE  /\ Unended(At(l, trace)) /\ At(l, trace).at = l /\ At(l, trace).trace = trace
         /\ ~Unended(Cut(l, trace)) /\ ~Unended(Returned(l, trace, v))
         /\ Same(Cut(l, trace), Cut(k, trace))
         /\ Same(Returned(l, trace, v), Returned(k, trace, v))
<1> DEFINE q == SubSeq(trace, 1, MaxTrace)
<1>1. <<"cut">> # <<>>
  OBVIOUS
<1>2. <<"ret", v>> # <<>>
  OBVIOUS
<1>3. Unended(At(l, trace)) /\ At(l, trace).at = l /\ At(l, trace).trace = trace
  BY DEF Unended, At
<1>4. ~Unended(Cut(l, trace)) /\ ~Unended(Returned(l, trace, v))
  BY <1>1, <1>2 DEF Unended, Cut, Returned
<1>5. Same(Cut(l, trace), Cut(k, trace))
  <2>1. Cut(l, trace) = [at |-> l, trace |-> q, ended |-> <<"cut">>]
        /\ Cut(k, trace) = [at |-> k, trace |-> q, ended |-> <<"cut">>]
    BY DEF Cut
  <2> HIDE DEF q
  <2> QED
    BY <2>1, <1>4 DEF Same
<1>6. Same(Returned(l, trace, v), Returned(k, trace, v))
  <2>1. Returned(l, trace, v).trace = Returned(k, trace, v).trace
        /\ Returned(l, trace, v).ended = Returned(k, trace, v).ended
    BY DEF Returned
  <2> QED
    BY <2>1, <1>4 DEF Same
<1> QED
  BY <1>3, <1>4, <1>5, <1>6

\* The three ways a run can be: going on, cut at the bound, returned.
LEMMA EndingFacts ==
  <<>> \in Endings /\ <<"cut">> \in Endings /\ \A v \in RetVals : <<"ret", v>> \in Endings
<1>1. <<>> \in Endings
  BY Zenon DEF Endings
<1>2. <<"cut">> \in Endings
  BY Zenon DEF Endings
<1>3. ASSUME NEW v \in RetVals PROVE <<"ret", v>> \in Endings
  BY Zenon DEF Endings
<1> QED
  BY <1>1, <1>2, <1>3

\* What makes a state of a run.
LEMMA RunStateFacts ==
  ASSUME NEW l \in Labels, NEW q \in Seq(Insts), NEW e \in Endings
  PROVE  [at |-> l, trace |-> q, ended |-> e] \in RunState
  BY DEF RunState

\* A prefix of a sequence of instructions is one.
LEMMA PrefixType ==
  ASSUME NEW q \in Seq(Insts), NEW n \in Nat, n <= Len(q)
  PROVE  SubSeq(q, 1, n) \in Seq(Insts) /\ Len(SubSeq(q, 1, n)) = n
  OBVIOUS

\* The trace after one more block.
Now(bodies, s) == s.trace \o bodies[s.at]

\* The trace after the block the run is at is a sequence of instructions.
LEMMA NowType ==
  ASSUME NEW bodies, NEW terms, Program(bodies, terms), NEW s \in RunState
  PROVE  /\ Now(bodies, s) \in Seq(Insts)
         /\ Len(Now(bodies, s)) \in Nat
         /\ Len(Now(bodies, s)) = Len(s.trace) + Len(bodies[s.at])
         /\ s.at \in Labels /\ s.trace \in Seq(Insts) /\ terms[s.at] \in Term
  BY DEF Now, Program, RunState

\* What a block does to a run: nothing when it has ended, and otherwise it is
\* cut, or returns, or goes on.
LEMMA RunEnded ==
  ASSUME NEW bodies, NEW terms, NEW oracle, NEW s, ~Unended(s)
  PROVE  RunBlock(bodies, terms, oracle, s) = s
  BY DEF RunBlock, Unended

\* A run whose trace reaches the bound is cut there.
LEMMA RunCut ==
  ASSUME NEW bodies, NEW terms, NEW oracle, NEW s, Unended(s),
         Len(Now(bodies, s)) >= MaxTrace
  PROVE  RunBlock(bodies, terms, oracle, s) = Cut(s.at, Now(bodies, s))
  BY DEF RunBlock, Unended, Now, Cut

\* A block that returns ends the run with its value.
LEMMA RunReturns ==
  ASSUME NEW bodies, NEW terms, NEW oracle, NEW s, Unended(s),
         ~(Len(Now(bodies, s)) >= MaxTrace), terms[s.at].kind = "ret"
  PROVE  RunBlock(bodies, terms, oracle, s) =
           Returned(s.at, Now(bodies, s), terms[s.at].val)
  BY DEF RunBlock, Unended, Now, Returned

\* Any other block leads to one of its targets.
LEMMA RunGoesOn ==
  ASSUME NEW bodies, NEW terms, NEW oracle, NEW s, Unended(s),
         ~(Len(Now(bodies, s)) >= MaxTrace), terms[s.at].kind # "ret"
  PROVE  RunBlock(bodies, terms, oracle, s) =
           At(Goes(terms[s.at], oracle, Len(Now(bodies, s))), Now(bodies, s))
  BY DEF RunBlock, Unended, Now, At

\* A block takes a run to a state of a run, and never shortens the trace.
LEMMA RunBlockType ==
  ASSUME NEW bodies, NEW terms, Program(bodies, terms), NEW oracle, NEW s \in RunState
  PROVE  RunBlock(bodies, terms, oracle, s) \in RunState
<1> DEFINE now == Now(bodies, s)
           t == terms[s.at]
           next == RunBlock(bodies, terms, oracle, s)
<1>1. /\ now \in Seq(Insts) /\ Len(now) \in Nat /\ MaxTrace \in Nat
      /\ s.at \in Labels /\ t \in Term
  BY NowType, CfgAssumption
<1>2. t.kind # "ret" => Goes(t, oracle, Len(now)) \in Labels
  BY <1>1, TermFacts DEF Goes
<1>3. t.kind = "ret" => t.val \in RetVals
  BY <1>1 DEF Term
<1>4. CASE ~Unended(s)
  BY <1>4, RunEnded
<1>5. CASE Unended(s) /\ Len(now) >= MaxTrace
  <2>1. next = Cut(s.at, now)
    BY <1>5, RunCut
  <2>2. SubSeq(now, 1, MaxTrace) \in Seq(Insts)
    BY <1>1, <1>5, PrefixType
  <2> HIDE DEF now
  <2> QED
    BY <2>1, <2>2, <1>1, EndingFacts, RunStateFacts DEF Cut
<1>6. CASE Unended(s) /\ ~(Len(now) >= MaxTrace) /\ t.kind = "ret"
  <2>1. next = Returned(s.at, now, t.val)
    BY <1>6, RunReturns
  <2> HIDE DEF now, t
  <2> QED
    BY <2>1, <1>1, <1>3, <1>6, EndingFacts, RunStateFacts DEF Returned
<1>7. CASE Unended(s) /\ ~(Len(now) >= MaxTrace) /\ t.kind # "ret"
  <2>1. next = At(Goes(t, oracle, Len(now)), now)
    BY <1>7, RunGoesOn
  <2> HIDE DEF now, t
  <2> QED
    BY <2>1, <1>1, <1>2, <1>7, EndingFacts, RunStateFacts DEF At
<1> QED
  BY <1>4, <1>5, <1>6, <1>7

\* A run is what its definition says it is, and has the type of one.
IsRun(bodies, terms, oracle, A) ==
  /\ Program(bodies, terms)
  /\ A \in [Nat -> RunState]
  /\ A[0] = RunStart
  /\ \A n \in Nat : A[n + 1] = RunBlock(bodies, terms, oracle, A[n])

\* The function AfterBlocks is what its recursive definition says, so a run can be
\* followed block by block.
LEMMA AfterFacts ==
  ASSUME NEW bodies, NEW terms, Program(bodies, terms), NEW oracle, Entry \in Labels
  PROVE  IsRun(bodies, terms, oracle, AfterBlocks(bodies, terms, oracle))
<1> DEFINE D == [s \in RunState |-> RunBlock(bodies, terms, oracle, s)]
           Is(f) == f = [n \in Nat |-> IF n = 0 THEN RunStart
                                       ELSE RunBlock(bodies, terms, oracle, f[n - 1])]
           A == AfterBlocks(bodies, terms, oracle)
<1>1. D \in [RunState -> RunState]
  BY RunBlockType
<1>2. RunStart \in RunState
  BY EndingFacts DEF RunStart, RunState
<1> HIDE DEF D
<1>3. PICK g \in [Nat -> RunState] : g[0] = RunStart /\ \A n \in Nat : g[n + 1] = D[g[n]]
  BY <1>1, <1>2, IterationExists
<1>4. Is(g)
  <2>1. \A n \in Nat : g[n + 1] = RunBlock(bodies, terms, oracle, g[n])
    BY <1>3 DEF D
  <2>2. ASSUME NEW n \in Nat
        PROVE  g[n] = IF n = 0 THEN RunStart ELSE RunBlock(bodies, terms, oracle, g[n - 1])
    <3>1. CASE n = 0
      BY <1>3, <3>1
    <3>2. CASE n # 0
      <4>1. n - 1 \in Nat /\ (n - 1) + 1 = n
        BY <3>2
      <4>2. g[(n - 1) + 1] = RunBlock(bodies, terms, oracle, g[n - 1])
        BY <4>1, <2>1
      <4> QED
        BY <3>2, <4>1, <4>2
    <3> QED
      BY <3>1, <3>2
  <2> QED
    BY <2>2
<1>5. A = CHOOSE f : Is(f)
  BY DEF AfterBlocks, RunStart
<1> HIDE DEF A
<1>6. Is(A)
  BY <1>4, <1>5
<1>7. A[0] = RunStart /\ \A n \in Nat : A[n + 1] = RunBlock(bodies, terms, oracle, A[n])
  <2>1. \A n \in Nat : A[n] = IF n = 0 THEN RunStart
                                       ELSE RunBlock(bodies, terms, oracle, A[n - 1])
    BY <1>6
  <2>2. A[0] = RunStart
    BY <2>1
  <2>3. ASSUME NEW n \in Nat PROVE A[n + 1] = RunBlock(bodies, terms, oracle, A[n])
    <3>1. n + 1 \in Nat /\ n + 1 # 0 /\ (n + 1) - 1 = n
      OBVIOUS
    <3> QED
      BY <3>1, <2>1
  <2> QED
    BY <2>2, <2>3
<1>8. A \in [Nat -> RunState]
  <2> DEFINE Typed == {n \in Nat : A[n] \in RunState}
  <2>1. 0 \in Typed
    BY <1>2, <1>7
  <2>2. ASSUME NEW n \in Nat, n \in Typed PROVE n + 1 \in Typed
    BY <1>7, <2>2, RunBlockType
  <2> HIDE DEF Typed
  <2>3. Nat \subseteq Typed
    BY <2>1, <2>2, NatInd
  <2>4. \A n \in Nat : A[n] \in RunState
    BY <2>3 DEF Typed
  <2> QED
    BY <1>6, <2>4
<1> QED
  BY <1>7, <1>8 DEF A, IsRun

\* q prolongs p, if by nothing then it is p.
Prolongs(q, p) == Len(p) <= Len(q) /\ (Len(p) = Len(q) => p = q)

\* Executing a block prolongs the trace, or leaves it the same.
LEMMA ConcatProlongs ==
  ASSUME NEW p \in Seq(Insts), NEW q \in Seq(Insts)
  PROVE  Prolongs(p \o q, p)
<1>1. Len(p \o q) = Len(p) + Len(q) /\ Len(p) \in Nat /\ Len(q) \in Nat
  OBVIOUS
<1>2. Len(q) = 0 => p \o q = p
  OBVIOUS
<1> QED
  BY <1>1, <1>2 DEF Prolongs

\* Traces prolonged twice are prolonged.
LEMMA ProlongsTransitive ==
  ASSUME NEW p \in Seq(Insts), NEW q \in Seq(Insts), NEW r \in Seq(Insts),
         Prolongs(q, p), Prolongs(r, q)
  PROVE  Prolongs(r, p)
  BY DEF Prolongs

\* A run that goes on has grown by the block it executed.
LEMMA Grows ==
  ASSUME NEW bodies, NEW terms, NEW oracle, NEW s \in RunState, Program(bodies, terms),
         Unended(RunBlock(bodies, terms, oracle, s))
  PROVE  /\ Unended(s)
         /\ Prolongs(RunBlock(bodies, terms, oracle, s).trace, s.trace)
         /\ Len(RunBlock(bodies, terms, oracle, s).trace) <= MaxTrace
<1> DEFINE now == Now(bodies, s)
           next == RunBlock(bodies, terms, oracle, s)
<1>1. Unended(s)
  BY RunEnded
<1>2. MaxTrace \in Nat /\ Len(now) \in Nat
  BY CfgAssumption, NowType
<1>3. ~(Len(now) >= MaxTrace)
  BY <1>1, RunCut, StateFacts
<1>4. terms[s.at].kind # "ret"
  BY <1>1, <1>3, RunReturns, StateFacts
<1>5. next = At(Goes(terms[s.at], oracle, Len(now)), now)
  BY <1>1, <1>3, <1>4, RunGoesOn
<1>6. next.trace = now
  BY <1>5 DEF At
<1>7. /\ s.trace \in Seq(Insts) /\ bodies[s.at] \in Seq(Insts)
      /\ now = s.trace \o bodies[s.at]
  BY DEF RunState, Program, Now
<1>8. Prolongs(now, s.trace)
  BY <1>7, ConcatProlongs
<1> HIDE DEF now
<1>9. Len(now) <= MaxTrace
  BY <1>2, <1>3
<1> QED
  BY <1>1, <1>6, <1>8, <1>9

\* A run that has ended stays as it is.
LEMMA EndedStays ==
  ASSUME NEW bodies, NEW terms, NEW oracle, NEW A, IsRun(bodies, terms, oracle, A),
         NEW i \in Nat, NEW j \in Nat, i <= j, ~Unended(A[i])
  PROVE  A[j] = A[i]
<1> DEFINE Good == {k \in Nat : A[i + k] = A[i]}
<1>1. 0 \in Good
  OBVIOUS
<1>2. ASSUME NEW k \in Nat, k \in Good PROVE k + 1 \in Good
  <2>1. A[(i + k) + 1] = RunBlock(bodies, terms, oracle, A[i + k])
    BY DEF IsRun
  <2>2. RunBlock(bodies, terms, oracle, A[i]) = A[i]
    BY RunEnded
  <2> QED
    BY <1>2, <2>1, <2>2
<1> HIDE DEF Good
<1>3. Nat \subseteq Good
  BY <1>1, <1>2, NatInd
<1>4. j - i \in Nat /\ i + (j - i) = j
  OBVIOUS
<1>5. j - i \in Good
  BY <1>3, <1>4
<1> QED
  BY <1>4, <1>5 DEF Good

\* The trace of a run only grows, and one of the same length is the same.
LEMMA TraceGrows ==
  ASSUME NEW bodies, NEW terms, NEW oracle, NEW A, IsRun(bodies, terms, oracle, A),
         NEW i \in Nat, NEW j \in Nat, i <= j, Unended(A[j])
  PROVE  /\ Unended(A[i])
         /\ Len(A[i].trace) \in 0..MaxTrace
         /\ Prolongs(A[j].trace, A[i].trace)
<1> DEFINE Good == {k \in Nat : Unended(A[i + k]) =>
                      /\ Unended(A[i])
                      /\ Prolongs(A[i + k].trace, A[i].trace)}
<1>0. ASSUME NEW n \in Nat PROVE A[n].trace \in Seq(Insts) /\ Len(A[n].trace) \in Nat
  BY DEF IsRun, RunState
<1>1. 0 \in Good
  BY <1>0 DEF Prolongs
<1>2. ASSUME NEW k \in Nat, k \in Good PROVE k + 1 \in Good
  <2>1. A[(i + k) + 1] = RunBlock(bodies, terms, oracle, A[i + k])
        /\ A[i + k] \in RunState /\ Program(bodies, terms)
    BY DEF IsRun
  <2> SUFFICES ASSUME Unended(A[(i + k) + 1])
               PROVE  Unended(A[i]) /\ Prolongs(A[(i + k) + 1].trace, A[i].trace)
    OBVIOUS
  <2>2. Unended(A[i + k]) /\ Prolongs(A[(i + k) + 1].trace, A[i + k].trace)
    BY <2>1, Grows
  <2>3. Unended(A[i]) /\ Prolongs(A[i + k].trace, A[i].trace)
    BY <1>2, <2>2
  <2>4. Prolongs(A[(i + k) + 1].trace, A[i].trace)
    <3>1. /\ A[i].trace \in Seq(Insts) /\ A[i + k].trace \in Seq(Insts)
          /\ A[(i + k) + 1].trace \in Seq(Insts)
      BY <1>0
    <3> QED
      BY <3>1, <2>2, <2>3, ProlongsTransitive
  <2> QED
    BY <2>3, <2>4
<1> HIDE DEF Good
<1>3. Nat \subseteq Good
  BY <1>1, <1>2, NatInd
<1>4. j - i \in Nat /\ i + (j - i) = j
  OBVIOUS
<1>5. j - i \in Good
  BY <1>3, <1>4
<1>6. Unended(A[i]) /\ Prolongs(A[j].trace, A[i].trace)
  BY <1>4, <1>5 DEF Good
<1>7. Len(A[i].trace) <= MaxTrace
  <2>1. CASE i = 0
    BY <2>1, CfgAssumption DEF IsRun, RunStart
  <2>2. CASE i # 0
    <3>1. i - 1 \in Nat /\ (i - 1) + 1 = i
      BY <2>2
    <3>2. /\ A[i] = RunBlock(bodies, terms, oracle, A[i - 1])
          /\ A[i - 1] \in RunState /\ Program(bodies, terms)
      BY <3>1 DEF IsRun
    <3> QED
      BY <3>2, <1>6, Grows
  <2> QED
    BY <2>1, <2>2
<1> QED
  BY <1>0, <1>6, <1>7, CfgAssumption

\* After LongEnough blocks a run shows nothing more: it has ended, or it has
\* come back to a label with the trace it had there, and goes round for ever.
LEMMA Stable ==
  ASSUME NEW bodies, NEW terms, NEW oracle, NEW A, IsRun(bodies, terms, oracle, A),
         NEW m \in Nat, LongEnough <= m
  PROVE  A[m].trace = A[LongEnough].trace /\ A[m].ended = A[LongEnough].ended
<1> DEFINE Card == Cardinality(Labels)
           N == LongEnough
           Places == Labels \X (0..MaxTrace)
           f == [i \in 0..N |-> <<A[i].at, Len(A[i].trace)>>]
<1>1. MaxTrace \in Nat /\ IsFiniteSet(Labels)
  BY CfgAssumption
<1>2. Card \in Nat
  BY <1>1, FS_CardinalityType
<1>3. N \in Nat
  BY <1>1, <1>2 DEF LongEnough
<1>4. IsFiniteSet(Places) /\ Cardinality(Places) = N
  <2>1. IsFiniteSet(0..MaxTrace) /\ Cardinality(0..MaxTrace) = MaxTrace + 1
    BY <1>1, FS_Interval
  <2>2. Cardinality(Places) = Cardinality(Labels) * Cardinality(0..MaxTrace)
        /\ IsFiniteSet(Places)
    BY <1>1, <2>1, FS_Product
  <2>3. Cardinality(Labels) * (MaxTrace + 1) = (MaxTrace + 1) * Cardinality(Labels)
    BY <1>1, <1>2
  <2> QED
    BY <2>1, <2>2, <2>3 DEF LongEnough
<1>5. IsFiniteSet(0..N) /\ Cardinality(0..N) = N + 1
  BY <1>3, FS_Interval
<1>6. CASE ~Unended(A[N])
  BY <1>3, <1>6, EndedStays
<1>7. CASE Unended(A[N])
  <2>1. ASSUME NEW i \in 0..N
        PROVE  /\ Unended(A[i])
               /\ Len(A[i].trace) \in 0..MaxTrace
               /\ Len(A[i].trace) <= Len(A[N].trace)
               /\ A[i] \in RunState
    <3>1. A[i] \in RunState
      BY <1>3 DEF IsRun
    <3>2. N \in Nat /\ i \in Nat /\ i <= N
      BY <1>3
    <3> HIDE DEF N
    <3> QED
      BY <3>1, <3>2, <1>7, TraceGrows DEF Prolongs
  <2>2. f \in [0..N -> Places]
    BY <2>1 DEF RunState
  <2>3. \E x, y \in 0..N : x # y /\ f[x] = f[y]
    <3>1. Cardinality(Places) < Cardinality(0..N)
      BY <1>3, <1>4, <1>5
    <3> HIDE DEF f, Places, N
    <3> QED
      BY <3>1, <1>4, <1>5, <2>2, FS_PigeonHole
  <2>4. PICK i \in 0..N, j \in 0..N : i < j /\ f[i] = f[j]
    BY <2>3, <1>3
  <2>5. A[i] = A[j]
    <3>1. A[i].at = A[j].at /\ Len(A[i].trace) = Len(A[j].trace)
      BY <2>4
    <3>2. A[i].trace = A[j].trace
      BY <3>1, <2>1, <2>4, <1>3, TraceGrows DEF Prolongs
    <3>3. A[i].ended = A[j].ended
      BY <2>1 DEF Unended
    <3> QED
      BY <3>1, <3>2, <3>3, <2>1 DEF RunState
  \* From i on the run stays among the states of the round.
  <2> DEFINE Cycle == {A[x] : x \in i..(j - 1)}
             Good == {k \in Nat : A[i + k] \in Cycle}
  <2>6. 0 \in Good
    BY <2>4
  <2>7. ASSUME NEW k \in Nat, k \in Good PROVE k + 1 \in Good
    <3>1. PICK x \in i..(j - 1) : A[i + k] = A[x]
      BY <2>7
    <3>2. A[(i + k) + 1] = A[x + 1]
      BY <3>1 DEF IsRun
    <3>3. CASE x + 1 = j
      BY <3>2, <3>3, <2>5, <2>4
    <3>4. CASE x + 1 # j
      BY <3>1, <3>2, <3>4, <2>4
    <3> QED
      BY <3>3, <3>4
  <2> HIDE DEF Good
  <2>8. Nat \subseteq Good
    BY <2>6, <2>7, NatInd
  <2>9. m - i \in Nat /\ i + (m - i) = m /\ N <= m
    BY <1>3
  <2>10. A[m] \in Cycle
    BY <2>8, <2>9 DEF Good
  <2>11. PICK x \in i..(j - 1) : A[m] = A[x]
    BY <2>10
  <2>12. x \in 0..N
    BY <2>4, <1>3
  <2>13. Unended(A[m]) /\ Len(A[m].trace) <= Len(A[N].trace)
    BY <2>1, <2>11, <2>12
  <2>14. /\ Len(A[N].trace) <= Len(A[m].trace) /\ Len(A[N].trace) \in Nat
         /\ Len(A[N].trace) = Len(A[m].trace) => A[N].trace = A[m].trace
    BY <1>3, <2>9, <2>13, TraceGrows DEF Prolongs
  <2>15. Len(A[m].trace) \in Nat
    BY DEF IsRun, RunState
  <2> QED
    BY <1>7, <2>13, <2>14, <2>15 DEF Unended
<1> QED
  BY <1>6, <1>7

\* If each block of the second program takes a state of the first run where
\* the first run comes to by itself, a little later, the runs show the same.
LEMMA Simulation ==
  ASSUME NEW bodies1, NEW terms1, NEW bodies2, NEW terms2, NEW oracle, NEW A, NEW B,
         IsRun(bodies1, terms1, oracle, A), IsRun(bodies2, terms2, oracle, B),
         \A m \in Nat : Unended(A[m]) =>
            \E j \in Nat : m < j /\ Same(A[j], RunBlock(bodies2, terms2, oracle, A[m]))
  PROVE  A[LongEnough].trace = B[LongEnough].trace /\ A[LongEnough].ended = B[LongEnough].ended
<1> DEFINE N == LongEnough
           Good == {n \in Nat : \E j \in Nat : n <= j /\ Same(A[j], B[n])}
<1>1. N \in Nat
  BY CfgAssumption, FS_CardinalityType DEF LongEnough
<1>2. 0 \in Good
  <2>1. Same(A[0], B[0])
    BY DEF Same, IsRun
  <2> QED
    BY <2>1
<1>3. ASSUME NEW n \in Nat, n \in Good PROVE n + 1 \in Good
  <2>1. PICK j \in Nat : n <= j /\ Same(A[j], B[n])
    BY <1>3
  <2>2. B[n + 1] = RunBlock(bodies2, terms2, oracle, B[n])
        /\ A[j + 1] = RunBlock(bodies1, terms1, oracle, A[j])
        /\ A[j] \in RunState /\ B[n] \in RunState
    BY DEF IsRun
  <2>3. CASE ~Unended(B[n])
    <3>1. ~Unended(A[j])
      BY <2>1, <2>3 DEF Same, Unended
    <3>2. B[n + 1] = B[n] /\ A[j + 1] = A[j]
      BY <2>2, <2>3, <3>1, RunEnded
    <3>3. j + 1 \in Nat /\ n + 1 <= j + 1
      BY <2>1
    <3> QED
      BY <3>2, <3>3, <2>1
  <2>4. CASE Unended(B[n])
    <3>1. Unended(A[j]) /\ A[j] = B[n]
      BY <2>1, <2>2, <2>4 DEF Same, Unended, RunState
    <3>2. PICK k \in Nat : j < k /\ Same(A[k], RunBlock(bodies2, terms2, oracle, A[j]))
      BY <3>1
    <3>3. n + 1 <= k /\ Same(A[k], B[n + 1])
      BY <2>1, <2>2, <3>1, <3>2
    <3> QED
      BY <3>3
  <2> QED
    BY <2>3, <2>4
<1> HIDE DEF Good
<1>4. Nat \subseteq Good
  BY <1>2, <1>3, NatInd
<1>5. PICK j \in Nat : N <= j /\ Same(A[j], B[N])
  BY <1>1, <1>4 DEF Good
<1>6. A[j].trace = A[N].trace /\ A[j].ended = A[N].ended
  BY <1>5, Stable
<1> QED
  BY <1>5, <1>6 DEF Same

\* States that have come as far, in front of the same terminator, go on alike.
LEMMA SameNow ==
  ASSUME NEW bodies1, NEW terms1, NEW bodies2, NEW terms2, NEW oracle, NEW s, NEW t,
         Unended(s), Unended(t), Now(bodies1, s) = Now(bodies2, t),
         terms1[s.at] = terms2[t.at]
  PROVE  Same(RunBlock(bodies1, terms1, oracle, s), RunBlock(bodies2, terms2, oracle, t))
<1> DEFINE now == Now(bodies1, s)
<1>1. CASE Len(now) >= MaxTrace
  <2>1. /\ RunBlock(bodies1, terms1, oracle, s) = Cut(s.at, now)
        /\ RunBlock(bodies2, terms2, oracle, t) = Cut(t.at, now)
    BY <1>1, RunCut
  <2> QED
    BY <2>1, StateFacts
<1>2. CASE ~(Len(now) >= MaxTrace) /\ terms1[s.at].kind = "ret"
  <2>1. /\ RunBlock(bodies1, terms1, oracle, s) = Returned(s.at, now, terms1[s.at].val)
        /\ RunBlock(bodies2, terms2, oracle, t) = Returned(t.at, now, terms1[s.at].val)
    BY <1>2, RunReturns
  <2> QED
    BY <2>1, StateFacts
<1>3. CASE ~(Len(now) >= MaxTrace) /\ terms1[s.at].kind # "ret"
  <2>1. /\ RunBlock(bodies1, terms1, oracle, s) = At(Goes(terms1[s.at], oracle, Len(now)), now)
        /\ RunBlock(bodies2, terms2, oracle, t) = At(Goes(terms1[s.at], oracle, Len(now)), now)
    BY <1>3, RunGoesOn
  <2> QED
    BY <2>1 DEF Same
<1> QED
  BY <1>1, <1>2, <1>3

\* A run that is in front of an empty block with a branch is behind it next.
LEMMA ChainWalked ==
  ASSUME NEW oracle, NEW A, IsRun(insts, term, oracle, A),
         NEW k \in Nat, NEW l \in Labels, NEW trace \in Seq(Insts), ~(Len(trace) >= MaxTrace),
         A[k] = At(l, trace), NEW m \in Chain(l)
  PROVE  \E j \in Nat : k <= j /\ A[j] = At(m, trace)
<1> DEFINE S == {x \in Labels : \E j \in Nat : k <= j /\ A[j] = At(x, trace)}
<1>1. S \in SUBSET Labels /\ l \in S
  OBVIOUS
<1>2. ASSUME NEW b \in S \intersect Transparent PROVE term[b].to \in S
  <2>1. PICK j \in Nat : k <= j /\ A[j] = At(b, trace)
    OBVIOUS
  <2>2. insts[b] = <<>> /\ term[b].kind = "br" /\ term[b] \in Term /\ b \in Labels
    BY DEF Transparent, IsRun, Program
  <2>3. Unended(A[j]) /\ A[j].at = b /\ A[j].trace = trace
    BY <2>1 DEF Unended, At
  <2>4. Now(insts, A[j]) = trace
    BY <2>2, <2>3 DEF Now
  <2>5. A[j + 1] = RunBlock(insts, term, oracle, A[j])
    BY DEF IsRun
  <2>6. Goes(term[b], oracle, Len(trace)) = term[b].to /\ term[b].to \in Labels
    BY <2>2, TermFacts DEF Goes
  <2>7. A[j + 1] = At(term[b].to, trace)
    <3>1. term[A[j].at].kind # "ret"
      BY <2>2, <2>3
    <3>2. RunBlock(insts, term, oracle, A[j])
            = At(Goes(term[A[j].at], oracle, Len(Now(insts, A[j]))), Now(insts, A[j]))
      BY <2>3, <2>4, <3>1, RunGoesOn
    <3> QED
      BY <2>3, <2>4, <2>5, <2>6, <3>2
  <2>8. j + 1 \in Nat /\ k <= j + 1
    BY <2>1
  <2> QED
    BY <2>6, <2>7, <2>8
<1>3. m \in S
  BY <1>1, <1>2 DEF Chain
<1> QED
  BY <1>3

-----------------------------------------------------------------------------
(***************************************************************************)
(* Pass by pass: where a block of the rewritten kernel takes a run, the    *)
(* run of the kernel before the pass comes to.                             *)
(***************************************************************************)
Follows(oracle, A) ==
  \A m \in Nat : Unended(A[m]) =>
     \E j \in Nat : m < j /\ Same(A[j], RunBlock(insts', term', oracle, A[m]))

\* A block the pass has left alone does what it did.
LEMMA BlockUntouched ==
  ASSUME NEW oracle, NEW A, IsRun(insts, term, oracle, A), NEW m \in Nat, Unended(A[m]),
         insts'[A[m].at] = insts[A[m].at], term'[A[m].at] = term[A[m].at]
  PROVE  \E j \in Nat : m < j /\ Same(A[j], RunBlock(insts', term', oracle, A[m]))
<1>1. A[m + 1] = RunBlock(insts, term, oracle, A[m])
  BY DEF IsRun
<1>2. Now(insts, A[m]) = Now(insts', A[m])
  BY DEF Now
<1>3. Same(A[m + 1], RunBlock(insts', term', oracle, A[m]))
  BY <1>1, <1>2, SameNow
<1> QED
  BY <1>3

\* The branch goes where the constant sends it.
LEMMA FoldBranchesFollows ==
  ASSUME IInv, FoldBranches, NEW oracle, NEW A, IsRun(insts, term, oracle, A)
  PROVE  Follows(oracle, A)
<1> SUFFICES ASSUME NEW m \in Nat, Unended(A[m])
             PROVE  \E j \in Nat : m < j /\ Same(A[j], RunBlock(insts', term', oracle, A[m]))
  BY DEF Follows
<1> DEFINE b == A[m].at
           now == Now(insts, A[m])
<1>1. b \in Labels /\ term[b] \in Term
  BY DEF IsRun, RunState, IInv, TypeOK
<1>2. insts' = insts
  BY DEF FoldBranches
<1>3. CASE ~(b \in blocks /\ term[b].kind = "cond" /\ term[b].cond \in BOOLEAN)
  <2>1. term'[b] = term[b]
    BY <1>1, <1>3 DEF FoldBranches
  <2> QED
    BY <1>2, <2>1, BlockUntouched
<1>4. CASE b \in blocks /\ term[b].kind = "cond" /\ term[b].cond \in BOOLEAN
  <2>1. term'[b] = Br(IF term[b].cond THEN term[b].yes ELSE term[b].no)
    BY <1>1, <1>4 DEF FoldBranches
  <2>2. Goes(term'[b], oracle, Len(now)) = Goes(term[b], oracle, Len(now))
    BY <1>4, <2>1 DEF Goes, Br
  <2>3. term'[b].kind # "ret" /\ term[b].kind # "ret"
    BY <1>4, <2>1 DEF Br
  <2>4. A[m + 1] = RunBlock(insts, term, oracle, A[m])
    BY DEF IsRun
  <2>5. Now(insts', A[m]) = now
    BY <1>2 DEF Now
  <2>6. RunBlock(insts', term', oracle, A[m]) = RunBlock(insts, term, oracle, A[m])
    <3>1. CASE Len(now) >= MaxTrace
      BY <3>1, <2>5, RunCut
    <3>2. CASE ~(Len(now) >= MaxTrace)
      BY <3>2, <2>2, <2>3, <2>5, RunGoesOn
    <3> QED
      BY <3>1, <3>2
  <2>7. Same(A[m + 1], RunBlock(insts', term', oracle, A[m]))
    BY <2>4, <2>6 DEF Same
  <2> QED
    BY <2>7
<1> QED
  BY <1>3, <1>4

\* Executing two blocks is executing the block that holds both bodies.
LEMMA ConcatAssociative ==
  ASSUME NEW p \in Seq(Insts), NEW q \in Seq(Insts), NEW r \in Seq(Insts)
  PROVE  p \o (q \o r) = (p \o q) \o r
  OBVIOUS

\* A prefix of the first part is one of the whole.
LEMMA PrefixOfConcat ==
  ASSUME NEW p \in Seq(Insts), NEW q \in Seq(Insts), NEW n \in Nat, Len(p) >= n
  PROVE  Len(p \o q) >= n /\ SubSeq(p \o q, 1, n) = SubSeq(p, 1, n)
  OBVIOUS

\* The block does at once what it and the block it took over did.
LEMMA MergeChainFollows ==
  ASSUME IInv, NEW b \in blocks, MergeChain(b),
         NEW oracle, NEW A, IsRun(insts, term, oracle, A)
  PROVE  Follows(oracle, A)
<1> SUFFICES ASSUME NEW m \in Nat, Unended(A[m])
             PROVE  \E j \in Nat : m < j /\ Same(A[j], RunBlock(insts', term', oracle, A[m]))
  BY DEF Follows
<1> DEFINE t == term[b].to
           now == Now(insts, A[m])
           both == now \o insts[t]
           next == RunBlock(insts', term', oracle, A[m])
<1>1. A[m] \in RunState /\ A[m].at \in Labels /\ A[m].trace \in Seq(Insts)
  BY DEF IsRun, RunState
<1>2. /\ b \in Labels /\ term[b] \in Term /\ term[b].kind = "br" /\ t \in Labels
      /\ insts \in [Labels -> Seq(Insts)] /\ term \in [Labels -> Term]
  BY DEF MergeChain, IInv, TypeOK
<1>3. /\ insts' = [insts EXCEPT ![b] = insts[b] \o insts[t]]
      /\ term' = [term EXCEPT ![b] = term[t]]
  BY DEF MergeChain
<1>4. CASE A[m].at # b
  <2>1. insts'[A[m].at] = insts[A[m].at] /\ term'[A[m].at] = term[A[m].at]
    BY <1>1, <1>2, <1>3, <1>4
  <2> QED
    BY <2>1, BlockUntouched
<1>5. CASE A[m].at = b
  <2>1. insts'[b] = insts[b] \o insts[t] /\ term'[b] = term[t]
    BY <1>2, <1>3
  <2>2. now \in Seq(Insts) /\ insts[t] \in Seq(Insts) /\ now = A[m].trace \o insts[b]
    BY <1>1, <1>2, <1>5 DEF Now
  <2>3. Now(insts', A[m]) = both
    <3>1. Now(insts', A[m]) = A[m].trace \o (insts[b] \o insts[t])
      BY <1>5, <2>1 DEF Now
    <3>2. insts[b] \in Seq(Insts)
      BY <1>2
    <3>3. A[m].trace \o (insts[b] \o insts[t]) = (A[m].trace \o insts[b]) \o insts[t]
      BY <1>1, <2>2, <3>2, ConcatAssociative
    <3> HIDE DEF now
    <3> QED
      BY <2>2, <3>1, <3>3
  <2>4. A[m + 1] = RunBlock(insts, term, oracle, A[m])
        /\ A[(m + 1) + 1] = RunBlock(insts, term, oracle, A[m + 1])
    BY DEF IsRun
  <2>5. CASE Len(now) >= MaxTrace
    <3>1. A[m + 1] = Cut(b, now)
      BY <1>5, <2>4, <2>5, RunCut
    <3>2. Len(both) >= MaxTrace /\ SubSeq(both, 1, MaxTrace) = SubSeq(now, 1, MaxTrace)
      BY <2>2, <2>5, PrefixOfConcat, CfgAssumption
    <3>3. next = Cut(b, both)
      BY <1>5, <2>3, <3>2, RunCut
    <3>4. Cut(b, both) = Cut(b, now)
      BY <3>2 DEF Cut
    <3>5. Same(A[m + 1], next)
      BY <3>1, <3>3, <3>4 DEF Same
    <3> QED
      BY <3>5
  <2>6. CASE ~(Len(now) >= MaxTrace)
    <3>1. A[m + 1] = At(t, now)
      <4>1. Goes(term[b], oracle, Len(now)) = t
        BY <1>2 DEF Goes
      <4> QED
        BY <1>2, <1>5, <2>4, <2>6, <4>1, RunGoesOn
    <3>2. Unended(A[m + 1]) /\ A[m + 1].at = t /\ A[m + 1].trace = now
      BY <3>1, StateFacts
    <3>5. Now(insts, A[m + 1]) = both
      <4> HIDE DEF now
      <4> QED
        BY <3>2 DEF Now
    <3>3. Same(A[(m + 1) + 1], next)
      BY <1>5, <2>1, <2>3, <2>4, <3>2, <3>5, SameNow
    <3>4. (m + 1) + 1 \in Nat /\ m < (m + 1) + 1
      OBVIOUS
    <3> QED
      BY <3>3, <3>4
  <2> QED
    BY <2>5, <2>6
<1> QED
  BY <1>4, <1>5

\* The return of the empty block comes next in any case.
LEMMA FoldEmptyRetBlocksFollows ==
  ASSUME IInv, FoldEmptyRetBlocks, NEW oracle, NEW A, IsRun(insts, term, oracle, A)
  PROVE  Follows(oracle, A)
<1> SUFFICES ASSUME NEW m \in Nat, Unended(A[m])
             PROVE  \E j \in Nat : m < j /\ Same(A[j], RunBlock(insts', term', oracle, A[m]))
  BY DEF Follows
<1> DEFINE b == A[m].at
           t == term[b].to
           now == Now(insts, A[m])
           next == RunBlock(insts', term', oracle, A[m])
<1>1. /\ b \in Labels /\ term[b] \in Term /\ now \in Seq(Insts)
      /\ insts \in [Labels -> Seq(Insts)] /\ term \in [Labels -> Term]
  BY NowType DEF IsRun, RunState, IInv, TypeOK
<1>2. insts' = insts
  BY DEF FoldEmptyRetBlocks
<1>3. CASE ~(b \in blocks /\ term[b].kind = "br" /\ t \in EmptyRet)
  <2>1. term'[b] = term[b]
    BY <1>1, <1>3 DEF FoldEmptyRetBlocks
  <2> QED
    BY <1>2, <2>1, BlockUntouched
<1>4. CASE b \in blocks /\ term[b].kind = "br" /\ t \in EmptyRet
  <2>1. term'[b] = term[t] /\ insts[t] = <<>>
    BY <1>1, <1>4 DEF FoldEmptyRetBlocks, EmptyRet
  <2>2. Now(insts', A[m]) = now
    BY <1>2 DEF Now
  <2>3. A[m + 1] = RunBlock(insts, term, oracle, A[m])
        /\ A[(m + 1) + 1] = RunBlock(insts, term, oracle, A[m + 1])
    BY DEF IsRun
  <2>4. CASE Len(now) >= MaxTrace
    <3>1. A[m + 1] = Cut(b, now) /\ next = Cut(b, now)
      BY <2>2, <2>3, <2>4, RunCut
    <3>2. Same(A[m + 1], next)
      BY <3>1, StateFacts
    <3> QED
      BY <3>2
  <2>5. CASE ~(Len(now) >= MaxTrace)
    <3>1. A[m + 1] = At(t, now)
      <4>1. Goes(term[b], oracle, Len(now)) = t
        BY <1>4 DEF Goes
      <4> QED
        BY <1>4, <2>3, <2>5, <4>1, RunGoesOn
    <3>2. Unended(A[m + 1]) /\ A[m + 1].at = t /\ A[m + 1].trace = now
      BY <3>1, StateFacts
    <3>3. Now(insts, A[m + 1]) = now
      <4>1. now \o <<>> = now
        BY <1>1
      <4> HIDE DEF now
      <4> QED
        BY <2>1, <3>2, <4>1 DEF Now
    <3>4. Same(A[(m + 1) + 1], next)
      BY <2>1, <2>2, <2>3, <3>2, <3>3, SameNow
    <3>5. (m + 1) + 1 \in Nat /\ m < (m + 1) + 1
      OBVIOUS
    <3> QED
      BY <3>4, <3>5
  <2> QED
    BY <2>4, <2>5
<1> QED
  BY <1>3, <1>4

\* The end of a chain of empty blocks is where the run comes to as well.
LEMMA ThreadEmptyBlocksFollows ==
  ASSUME IInv, ThreadEmptyBlocks, NEW oracle, NEW A, IsRun(insts, term, oracle, A)
  PROVE  Follows(oracle, A)
<1> SUFFICES ASSUME NEW m \in Nat, Unended(A[m])
             PROVE  \E j \in Nat : m < j /\ Same(A[j], RunBlock(insts', term', oracle, A[m]))
  BY DEF Follows
<1> PICK fwd \in [Transparent -> Labels] :
      /\ \A l \in Transparent : Forwards(l, fwd[l])
      /\ term' = [b \in Labels |-> IF b \in blocks THEN Retarget(term[b], fwd) ELSE term[b]]
      /\ insts' = insts
  BY DEF ThreadEmptyBlocks
<1> DEFINE b == A[m].at
           t == term[b]
           now == Now(insts, A[m])
           next == RunBlock(insts', term', oracle, A[m])
           f(l) == IF l \in DOMAIN fwd THEN fwd[l] ELSE l
<1>1. b \in Labels /\ t \in Term /\ now \in Seq(Insts)
  BY NowType DEF IsRun, RunState, IInv, TypeOK
<1>2. CASE b \notin blocks
  <2>1. term'[b] = term[b]
    BY <1>1, <1>2
  <2> QED
    BY <2>1, BlockUntouched
<1>3. CASE t.kind = "ret" /\ b \in blocks
  <2>1. term'[b] = term[b]
    BY <1>1, <1>3 DEF Retarget
  <2> QED
    BY <2>1, BlockUntouched
<1>4. CASE t.kind # "ret" /\ b \in blocks
  <2>1. A[m + 1] = RunBlock(insts, term, oracle, A[m])
    BY DEF IsRun
  <2>2. Now(insts', A[m]) = now
    BY DEF Now
  <2>3. CASE Len(now) >= MaxTrace
    <3>1. A[m + 1] = Cut(b, now) /\ next = Cut(b, now)
      BY <2>1, <2>2, <2>3, RunCut
    <3>2. Same(A[m + 1], next)
      BY <3>1, StateFacts
    <3> QED
      BY <3>2
  <2>4. CASE ~(Len(now) >= MaxTrace)
    <3> DEFINE n == Len(now)
               l == Goes(t, oracle, n)
    <3>1. term'[b] = Retarget(t, fwd)
      BY <1>1, <1>4
    <3>2. term'[b].kind # "ret" /\ Goes(term'[b], oracle, n) = f(l)
      <4>1. CASE t.kind = "br"
        <5>1. term'[b] = Br(f(t.to))
          BY <3>1, <4>1 DEF Retarget
        <5> QED
          BY <4>1, <5>1 DEF Br, Goes
      <4>2. CASE t.kind = "cond"
        <5>1. \/ term'[b] = Br(f(t.yes)) /\ f(t.yes) = f(t.no)
              \/ term'[b] = CondBr(t.cond, f(t.yes), f(t.no))
          BY <3>1, <4>2 DEF Retarget
        <5>2. l = t.yes \/ l = t.no
          BY <4>2 DEF Goes
        <5>3. CASE term'[b] = Br(f(t.yes)) /\ f(t.yes) = f(t.no)
          <6>1. Goes(term'[b], oracle, n) = f(t.yes) /\ term'[b].kind = "br"
            BY <5>3 DEF Br, Goes
          <6> QED
            BY <5>2, <5>3, <6>1
        <5>4. CASE term'[b] = CondBr(t.cond, f(t.yes), f(t.no))
          BY <4>2, <5>4 DEF CondBr, Goes
        <5> QED
          BY <5>1, <5>3, <5>4
      <4> QED
        BY <1>1, <1>4, <4>1, <4>2, TermFacts
    <3>3. l \in Labels
      BY <1>1, <1>4, TermFacts DEF Goes
    <3>4. f(l) \in Chain(l)
      <4>1. CASE l \in Transparent
        BY <4>1 DEF Forwards
      <4>2. CASE l \notin Transparent
        BY <3>3, <4>2 DEF Chain
      <4> QED
        BY <4>1, <4>2
    <3>5. A[m + 1] = At(l, now)
      BY <1>4, <2>1, <2>4, RunGoesOn
    <3>6. next = At(f(l), now)
      BY <2>2, <2>4, <3>2, RunGoesOn
    <3> HIDE DEF f, l, now, next
    <3>7. PICK j \in Nat : m + 1 <= j /\ A[j] = At(f(l), now)
      BY <1>1, <2>4, <3>3, <3>4, <3>5, ChainWalked
    <3>8. m < j /\ Same(A[j], next)
      BY <3>6, <3>7 DEF Same
    <3> QED
      BY <3>8 DEF next
  <2> QED
    BY <2>3, <2>4
<1> QED
  BY <1>2, <1>3, <1>4

\* Dead blocks are not run into, and the instructions of a block do not change
\* with it.
LEMMA DeadBlockElimFollows ==
  ASSUME DeadBlockElim, NEW oracle, NEW A, IsRun(insts, term, oracle, A)
  PROVE  Follows(oracle, A)
<1>1. insts' = insts /\ term' = term
  BY DEF DeadBlockElim
<1> QED
  BY <1>1, BlockUntouched DEF Follows

\* What follows the runs of the kernel before the pass shows the same.
LEMMA FollowsKeepsRuns ==
  ASSUME IInv, IInv', \A oracle \in Oracles :
           Follows(oracle, AfterBlocks(insts, term, oracle))
  PROVE  \A oracle \in Oracles : Run(insts', term', oracle) = Run(insts, term, oracle)
<1> SUFFICES ASSUME NEW oracle \in Oracles
             PROVE  Run(insts', term', oracle) = Run(insts, term, oracle)
  OBVIOUS
<1> DEFINE A == AfterBlocks(insts, term, oracle)
           B == AfterBlocks(insts', term', oracle)
<1>1. Entry \in Labels
  BY DEF IInv, TypeOK, CfgWellFormed
<1>2. Program(insts, term) /\ Program(insts', term')
  BY DEF IInv, TypeOK, Program
<1>3. IsRun(insts, term, oracle, A) /\ IsRun(insts', term', oracle, B)
  BY <1>1, <1>2, AfterFacts
<1>4. \A m \in Nat : Unended(A[m]) =>
        \E j \in Nat : m < j /\ Same(A[j], RunBlock(insts', term', oracle, A[m]))
  BY DEF Follows
<1> HIDE DEF A, B
<1>5. A[LongEnough].trace = B[LongEnough].trace /\ A[LongEnough].ended = B[LongEnough].ended
  BY <1>3, <1>4, Simulation
<1> QED
  BY <1>5 DEF Run, A, B

-----------------------------------------------------------------------------
\* Every pass keeps the types and the well-formedness, so all of optimize does.
LEMMA Invariance == Spec => []IInv
<1>1. IInv /\ [Next]_vars => IInv'
  <2> SUFFICES ASSUME IInv, [Next]_vars PROVE IInv'
    OBVIOUS
  <2>1. CASE FoldBranches
    BY <2>1, FoldBranchesIInv
  <2>2. CASE DeadBlockElim
    BY <2>2, DeadBlockElimIInv
  <2>3. ASSUME NEW b \in blocks, MergeChain(b) PROVE IInv'
    BY <2>3, MergeChainIInv
  <2>4. CASE ThreadEmptyBlocks
    BY <2>4, ThreadEmptyBlocksIInv
  <2>5. CASE FoldEmptyRetBlocks
    BY <2>5, FoldEmptyRetBlocksIInv
  <2>6. CASE UNCHANGED vars
    BY <2>6 DEF vars, IInv, TypeOK, CfgWellFormed
  <2> QED
    BY <2>1, <2>2, <2>3, <2>4, <2>5, <2>6 DEF Next
<1> QED
  BY InitIInv, <1>1, PTL DEF Spec

\* Every variable keeps its type.
THEOREM TypeCorrect == Spec => []TypeOK
  BY Invariance, PTL DEF IInv

\* No pass removes a block some branch still goes to, or the first block, or
\* makes a branch back to it: for every kernel and every order of the passes.
THEOREM CfgWellFormedAlways == Spec => []CfgWellFormed
  BY Invariance, PTL DEF IInv

-----------------------------------------------------------------------------
\* At the start the kernel is the source.
LEMMA InitRunsKept == Init => RunsKept
  BY DEF Init, RunsKept

\* A step is a pass, which keeps the runs, or changes nothing.
LEMMA StepRunsKept == IInv /\ IInv' /\ RunsKept /\ [Next]_vars => RunsKept'
<1> SUFFICES ASSUME IInv, IInv', RunsKept, [Next]_vars PROVE RunsKept'
  OBVIOUS
<1>1. source' = source
  BY DEF Next, vars, FoldBranches, DeadBlockElim, MergeChain, ThreadEmptyBlocks,
         FoldEmptyRetBlocks
<1>2. CASE UNCHANGED vars
  BY <1>2 DEF vars, RunsKept
<1>3. CASE Next
  <2>1. ASSUME NEW oracle \in Oracles
        PROVE  Follows(oracle, AfterBlocks(insts, term, oracle))
    <3> DEFINE A == AfterBlocks(insts, term, oracle)
    <3>1. IsRun(insts, term, oracle, A)
      BY AfterFacts DEF IInv, TypeOK, CfgWellFormed, Program
    <3> HIDE DEF A
    <3>2. CASE FoldBranches
      BY <3>1, <3>2, FoldBranchesFollows DEF A
    <3>3. CASE DeadBlockElim
      BY <3>1, <3>3, DeadBlockElimFollows DEF A
    <3>4. ASSUME NEW b \in blocks, MergeChain(b) PROVE Follows(oracle, A)
      BY <3>1, <3>4, MergeChainFollows
    <3>5. CASE ThreadEmptyBlocks
      BY <3>1, <3>5, ThreadEmptyBlocksFollows DEF A
    <3>6. CASE FoldEmptyRetBlocks
      BY <3>1, <3>6, FoldEmptyRetBlocksFollows DEF A
    <3> QED
      BY <1>3, <3>2, <3>3, <3>4, <3>5, <3>6 DEF Next, A
  <2>2. \A oracle \in Oracles : Run(insts', term', oracle) = Run(insts, term, oracle)
    BY <2>1, FollowsKeepsRuns
  <2> QED
    BY <1>1, <2>2 DEF RunsKept
<1> QED
  BY <1>2, <1>3

\* Whatever passes run, however often and in whatever order, every run of the
\* kernel executes the same instructions and returns the same as in the source:
\* for every kernel, every outcome of the conditions and every length followed.
THEOREM RunsKeptAlways == Spec => []RunsKept
  BY Invariance, InitRunsKept, StepRunsKept, PTL DEF Spec

-----------------------------------------------------------------------------
\* The list is of the blocks left and starts with the entry.
LEMMA BlockListFacts ==
  ASSUME blocks \subseteq Labels, Entry \in blocks
  PROVE  /\ BlockList \in Seq(blocks) /\ BlockList # <<>> /\ BlockList[1] = Entry
         /\ blocks = {BlockList[i] : i \in DOMAIN BlockList}
<1> DEFINE N == Len(ListOrder)
           S == Seq(blocks)
           Keep(s, l) == IF l \in blocks THEN Append(s, l) ELSE s
           D == [x \in S \X (1..N) |-> Keep(x[1], ListOrder[x[2]])]
           Is(f) == f = [i \in 0..N |->
                           IF i = 0 THEN <<>>
                           ELSE IF ListOrder[i] \in blocks THEN Append(f[i - 1], ListOrder[i])
                                ELSE f[i - 1]]
           K == CHOOSE f : Is(f)
<1>1. /\ N \in Nat /\ N >= 1 /\ ListOrder[1] = Entry
      /\ Labels = {ListOrder[i] : i \in 1..N}
  BY CfgAssumption
<1>2. \A s \in S : \A l : Keep(s, l) \in S
  OBVIOUS
<1>3. D \in [S \X (1..N) -> S] /\ <<>> \in S
  BY <1>2
<1>4. \A s \in S, i \in 1..N : D[<<s, i>>] = Keep(s, ListOrder[i])
  OBVIOUS
<1> HIDE DEF D, S, N
<1>5. PICK g \in [0..N -> S] : Recursive(N, <<>>, D, g)
  BY <1>1, <1>3, RecursionExists
<1>6. Is(g)
  <2>1. ASSUME NEW i \in 0..N
        PROVE  g[i] = IF i = 0 THEN <<>>
                      ELSE IF ListOrder[i] \in blocks THEN Append(g[i - 1], ListOrder[i])
                           ELSE g[i - 1]
    <3>1. CASE i = 0
      BY <1>1, <1>5, <3>1 DEF Recursive
    <3>2. CASE i # 0
      <4>1. i \in 1..N /\ i - 1 \in 0..N
        BY <1>1, <3>2
      <4>2. g[i] = D[<<g[i - 1], i>>] /\ g[i - 1] \in S
        BY <1>5, <3>2, <4>1 DEF Recursive
      <4> QED
        BY <4>1, <4>2, <3>2, <1>4
    <3> QED
      BY <3>1, <3>2
  <2> QED
    BY <2>1
<1>7. BlockList = K[N]
  BY DEF BlockList, N
<1>8. Is(K)
  BY <1>6
<1> HIDE DEF K
<1>9. K[0] = <<>> /\ \A i \in 1..N : K[i] = Keep(K[i - 1], ListOrder[i])
  <2>1. \A i \in 0..N : K[i] = IF i = 0 THEN <<>> ELSE Keep(K[i - 1], ListOrder[i])
    BY <1>8
  <2>2. 0 \in 0..N /\ \A i \in 1..N : i \in 0..N /\ i # 0
    BY <1>1
  <2> QED
    BY <2>1, <2>2
\* After i labels: the list of those of them that are blocks.
<1> DEFINE Listed(i) == /\ K[i] \in S
                        /\ {K[i][k] : k \in DOMAIN K[i]} = blocks \intersect {ListOrder[j] : j \in 1..i}
                        /\ i >= 1 => K[i] # <<>> /\ K[i][1] = Entry
           Good == {i \in 0..N : Listed(i)}
<1>10. 0 \in Good
  BY <1>1, <1>3, <1>9
<1>11. ASSUME NEW i \in 0..N, i \in Good, i < N PROVE i + 1 \in Good
  <2>0. i + 1 \in 0..N /\ i + 1 \in 1..N /\ (i + 1) - 1 = i
    BY <1>1, <1>11
  <2>1. i + 1 \in 0..N /\ i + 1 \in 1..N /\ (i + 1) - 1 = i /\ Listed(i)
    <3> HIDE DEF Listed
    <3> QED
      BY <1>11, <2>0
  <2>2. K[i + 1] = Keep(K[i], ListOrder[i + 1])
    BY <2>1, <1>9
  <2>3. {ListOrder[j] : j \in 1..(i + 1)} = {ListOrder[j] : j \in 1..i} \union {ListOrder[i + 1]}
    <3>1. 1..(i + 1) = (1..i) \union {i + 1}
      BY <2>1
    <3> QED
      BY <3>1
  <2>4. CASE ListOrder[i + 1] \notin blocks
    <3>1. K[i + 1] = K[i]
      BY <2>2, <2>4
    <3>2. i + 1 >= 1 => i >= 1
      <4>1. i # 0
        BY <2>4, <1>1
      <4> QED
        BY <4>1, <1>1
    <3> QED
      BY <3>1, <3>2, <2>1, <2>3, <2>4
  <2>5. CASE ListOrder[i + 1] \in blocks
    <3>1. K[i + 1] = Append(K[i], ListOrder[i + 1]) /\ K[i] \in Seq(blocks)
      BY <2>1, <2>2, <2>5 DEF S
    <3>2. /\ K[i + 1] \in Seq(blocks) /\ Len(K[i + 1]) = Len(K[i]) + 1 /\ Len(K[i]) \in Nat
          /\ \A k \in 1..Len(K[i]) : K[i + 1][k] = K[i][k]
          /\ K[i + 1][Len(K[i]) + 1] = ListOrder[i + 1]
      BY <3>1, <2>5
    <3>3. DOMAIN K[i] = 1..Len(K[i]) /\ DOMAIN K[i + 1] = DOMAIN K[i] \union {Len(K[i]) + 1}
      BY <3>1, <3>2
    <3>4. {K[i + 1][k] : k \in DOMAIN K[i + 1]} = {K[i][k] : k \in DOMAIN K[i]} \union {ListOrder[i + 1]}
      <4> HIDE DEF Listed, Good, Keep, Is
      <4> QED
        BY <3>2, <3>3
    <3>5. K[i + 1] # <<>> /\ K[i + 1][1] = Entry
      <4>1. CASE i = 0
        BY <4>1, <3>2, <1>1, <1>9
      <4>2. CASE i # 0
        <5>1. i >= 1 /\ K[i] # <<>> /\ K[i][1] = Entry
          BY <4>2, <2>1, <1>1
        <5>2. 1 \in 1..Len(K[i])
          BY <5>1, <3>1, <3>2
        <5> QED
          BY <5>1, <5>2, <3>2
      <4> QED
        BY <4>1, <4>2
    <3> QED
      BY <3>2, <3>4, <3>5, <2>1, <2>3, <2>5 DEF S
  <2> QED
    BY <2>4, <2>5
<1> HIDE DEF Good
<1>12. 0..N \subseteq Good
  BY <1>1, <1>10, <1>11, UpTo
<1>13. Listed(N)
  BY <1>1, <1>12 DEF Good
<1>14. blocks \intersect {ListOrder[j] : j \in 1..N} = blocks
  BY <1>1
<1> QED
  BY <1>1, <1>7, <1>13, <1>14 DEF S

\* Where there is a first block, the dominators and the tree are right.
LEMMA BlocksDominated ==
  ASSUME blocks \subseteq Labels, Entry \in blocks
  PROVE  DominatorsExact
<1> DEFINE succ == [b \in blocks |-> Targets(term[b])]
<1>1. DOMAIN succ = blocks
  OBVIOUS
<1> HIDE DEF succ
<1>2. IsFiniteSet(blocks)
  BY CfgAssumption, FS_Subset
<1>3. Graph(BlockList, succ)
  BY <1>1, <1>2, BlockListFacts DEF Graph
<1>4. DominatorsRight(BlockList, succ) /\ TreeRight(BlockList, succ)
  BY <1>3, ComputeDominatorsRight
<1> QED
  BY <1>4 DEF DominatorsExact, succ

\* After any passes, the dominators that verify_kernel computes of the blocks
\* left are the blocks on every path, and their tree is a tree: for kernels of
\* every size, blocks that are not reached included.
THEOREM DominatorsExactAlways == Spec => []DominatorsExact
<1>1. IInv => DominatorsExact
  BY BlocksDominated DEF IInv, TypeOK, CfgWellFormed
<1> QED
  BY <1>1, Invariance, PTL
=============================================================================
