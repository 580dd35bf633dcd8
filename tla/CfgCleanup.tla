----------------------------- MODULE CfgCleanup -----------------------------
(***************************************************************************)
(* The passes of ir/optimize.py that change the control-flow graph and     *)
(* nothing else: folding a branch on a constant, dead_block_elim,          *)
(* merge_linear_chains, thread_empty_blocks and fold_empty_ret_blocks.     *)
(* optimize runs them many times between other passes; here they run in    *)
(* any order, any number of times.                                         *)
(*                                                                         *)
(* kernel.blocks is a list the passes only delete from, so its order is a  *)
(* fixed order of the labels and the variable is the set of those left;    *)
(* kernel.blocks[0] is the block Entry.  The instructions of a block are a *)
(* sequence of tokens.                                                     *)
(***************************************************************************)
EXTENDS Dominators

CONSTANTS
  Labels,    \* block labels
  Entry,     \* label of the first block
  ListOrder, \* all labels in the order of kernel.blocks
  Insts,     \* instruction tokens
  Conds,     \* branch conditions: values, and the constants TRUE and FALSE
  RetVals,   \* values returned
  Kernels,   \* [blocks, insts, term] at the start
  MaxTrace   \* bound: instructions of a run that is followed

Term == [kind : {"br"}, to : Labels]
          \union [kind : {"cond"}, cond : Conds, yes : Labels, no : Labels]
          \union [kind : {"ret"}, val : RetVals]

Br(l) == [kind |-> "br", to |-> l]
CondBr(c, y, n) == [kind |-> "cond", cond |-> c, yes |-> y, no |-> n]

\* Labels a terminator may branch to.
Targets(t) == CASE t.kind = "br" -> {t.to}
                [] t.kind = "cond" -> {t.yes, t.no}
                [] t.kind = "ret" -> {}

\* What the parser hands over: the entry is there, branches go to blocks, and
\* none goes back to the entry.
WellFormedKernel(k) ==
  /\ k.blocks \subseteq Labels /\ Entry \in k.blocks
  /\ k.insts \in [Labels -> Seq(Insts)]
  /\ k.term \in [Labels -> Term]
  /\ \A b \in k.blocks : Targets(k.term[b]) \subseteq k.blocks \ {Entry}

ASSUME CfgAssumption ==
  /\ \A k \in Kernels : WellFormedKernel(k)
  /\ IsFiniteSet(Labels) /\ MaxTrace \in Nat
  /\ ListOrder \in Seq(Labels) /\ Labels = {ListOrder[i] : i \in DOMAIN ListOrder}
  /\ ListOrder # <<>> /\ ListOrder[1] = Entry

VARIABLES
  source,   \* the kernel before the passes
  blocks,   \* labels of kernel.blocks
  insts,    \* label -> instructions
  term      \* label -> terminator

vars == <<source, blocks, insts, term>>

\* kernel.blocks: the labels left, in order.
BlockList ==
  LET kept[i \in 0..Len(ListOrder)] ==
        IF i = 0 THEN <<>>
        ELSE IF ListOrder[i] \in blocks THEN Append(kept[i - 1], ListOrder[i]) ELSE kept[i - 1]
  IN  kept[Len(ListOrder)]

Init ==
  /\ source \in Kernels
  /\ blocks = source.blocks
  /\ insts = source.insts
  /\ term = source.term

-----------------------------------------------------------------------------
\* Variant: the arms are mixed up.
FoldBranchesSwapped ==
  /\ term' = [b \in Labels |->
                IF b \in blocks /\ term[b].kind = "cond" /\ term[b].cond \in BOOLEAN
                  THEN Br(IF term[b].cond THEN term[b].no ELSE term[b].yes)
                  ELSE term[b]]
  /\ UNCHANGED <<source, blocks, insts>>

\* The last part of constant_fold: a branch whose condition is a constant.
FoldBranches ==
  /\ term' = [b \in Labels |->
                IF b \in blocks /\ term[b].kind = "cond" /\ term[b].cond \in BOOLEAN
                  THEN Br(IF term[b].cond THEN term[b].yes ELSE term[b].no)
                  ELSE term[b]]
  /\ UNCHANGED <<source, blocks, insts>>

\* Blocks reachable from the entry: in every set that contains the entry and
\* is closed under branches.
Closed(S) == \A b \in S \intersect blocks : Targets(term[b]) \subseteq S
Reachable == {l \in Labels : \A S \in SUBSET Labels : (Entry \in S /\ Closed(S)) => l \in S}

DeadBlockElim ==
  /\ blocks' = blocks \intersect Reachable
  /\ UNCHANGED <<source, insts, term>>

\* Variants: the block is appended as one instruction (append for extend); the
\* other predecessors are not counted.
MergeChainAppend(b) ==
  /\ term[b].kind = "br"
  /\ term[b].to \in blocks
  /\ \A c \in blocks \ {b} : term[b].to \notin Targets(term[c])
  /\ LET t == term[b].to IN
       /\ insts' = [insts EXCEPT ![b] = Append(@, insts[t])]
       /\ term' = [term EXCEPT ![b] = term[t]]
       /\ blocks' = blocks \ {t}
  /\ UNCHANGED source
MergeChainShared(b) ==
  /\ term[b].kind = "br"
  /\ term[b].to \in blocks \ {b}
  /\ LET t == term[b].to IN
       /\ insts' = [insts EXCEPT ![b] = @ \o insts[t]]
       /\ term' = [term EXCEPT ![b] = term[t]]
       /\ blocks' = blocks \ {t}
  /\ UNCHANGED source

\* One round of merge_linear_chains: b ends in an unconditional branch to a
\* block with no other predecessor (its pred_count is 1), and takes it over.
MergeChain(b) ==
  /\ term[b].kind = "br"
  /\ term[b].to \in blocks
  /\ \A c \in blocks \ {b} : term[b].to \notin Targets(term[c])
  /\ LET t == term[b].to IN
       /\ insts' = [insts EXCEPT ![b] = @ \o insts[t]]
       /\ term' = [term EXCEPT ![b] = term[t]]
       /\ blocks' = blocks \ {t}
  /\ UNCHANGED source

-----------------------------------------------------------------------------
Transparent == {b \in blocks \ {Entry} : insts[b] = <<>> /\ term[b].kind = "br"}

\* The labels _forward meets from l: l, and the target of every transparent
\* block among them.
Chain(l) == {m \in Labels : \A S \in SUBSET Labels :
               (l \in S /\ \A b \in S \intersect Transparent : term[b].to \in S) => m \in S}
OnCycle(l) == l \in Transparent /\ l \in Chain(term[l].to)

\* _forward(l) = m: m is the end of the chain, or the first label met twice.
Forwards(l, m) ==
  /\ m \in Chain(l)
  /\ \/ m \notin Transparent
     \/ /\ OnCycle(m)
        /\ m = l \/ \E b \in Chain(l) \intersect Transparent : ~OnCycle(b) /\ term[b].to = m

\* The terminator with its targets forwarded; a conditional branch that
\* changed and has one target left becomes unconditional.
Retarget(t, fwd) ==
  LET f(l) == IF l \in DOMAIN fwd THEN fwd[l] ELSE l IN
  CASE t.kind = "ret" -> t
    [] t.kind = "br" -> Br(f(t.to))
    [] t.kind = "cond" ->
         IF f(t.yes) = f(t.no) /\ (f(t.yes) # t.yes \/ f(t.no) # t.no)
           THEN Br(f(t.yes))
           ELSE CondBr(t.cond, f(t.yes), f(t.no))

ThreadEmptyBlocks ==
  \E fwd \in [Transparent -> Labels] :
    /\ \A l \in Transparent : Forwards(l, fwd[l])
    /\ LET threaded == [b \in Labels |-> IF b \in blocks THEN Retarget(term[b], fwd) ELSE term[b]]
           referenced == {Entry} \union UNION {Targets(threaded[b]) : b \in blocks}
       IN  /\ term' = threaded
           /\ blocks' = blocks \ (Transparent \ referenced)
    /\ UNCHANGED <<source, insts>>

EmptyRet == {b \in blocks \ {Entry} : insts[b] = <<>> /\ term[b].kind = "ret"}

FoldEmptyRetBlocks ==
  /\ term' = [b \in Labels |->
                IF b \in blocks /\ term[b].kind = "br" /\ term[b].to \in EmptyRet
                  THEN term[term[b].to] ELSE term[b]]
  /\ UNCHANGED <<source, blocks, insts>>

Next ==
  \/ FoldBranches
  \/ DeadBlockElim
  \/ \E b \in blocks : MergeChain(b)
  \/ ThreadEmptyBlocks
  \/ FoldEmptyRetBlocks

Spec == Init /\ [][Next]_vars

-----------------------------------------------------------------------------
TypeOK ==
  /\ blocks \subseteq Labels
  /\ insts \in [Labels -> Seq(Insts)]
  /\ term \in [Labels -> Term]

\* Whatever passes have run, the kernel still starts at its first block, every
\* branch goes to a block that is still there, and none goes to the entry
\* (verify_kernel checks the targets; emission leaves out the entry's label,
\* so a branch to it would not assemble).
CfgWellFormed ==
  /\ Entry \in blocks
  /\ \A b \in blocks : Targets(term[b]) \subseteq blocks \ {Entry}

\* verify_kernel, which optimize runs after every pass when it is asked to,
\* computes the dominators and the tree of the blocks that are left; both are
\* right whatever the passes made of the graph.
DominatorsExact ==
  LET succ == [b \in blocks |-> Targets(term[b])]
  IN  DominatorsRight(BlockList, succ) /\ TreeRight(BlockList, succ)

(***************************************************************************)
(* Runs.  The outcome of a condition depends on the instructions executed  *)
(* so far, so an oracle is a choice for every length of the trace; a run   *)
(* is followed until it returns or its trace is MaxTrace long.             *)
(***************************************************************************)
Oracles == [0..MaxTrace -> BOOLEAN]

\* The label a branch goes to after n instructions.
Goes(t, oracle, n) ==
  IF t.kind = "br" THEN t.to
  ELSE IF (IF t.cond \in BOOLEAN THEN t.cond ELSE oracle[n]) THEN t.yes ELSE t.no

\* One block of a run: `at' is the block to execute, `ended' is empty until the
\* run is cut or returns.
RunBlock(bodies, terms, oracle, s) ==
  LET now == s.trace \o bodies[s.at]
      t == terms[s.at]
  IN  IF s.ended # <<>> THEN s
      ELSE IF Len(now) >= MaxTrace
        THEN [at |-> s.at, trace |-> SubSeq(now, 1, MaxTrace), ended |-> <<"cut">>]
      ELSE IF t.kind = "ret"
        THEN [at |-> s.at, trace |-> now, ended |-> <<"ret", t.val>>]
      ELSE [at |-> Goes(t, oracle, Len(now)), trace |-> now, ended |-> <<>>]

AfterBlocks(bodies, terms, oracle) ==
  LET after[n \in Nat] ==
        IF n = 0 THEN [at |-> Entry, trace |-> <<>>, ended |-> <<>>]
        ELSE RunBlock(bodies, terms, oracle, after[n - 1])
  IN  after

\* A run that visits a label twice with the same trace goes round for ever: as
\* many blocks as there are labels and lengths of a trace are enough.
LongEnough == (MaxTrace + 1) * Cardinality(Labels)

Run(bodies, terms, oracle) ==
  LET last == AfterBlocks(bodies, terms, oracle)[LongEnough]
  IN  <<last.trace, last.ended>>

\* The passes change nothing a run can observe: for every outcome of the
\* conditions, the same instructions in the same order and the same return.
RunsKept ==
  \A oracle \in Oracles :
    Run(insts, term, oracle) = Run(source.insts, source.term, oracle)
=============================================================================
