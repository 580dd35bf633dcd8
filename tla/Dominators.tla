----------------------------- MODULE Dominators -----------------------------
(***************************************************************************)
(* Dominators of the blocks of a control-flow graph (ir/dominator.py).  A  *)
(* graph is the sequence of its labels, the entry first, and the function  *)
(* succ from a label to the set of labels its terminator branches to.      *)
(***************************************************************************)
EXTENDS Naturals, Sequences, FiniteSets

Preds(succ, b) == {a \in DOMAIN succ : b \in succ[a]}

\* What one round of the search adds to the blocks found.
Further(succ, found) == found \union UNION {succ[a] \intersect DOMAIN succ : a \in found}

\* The blocks a search from found meets; every round but the last finds one.
ReachClosure(succ, found) ==
  LET grown[n \in Nat] == IF n = 0 THEN found ELSE Further(succ, grown[n - 1])
  IN  grown[Cardinality(DOMAIN succ)]

ReachableBlocks(labels, succ) == ReachClosure(succ, {labels[1]})

-----------------------------------------------------------------------------
\* Variant: predecessors that are unreachable are intersected too.
RefinedDead(dom, entry, succ, reach, b) ==
  LET preds == Preds(succ, b)
  IN  IF b = entry THEN dom[b]
      ELSE {b} \union {a \in DOMAIN succ : preds # {} /\ \A q \in preds : a \in dom[q]}

\* One turn of the inner loop: only reachable predecessors are intersected, and
\* a block without one dominates itself and is dominated by nothing else.
Refined(dom, entry, succ, reach, b) ==
  LET preds == Preds(succ, b) \intersect reach
  IN  IF b = entry THEN dom[b]
      ELSE {b} \union {a \in DOMAIN succ : preds # {} /\ \A q \in preds : a \in dom[q]}

\* compute_dominators: every block starts with all, and rounds over the list
\* refine them in place.
AllBlocks(labels, succ) == [b \in DOMAIN succ |-> IF b = labels[1] THEN {b} ELSE DOMAIN succ]

Round(dom, labels, succ, reach) ==
  LET turn[i \in 0..Len(labels)] ==
        IF i = 0 THEN dom
        ELSE LET prev == turn[i - 1]
             IN  [prev EXCEPT ![labels[i]] = Refined(prev, labels[1], succ, reach, labels[i])]
  IN  turn[Len(labels)]

\* A round that changes something takes a block out of a set: there is one that
\* changes nothing.
EnoughRounds(succ) == Cardinality(DOMAIN succ) * Cardinality(DOMAIN succ)

ComputeDominators(labels, succ) ==
  LET reach == ReachableBlocks(labels, succ)
      after[n \in Nat] == IF n = 0 THEN AllBlocks(labels, succ)
                          ELSE Round(after[n - 1], labels, succ, reach)
  IN  after[CHOOSE n \in 0..EnoughRounds(succ) : after[n + 1] = after[n]]

Dominates(dom, a, b) == a = b \/ a \in dom[b]

\* immediate_dominator: the strict dominator that the others dominate.
ImmediateDominators(dom, b) ==
  LET strict == dom[b] \ {b} IN {s \in strict : strict \subseteq dom[s]}

\* build_dom_tree: the children of a block.
Children(dom, a) == {b \in DOMAIN dom : a \in ImmediateDominators(dom, b)}

-----------------------------------------------------------------------------
\* Blocks reached from the entry by paths that avoid a.
ReachedAvoiding(labels, succ, a) ==
  IF a = labels[1] THEN {}
  ELSE ReachableBlocks(labels, [l \in DOMAIN succ |-> IF l = a THEN {} ELSE succ[l] \ {a}])

\* The fixpoint is what the docstring says: the blocks on every path from the
\* entry, and for an unreachable block the block itself.
DominatorsRight(labels, succ) ==
  LET dom == ComputeDominators(labels, succ)
      reach == ReachableBlocks(labels, succ)
      avoiding == [a \in DOMAIN succ |-> ReachedAvoiding(labels, succ, a)]
  IN  \A b \in DOMAIN succ :
        dom[b] = IF b \in reach THEN {a \in reach : b \notin avoiding[a]} ELSE {b}

\* The immediate dominator is unique, so the blocks reached form one tree.
TreeRight(labels, succ) ==
  LET dom == ComputeDominators(labels, succ)
      reach == ReachableBlocks(labels, succ)
      tree == [a \in DOMAIN succ |-> Children(dom, a)]
  IN  /\ ReachableBlocks(labels, tree) = reach
      /\ \A b \in DOMAIN succ :
           Cardinality({a \in DOMAIN succ : b \in tree[a]}) = IF b \in reach \ {labels[1]} THEN 1 ELSE 0
=============================================================================
