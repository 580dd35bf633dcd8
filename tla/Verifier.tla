------------------------------ MODULE Verifier ------------------------------
(***************************************************************************)
(* verify_kernel (ir/verify_ir.py): the errors it reports of a kernel, a   *)
(* sequence of blocks [insts, term] as Lowering makes them.  An error is   *)
(* the check that found it and where.  optimize runs it with               *)
(* check_reachability=False, so unreachable blocks are no errors.          *)
(***************************************************************************)
EXTENDS Dominators, SequencesExt

IsReg(o) == o[1] = "reg"

Succs(term) == CASE term[1] = "br" -> {term[2]}
                 [] term[1] = "cond" -> {term[3], term[4]}
                 [] term[1] \in {"ret", "none"} -> {}

SuccOf(blocks) == [b \in DOMAIN blocks |-> Succs(blocks[b].term)]

\* Registers an instruction reads, and those a branch does.
Uses(inst) == {o[2] : o \in {u \in {inst[3], inst[4]} : IsReg(u)}}
CondUses(term) == IF term[1] = "cond" /\ IsReg(term[2]) THEN {term[2][2]} ELSE {}
UsesIn(block) == CondUses(block.term) \union UNION {Uses(inst) : inst \in Range(block.insts)}

\* Where a register is defined: <<block, index>>.
DefsIn(blocks, b) ==
  {<<blocks[b].insts[i][2][2], b, i>> :
     i \in {j \in DOMAIN blocks[b].insts : IsReg(blocks[b].insts[j][2])}}
AllDefs(blocks) == UNION {DefsIn(blocks, b) : b \in DOMAIN blocks}

\* Depth-first from b: the edges back into a block on the stack.
RECURSIVE BackEdges(_, _, _, _, _)
BackEdges(succ, b, targets, stack, acc) ==
  IF targets = {} THEN acc
  ELSE LET to == CHOOSE l \in targets : TRUE
           left == targets \ {to}
           deeper == BackEdges(succ, to, succ[to], stack \union {to},
                               [acc EXCEPT !.visited = @ \union {to}])
       IN  IF to \notin DOMAIN succ THEN BackEdges(succ, b, left, stack, acc)
           ELSE IF to \in stack
                THEN BackEdges(succ, b, left, stack, [acc EXCEPT !.edges = @ \union {<<b, to>>}])
           ELSE BackEdges(succ, b, left, stack, IF to \in acc.visited THEN acc ELSE deeper)

\* The loop of a back edge: the blocks that reach it without its header.
LoopBody(succ, edge) ==
  LET back == [b \in DOMAIN succ |-> IF b = edge[2] THEN {} ELSE Preds(succ, b)]
  IN  {edge[2]} \union ReachClosure(back, {edge[1]})

-----------------------------------------------------------------------------
(* The checks.                                                             *)

NoTerminator(blocks) == {b \in DOMAIN blocks : blocks[b].term[1] = "none"}

Undefined(blocks) ==
  {<<b, r>> \in UNION {{<<b, r>> : r \in UsesIn(blocks[b])} : b \in DOMAIN blocks} :
     ~\E d \in AllDefs(blocks) : d[1] = r}

\* A register with one definition is used where that dominates, or where the
\* use dominates it (a loop's recurrence).
NotDominated(blocks, dom, reach) ==
  LET defs == AllDefs(blocks)
      Bad(b, r) == \E d \in defs :
        /\ d[1] = r
        /\ \A e \in defs : e[1] = r => e = d
        /\ d[2] # b
        /\ ~Dominates(dom, d[2], b) /\ ~Dominates(dom, b, d[2])
  IN  {<<b, r>> \in UNION {{<<b, r>> : r \in UsesIn(blocks[b])} : b \in reach} : Bad(b, r)}

NotNatural(succ, dom, reach) ==
  LET edges == BackEdges(succ, 1, succ[1], {1}, [visited |-> {1}, edges |-> {}]).edges
  IN  {e \in edges : \E b \in (LoopBody(succ, e) \intersect reach) \ {e[2]} :
         ~Dominates(dom, e[2], b)}

VerifyErrors(blocks) ==
  LET succ == SuccOf(blocks)
      labels == [b \in DOMAIN blocks |-> b]
      dom == ComputeDominators(labels, succ)
      reach == ReachableBlocks(labels, succ)
  IN  {<<"terminator", b>> : b \in NoTerminator(blocks)}
        \union {<<"target", b>> : b \in {a \in DOMAIN blocks : ~(succ[a] \subseteq DOMAIN blocks)}}
        \union {<<"undefined", u>> : u \in Undefined(blocks)}
        \union {<<"dominance", u>> : u \in NotDominated(blocks, dom, reach)}
        \union {<<"loop", e>> : e \in NotNatural(succ, dom, reach)}
=============================================================================
