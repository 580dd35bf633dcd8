---------------------------- MODULE MCCfgCleanup ----------------------------
(***************************************************************************)
(* CfgCleanup on every control-flow graph of an entry and three blocks in  *)
(* which each block is empty or has one instruction.                       *)
(***************************************************************************)
EXTENDS CfgCleanup

CONSTANTS e, x, y, z, cond

MCLabels == {e, x, y, z}
Others == {x, y, z}

\* The entry goes to x, to one of x and y, or is folded to one of them.
EntryTerms == {Br(x)} \union {CondBr(c, x, y) : c \in {cond, TRUE, FALSE}}
OtherTerms == {[kind |-> "ret", val |-> e]} \union {Br(t) : t \in Others}
                \union {CondBr(cond, t, f) : t, f \in Others}

\* The token of a block's instruction is the block's label.
MCInit ==
  /\ \E full \in SUBSET MCLabels, te \in EntryTerms, t \in [Others -> OtherTerms] :
       source = [blocks |-> MCLabels,
                 insts |-> [l \in MCLabels |-> IF l \in full THEN <<l>> ELSE <<>>],
                 term |-> [l \in MCLabels |-> IF l = e THEN te ELSE t[l]]]
  /\ blocks = source.blocks
  /\ insts = source.insts
  /\ term = source.term

MCSpec == MCInit /\ [][Next]_vars
MCOrder == <<e, x, y, z>>
MCConds == {cond, TRUE, FALSE}
=============================================================================
