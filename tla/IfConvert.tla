------------------------------ MODULE IfConvert -------------------------------
(***************************************************************************)
(* if_convert_diamonds (optimizer/if_convert.py), which ir_to_ptx runs on  *)
(* every kernel before it is emitted: a branch whose arms both load,       *)
(* multiply by a constant and store becomes a selection of the constant.   *)
(*                                                                         *)
(* An address is a cell here, so the address computations that the code    *)
(* copies out of the true arm are not seen.  The values it makes are not   *)
(* asked of the kernel: they get the next numbers 100 above the largest    *)
(* the block defines, whoever has them.                                    *)
(***************************************************************************)
EXTENDS LoopPasses

LOCAL INSTANCE SequencesExt
LOCAL INSTANCE FiniteSetsExt

CONSTANTS
  Id,      \* value -> its number, Value.id
  IdGap    \* how far above the block the new numbers start, 100 in the code

Numbered(k) == CHOOSE v \in Values : Id[v] = k
LargestId(is) == Max({Id[x.dest] : x \in {y \in ToSet(is) : y.dest # NoValue}})

\* The last instruction of a kind, a sequence of at most one.
LastOf(is, ops) == LET all == SelectSeq(is, LAMBDA x : x.op \in ops)
                   IN  IF all = <<>> THEN <<>> ELSE <<Last(all)>>

\* _match_arm: the last store is of the last multiplication, which is of the
\* last load by a constant.
MatchArm(is) ==
  {a \in [load : ToSet(LastOf(is, {"load"})), mul : ToSet(LastOf(is, Products)),
          store : ToSet(LastOf(is, {"store"})), const : Consts] :
     /\ a.store.l = a.mul.dest
     /\ \/ a.mul.l = a.load.dest /\ a.mul.r = a.const
        \/ a.mul.r = a.load.dest /\ a.mul.l = a.const}

\* What a block with a diamond under it is rewritten from.
Diamonds(code, terms, b) ==
  LET t == terms[b]
      arms == {t.yes, t.no}
      cmps == LastOf(code[b], Comparisons)
      loads == LastOf(code[b], {"load"})
  IN  IF \/ t.kind # "cond" \/ ~(arms \subseteq blocks)
         \/ \E l \in arms : terms[l].kind # "br"
         \/ terms[t.yes].to # terms[t.no].to
         \/ cmps = <<>> \/ loads = <<>>
        THEN {}
      ELSE {[yes |-> y, no |-> f, cmp |-> cmps[1], load |-> loads[1], merge |-> terms[t.yes].to] :
              y \in MatchArm(code[t.yes]), f \in MatchArm(code[t.no])}
Convertible(d) == d.load.dest \in {d.cmp.l, d.cmp.r}

\* The rewriting: everything in the true arm but its load, multiplication and
\* store moves up with the selection.  A merge block that only branches on is
\* skipped and removed with the arms.
Convert(acc, b) ==
  LET found == {d \in Diamonds(acc.insts, acc.term, b) : Convertible(d)}
      d == CHOOSE x \in found : TRUE
      rest == SelectSeq(acc.insts[acc.term[b].yes], LAMBDA x : x \notin {d.yes.load, d.yes.mul, d.yes.store})
      mult == Numbered(LargestId(acc.insts[b]) + IdGap)
      product == Numbered(Id[mult] + 1)
      skip == d.merge \in blocks /\ acc.insts[d.merge] = <<>> /\ acc.term[d.merge].kind = "br"
  IN  IF found = {} THEN acc
      ELSE [insts |-> [acc.insts EXCEPT ![b] =
                         @ \o <<Sel(mult, d.cmp.dest, d.yes.const, d.no.const),
                                Inst(d.yes.mul.op, product, d.load.dest, mult)>>
                           \o rest \o <<Store(product, d.yes.store.r)>>],
            term |-> [acc.term EXCEPT ![b] = IF skip THEN acc.term[d.merge] ELSE Br(d.merge)],
            gone |-> acc.gone \union {acc.term[b].yes, acc.term[b].no}
                       \union (IF skip THEN {d.merge} ELSE {})]

IfConvertDiamonds ==
  LET done == FoldLeft(Convert, [insts |-> insts, term |-> term, gone |-> {}], BlockList)
  IN  /\ insts' = done.insts
      /\ term' = done.term
      /\ blocks' = blocks \ done.gone
      /\ UNCHANGED source
=============================================================================
