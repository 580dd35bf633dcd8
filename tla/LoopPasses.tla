----------------------------- MODULE LoopPasses ------------------------------
(***************************************************************************)
(* The passes that know loops, ir/unroll.py and licm of ir/optimize.py,    *)
(* and fma_fuse, which joins what they bring into one block.  All three    *)
(* move or copy instructions across the writebacks of variables.           *)
(***************************************************************************)
EXTENDS ValuePasses

LOCAL INSTANCE SequencesExt

CONSTANTS
  MaxBound,   \* bounds and trip counts unroll looks at, 64 in the code
  MaxUnroll   \* trips unroll_loops unrolls, 16 in the calls of optimize

-----------------------------------------------------------------------------
(***************************************************************************)
(* unroll_loops.  The pass reads constants off the copies add(v, c, 0), so *)
(* it depends on the passes that make and remove them.                     *)
(***************************************************************************)
IsConstCopy(x) == x.op = "add" /\ IsConst(x.l) /\ IsConst(x.r) /\ 0 \in {x.l, x.r}
\* The constants the blocks copy into v, in order.
ConstCopies(bs, v) ==
  LET all == SelectSeq(FlattenSeq([k \in DOMAIN bs |-> insts[bs[k]]]),
                       LAMBDA x : IsConstCopy(x) /\ x.dest = v)
  IN  [k \in DOMAIN all |-> IF all[k].r = 0 THEN all[k].l ELSE all[k].r]

\* What the loop test compares: the induction variable and its bound, which is
\* a constant or a value whose first constant is taken.
Tests(x) ==
  LET limits(o) == IF IsConst(o) THEN {o}
                   ELSE LET cs == ConstCopies(BlockList, o) IN IF cs = <<>> THEN {} ELSE {Head(cs)}
      test(v, bounds, plus) == IF IsConst(v) THEN {} ELSE {[var |-> v, bound |-> c + plus] : c \in bounds}
  IN  CASE x.op = "lt" -> test(x.l, limits(x.r), 0)
        [] x.op = "le" -> test(x.l, limits(x.r), 1)
        [] x.op = "gt" -> IF IsConst(x.l) THEN test(x.r, {x.l}, 0) ELSE {}
        [] x.op = "ge" -> IF IsConst(x.l) THEN test(x.r, {x.l}, 1) ELSE {}

\* The variables the copies of a body and an increment write back, each with
\* the value copied last.
CopiesBack(is) == SelectSeq(is, LAMBDA x : x.op = "add" /\ \/ x.r = 0 /\ ~IsConst(x.l)
                                                           \/ x.l = 0 /\ ~IsConst(x.r))
CarriedBy(is) ==
  FoldLeft(LAMBDA f, x : (x.dest :> IF x.r = 0 THEN x.l ELSE x.r) @@ f, [v \in {} |-> 0], CopiesBack(is))

\* The variables in the order of their first copies, the order of the dict.
CarriedOrder(is) ==
  FoldLeft(LAMBDA s, x : IF Contains(s, x.dest) THEN s ELSE Append(s, x.dest), <<>>, CopiesBack(is))

\* The constants the instructions add to v.
StepsOf(is, v) ==
  LET all == SelectSeq(is, LAMBDA x : /\ x.op = "add" /\ v \in {x.l, x.r}
                                      /\ \E c \in {x.l, x.r} : IsConst(c) /\ c > 0)
  IN  [k \in DOMAIN all |-> IF IsConst(all[k].r) THEN all[k].r ELSE all[k].l]

\* The step of a variable that the increment writes back as itself plus or
\* minus a constant; none is <<>>.
SecondaryStep(is, v, new) ==
  LET defs == SelectSeq(is, LAMBDA x : x.dest = new)
      x == Last(defs)
  IN  IF defs = <<>> \/ ~(x.op \in {"add", "sub"}) THEN <<>>
      ELSE CASE x.l = v /\ IsConst(x.r) -> <<IF x.op = "add" THEN x.r ELSE -x.r>>
             [] x.op = "add" /\ x.r = v /\ IsConst(x.l) -> <<x.l>>
             [] OTHER -> <<>>

\* The loops found: a test block, a body that goes to an increment, which
\* goes back to the test.
LoopsAt(c) ==
  LET cmps == SelectSeq(insts[c], LAMBDA x : x.op \in Comparisons)
      body == term[c].yes
      inc == term[body].to
      outside == SelectSeq(BlockList, LAMBDA b : b \notin {c, body, inc})
      first(v) == ConstCopies(outside, v)
  IN  IF \/ term[c].kind # "cond" \/ cmps = <<>>
         \/ ~(body \in blocks /\ term[c].no \in blocks)
         \/ term[body].kind # "br" \/ inc \notin blocks
         \/ term[inc] # Br(c) \/ term[c].cond # Last(cmps).dest
        THEN {}
      ELSE {[cond |-> c, body |-> body, inc |-> inc, exit |-> term[c].no,
             var |-> t.var, bound |-> t.bound,
             init |-> IF first(t.var) = <<>> THEN 0 ELSE Last(first(t.var)),
             step |-> LET s == StepsOf(insts[inc], t.var) IN IF s = <<>> THEN 1 ELSE Last(s),
             carried |-> carried, order |-> CarriedOrder(insts[body] \o insts[inc]),
             second |-> [v \in {w \in DOMAIN carried \ {t.var} :
                                  /\ SecondaryStep(insts[inc], w, carried[w]) # <<>>
                                  /\ first(w) # <<>>} |->
                          [init |-> Last(first(v)),
                           step |-> Head(SecondaryStep(insts[inc], v, carried[v]))]]] :
             t \in {u \in Tests(Last(cmps)) : u.bound > 0 /\ u.bound <= MaxBound},
             carried \in {CarriedBy(insts[body] \o insts[inc])}}

Trips(lp) == (lp.bound - lp.init) \div lp.step
Unrollable(lp) == /\ lp.bound > lp.init
                  /\ (lp.bound - lp.init) % lp.step = 0
                  /\ Trips(lp) <= MaxBound /\ Trips(lp) <= MaxUnroll

\* _remap_inst: a copy that reads what the iteration has written and writes a
\* value of its own.
RemapInst(acc, x) ==
  LET y == MapReads(x, acc.remap)
      own == Head(SelectSeq(acc.fresh, LAMBDA v : (v \in Unsigned) = (x.dest \in Unsigned)))
  IN  IF x.dest = NoValue THEN [acc EXCEPT !.out = Append(@, y)]
      ELSE [out |-> Append(acc.out, [y EXCEPT !.dest = own]),
            remap |-> [acc.remap EXCEPT ![x.dest] = own],
            fresh |-> Remove(acc.fresh, own)]

\* Variant: a variable carried around the loop starts every trip afresh.
IterationUncarried(lp, acc, k) ==
  LET remap == [o \in Operands |->
                  CASE o = lp.var -> lp.init + lp.step * k
                    [] o \in DOMAIN lp.second -> lp.second[o].init + lp.second[o].step * k
                    [] OTHER -> o]
      copied == FoldLeft(RemapInst, [out |-> acc.out, remap |-> remap, fresh |-> acc.fresh],
                         insts[lp.body])
      written == {v \in DOMAIN lp.carried : \E x \in ToSet(insts[lp.body]) : x.dest = v}
  IN  [out |-> copied.out, fresh |-> copied.fresh,
       carried |-> [v \in DOMAIN acc.carried \union written |->
                      IF v \in written THEN copied.remap[v] ELSE acc.carried[v]]]

\* One trip: the body with the induction variables as constants and the
\* carried variables as the trip before left them.
Iteration(lp, acc, k) ==
  LET remap == [o \in Operands |->
                  CASE o = lp.var -> lp.init + lp.step * k
                    [] o \in DOMAIN lp.second -> lp.second[o].init + lp.second[o].step * k
                    [] o \in DOMAIN acc.carried -> acc.carried[o]
                    [] OTHER -> o]
      copied == FoldLeft(RemapInst, [out |-> acc.out, remap |-> remap, fresh |-> acc.fresh],
                         insts[lp.body])
      written == {v \in DOMAIN lp.carried : \E x \in ToSet(insts[lp.body]) : x.dest = v}
  IN  [out |-> copied.out, fresh |-> copied.fresh,
       carried |-> [v \in DOMAIN acc.carried \union written |->
                      IF v \in written THEN copied.remap[v] ELSE acc.carried[v]]]

\* All trips, then the carried variables written back in the order of the dict.
Unrolled(lp, fresh) ==
  LET trips == FoldLeft(LAMBDA acc, k : Iteration(lp, acc, k),
                        [out |-> <<>>, fresh |-> fresh, carried |-> [v \in {} |-> 0]],
                        [k \in 1..Trips(lp) |-> k - 1])
      back == SelectSeq(lp.order, LAMBDA v : v \in DOMAIN trips.carried)
  IN  [out |-> trips.out \o [k \in DOMAIN back |-> Copy(back[k], trips.carried[back[k]])],
       fresh |-> trips.fresh]

UnrollLoops ==
  LET found == {lp \in UNION {LoopsAt(c) : c \in blocks} : Unrollable(lp)}
      unroll(acc, c) ==
        IF \E lp \in found : lp.cond = c
          THEN LET lp == CHOOSE lp \in found : lp.cond = c
                   u == Unrolled(lp, acc.fresh)
               IN  [fresh |-> u.fresh, insts |-> [acc.insts EXCEPT ![c] = u.out],
                    term |-> [acc.term EXCEPT ![c] = Br(lp.exit)],
                    blocks |-> acc.blocks \ {lp.body, lp.inc}]
          ELSE acc
      done == FoldLeft(unroll, [fresh |-> Unused, insts |-> insts, term |-> term, blocks |-> blocks],
                       BlockList)
  IN  insts' = done.insts /\ term' = done.term /\ blocks' = done.blocks /\ UNCHANGED source

-----------------------------------------------------------------------------
(***************************************************************************)
(* licm.                                                                   *)
(***************************************************************************)
SuccList(t) == CASE t.kind = "br" -> <<t.to>>
                 [] t.kind = "cond" -> <<t.yes, t.no>>
                 [] t.kind = "ret" -> <<>>

\* The depth-first search: an edge to a block on the path is a back edge.
RECURSIVE Search(_, _, _)
Search(st, l, path) ==
  IF l \in st.visited THEN st
  ELSE FoldLeft(LAMBDA s, m : IF m \in path \union {l}
                                THEN [s EXCEPT !.edges = Append(@, <<l, m>>)]
                                ELSE Search(s, m, path \union {l}),
                [st EXCEPT !.visited = @ \union {l}],
                SelectSeq(SuccList(term[l]), LAMBDA m : m \in blocks))
BackEdges == LET found == Search([visited |-> {}, edges |-> <<>>], Entry, {}).edges
             IN  SelectSeq([k \in DOMAIN found |-> IF \E j \in 1..(k - 1) : found[j] = found[k]
                                                    THEN <<>> ELSE found[k]],
                           LAMBDA edge : edge # <<>>)

RECURSIVE Grown(_)
Grown(body) ==
  LET more == body.in \union {p \in blocks : Targets(term[p]) \intersect (body.in \ {body.header}) # {}}
  IN  IF more = body.in THEN body.in ELSE Grown([body EXCEPT !.in = more])
LoopBody(edge) == Grown([header |-> edge[2], in |-> {edge[1], edge[2]}])

\* The branches into the loop from outside; hoisting needs exactly one.
Entries(edge) == {a \in ArmsTo(edge[2]) : a[1] \notin LoopBody(edge)}

\* Variant: what is defined outside is invariant, although it may be defined
\* inside as well.
InvariantSeedOutside(code, body) == {x.dest : x \in UNION {ToSet(code[b]) : b \in blocks \ body}}
\* Values defined outside the loop and never inside.
InvariantSeed(code, body) ==
  LET defs(bs) == {x.dest : x \in UNION {ToSet(code[b]) : b \in bs}}
  IN  defs(blocks \ body) \ defs(body)

IsCondition(v) == \E b \in blocks : term[b].kind = "cond" /\ term[b].cond = v
Hoistable(x, inv) ==
  /\ x.op \in Bins
  /\ DefCount(x.dest) = 1
  /\ ~IsCondition(x.dest)
  /\ \A o \in Reads(x) : IsConst(o) \/ o \in inv

\* A walk of a block: hoisted instructions go to the end of the preheader.
HoistInst(acc, x) ==
  IF Hoistable(x, acc.inv)
    THEN [acc EXCEPT !.hoisted = Append(@, x), !.inv = @ \union {x.dest}]
    ELSE [acc EXCEPT !.out = Append(@, x)]
HoistBlock(acc, b) ==
  LET left == FoldLeft(HoistInst, [out |-> <<>>, hoisted |-> <<>>, inv |-> acc.inv], acc.code[b])
  IN  [acc EXCEPT !.code = [@ EXCEPT ![b] = left.out, ![acc.pre] = @ \o left.hoisted], !.inv = left.inv]

\* Walks of the body without its header, until nothing moves.
RECURSIVE Hoisted(_, _)
Hoisted(acc, list) ==
  LET next == FoldLeft(HoistBlock, acc, list)
  IN  IF next = acc THEN acc.code ELSE Hoisted(next, list)

HoistLoop(code, edge) ==
  IF Cardinality(Entries(edge)) # 1 THEN code
  ELSE LET pre == (CHOOSE a \in Entries(edge) : TRUE)[1]
           body == LoopBody(edge)
       IN  Hoisted([code |-> code, inv |-> InvariantSeed(code, body), pre |-> pre],
                   SelectSeq(BlockList, LAMBDA b : b \in body \ {edge[2]}))

Licm ==
  /\ insts' = FoldLeft(HoistLoop, insts, BackEdges)
  /\ UNCHANGED <<source, blocks, term>>

-----------------------------------------------------------------------------
(***************************************************************************)
(* fma_fuse.  Returned values are not counted as uses.                     *)
(***************************************************************************)
UseCount(v) ==
  Cardinality({<<p, f>> \in InstPlaces \X {"l", "r", "c"} :
                 f \in DOMAIN At(p) /\ At(p).op # "param" /\ (At(p).op = "store" => f = "l")
                 /\ At(p)[f] = v})
  + Cardinality({b \in blocks : term[b].kind = "cond" /\ term[b].cond = v})
Fusible(x) == x.op = "mul" /\ DefCount(x.dest) = 1 /\ UseCount(x.dest) = 1

\* The multiplication of the block an addition reads.
FactorOf(b, x) ==
  LET muls == {m \in ToSet(insts[b]) : Fusible(m)}
      left == {m \in muls : m.dest = x.l}
  IN  IF x.op # "add" THEN {} ELSE IF left # {} THEN left ELSE {m \in muls : m.dest = x.r}

FmaFuse ==
  LET fused(b) == UNION {FactorOf(b, x) : x \in ToSet(insts[b])}
      kept(b) == SelectSeq(insts[b], LAMBDA x : x \notin fused(b))
      fuse(b, x) == IF FactorOf(b, x) = {} THEN x
                    ELSE LET m == CHOOSE m \in FactorOf(b, x) : TRUE
                         IN  Fma(x.dest, m.l, m.r, IF x.l = m.dest THEN x.r ELSE x.l)
  IN  /\ insts' = [b \in Labels |->
                     IF b \in blocks THEN [k \in DOMAIN kept(b) |-> fuse(b, kept(b)[k])]
                                     ELSE insts[b]]
      /\ UNCHANGED <<source, blocks, term>>
=============================================================================
