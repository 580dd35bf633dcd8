----------------------------- MODULE MCOptimize ------------------------------
(***************************************************************************)
(* Optimize on families of units in the form the parser gives them: n is a *)
(* parameter; v, v1, v2, i and j are variables with a first value and a    *)
(* writeback; the rest are temporaries with one definition.  What the      *)
(* passes are wrong about has families of its own at the end.  In comments *)
(* s and t are the variables v1 and v2.                                    *)
(***************************************************************************)
EXTENDS Optimize

CONSTANTS
  e, if_t, if_f, if_m,                 \* entry, if_true, if_false, if_merge
  cond1, body1, rest1, inc1, exit1,     \* the blocks of a loop
  cond2, body2, inc2, exit2,        \* and of a loop in its body
  n, v, v1, v2, i, j, lt, lt2, w1, w2, w3, w4, w5,            \* values
  s1, s2,                                                     \* signed values
  u1, u2, u3, u4, u5, u6, u7, u8, u9, u10, u11, u12, u13, u14, \* values yet to be made
  q1, q2, q3,                                                 \* and signed ones
  f1, f2, f3                           \* the values numbered 100 above lt and lt2

MCLabels == {e, if_t, if_f, if_m, cond1, body1, rest1, inc1, exit1, cond2, body2, inc2, exit2}
MCOrder == <<e, if_t, if_f, if_m, cond1, body1, rest1, inc1, exit1, cond2, body2, inc2, exit2>>
MCFresh == <<u1, u2, u3, u4, u5, u6, u7, u8, u9, u10, u11, u12, u13, u14, q1, q2, q3>>
Numbering == <<n, v, v1, v2, i, j, w1, w2, w3, w4, w5, s1, s2, lt, lt2>> \o MCFresh
MCValues == {Numbering[k] : k \in DOMAIN Numbering} \union {f1, f2, f3}
MCUnsigned == MCValues \ {s1, s2, q1, q2, q3}
NumberOf(x) == CHOOSE k \in DOMAIN Numbering : Numbering[k] = x
MCId == [x \in MCValues |-> CASE x = f1 -> NumberOf(lt) + 100
                              [] x = f2 -> NumberOf(lt) + 101
                              [] x = f3 -> NumberOf(lt2) + 101
                              [] OTHER -> NumberOf(x)]
MCOperands == MCValues \union Consts
MCInsts == [op : Bins \union Comparisons \union {"param", "load", "store"}, dest : MCValues \union {NoValue},
            l : MCOperands, r : MCOperands]

Ret(o) == [kind |-> "ret", val |-> o]

\* A unit from its blocks, [insts, term] by label.
Unit(bs) ==
  [blocks |-> DOMAIN bs,
   insts |-> [l \in Labels |-> IF l \in DOMAIN bs THEN bs[l].insts ELSE <<>>],
   term |-> [l \in Labels |-> IF l \in DOMAIN bs THEN bs[l].term ELSE Ret(0)]]
Block(is, tm) == [insts |-> is, term |-> tm]

\* Operands that make two expressions equal, equal up to order, or different.
Exprs(d) == {Add(d, n, 1), Add(d, 1, n), Sub(d, w1, w1)}

\* int v = 0; w1 = ..; if (w1 < n) { v = w2; } else { v = w3 or nothing; }
\* store v; store w4
Ifs ==
  {Unit([l \in {e, if_t, if_f, if_m} |->
     CASE l = e -> Block(<<Param(n, 0), Copy(v, 0), x1, Lt(lt, w1, n)>>, CondBr(lt, if_t, if_f))
       [] l = if_t -> Block(<<x2, Copy(v, w2)>>, Br(if_m))
       [] l = if_f -> Block(otherwise, Br(if_m))
       [] l = if_m -> Block(<<x4, Store(v, 0), Store(w4, 1)>>, Ret(v))]) :
   otherwise \in {<<>>} \union {<<x3, Copy(v, w3)>> : x3 \in Exprs(w3)},
   x1 \in {Add(w1, n, 1), Add(w1, 0, 1), Copy(w1, n)},
   x2 \in Exprs(w2), x4 \in Exprs(w4) \union {Add(w4, w1, 1)}}

\* int s = k, i = 0; while (i < n) { s = w1 or w2; i = i + 1; } store s; store w4
LoopExprs(d) == {Add(d, i, 1), Add(d, 1, i), Add(d, v1, i), Mul(d, n, 2), Sub(d, n, n)}
Whiles ==
  {Unit([l \in {e, cond1, body1, exit1} |->
     CASE l = e -> Block(<<Param(n, 0), Copy(v1, 1), Copy(i, 0)>>, Br(cond1))
       [] l = cond1 -> Block(<<Lt(lt, i, n)>>, CondBr(lt, body1, exit1))
       [] l = body1 -> Block(<<x1, x2, Add(w3, i, 1), Copy(v1, r), Copy(i, w3)>>, Br(cond1))
       [] l = exit1 -> Block(<<x4, Store(v1, 0), Store(w4, 1)>>, Ret(0))]) :
   r \in {w1, w2}, x1 \in LoopExprs(w1) \ {Add(w1, 1, i)}, x2 \in LoopExprs(w2) \union {Add(w2, w1, i), Add(w2, v1, w1)},
   x4 \in {Add(w4, v1, 1), Mul(w4, n, 2)}}

\* The same with for: the body writes s back, the increment i.
Fors ==
  {Unit([l \in {e, cond1, body1, inc1, exit1} |->
     CASE l = e -> Block(<<Param(n, 0), Copy(v1, 1), Copy(i, 0)>>, Br(cond1))
       [] l = cond1 -> Block(<<Lt(lt, i, n)>>, CondBr(lt, body1, exit1))
       [] l = body1 -> Block(<<x1, x2, Store(w1, 2), Copy(v1, w2)>>, Br(inc1))
       [] l = inc1 -> Block(<<Add(w3, i, 1), Copy(i, w3)>>, Br(cond1))
       [] l = exit1 -> Block(<<Store(v1, 0)>>, Ret(0))]) :
   x1 \in LoopExprs(w1), x2 \in LoopExprs(w2) \union {Add(w2, w1, v1)}}

\* Tests that hold while the induction variable is below 2 or 3.
ConstTests == {Lt(lt, i, 2), Inst("gt", lt, 2, i), Inst("le", lt, i, 1), Inst("ge", lt, 2, i),
               Lt(lt, i, 3), Lt(lt, i, j), Inst("le", lt, i, j)}

\* int s = n, t = n + 1, j = 2; for (i = k; test; i = i + step, j = j - 1) {
\*   s and t get new values; store w1; }
ConstFors ==
  {Unit([l \in {e, cond1, body1, inc1, exit1} |->
     CASE l = e -> Block(<<Param(n, 0), Add(w5, n, 1), Copy(v1, n), Copy(v2, w5), Copy(j, 2),
                              Copy(i, k)>>, Br(cond1))
       [] l = cond1 -> Block(<<test>>, CondBr(lt, body1, exit1))
       [] l = body1 -> Block(<<form[1], Store(w1, 2)>> \o form[2], Br(inc1))
       [] l = inc1 -> Block(<<Add(w3, i, step)>> \o
                           (IF second /\ j \notin {test.l, test.r}
                              THEN <<Sub(w4, j, 1), Copy(j, w4)>> ELSE <<>>) \o
                           <<Copy(i, w3)>>, Br(cond1))
       [] l = exit1 -> Block(<<Store(v1, 0), Store(v2, 1)>>, Ret(0))]) :
   k \in {0, 1}, step \in {1, 2}, test \in ConstTests, second \in BOOLEAN,
   form \in ({Add(w1, v1, i), Mul(w1, j, n)} \X {<<Copy(v1, w1)>>, <<Add(w2, w1, v1), Copy(v1, w2)>>})
                    \union {<<Add(w1, v1, v2), <<Copy(v1, v2), Copy(v2, w1)>>>>}}

\* for (i < 2 or n) { for (j = 0; j < 2 or n; j++) { s = w1; } }, with an
\* invariant of both loops or of the inner one.
Nested ==
  {Unit([l \in {e, cond1, body1, inc1, exit1, cond2, body2, inc2, exit2} |->
     CASE l = e -> Block(<<Param(n, 0), Copy(v1, n), Copy(i, 0)>>, Br(cond1))
       [] l = cond1 -> Block(<<Lt(lt, i, outer)>>, CondBr(lt, body1, exit1))
       [] l = body1 -> Block(<<Copy(j, 0)>>, Br(cond2))
       [] l = inc1 -> Block(<<Add(w4, i, 1), Copy(i, w4)>>, Br(cond1))
       [] l = exit1 -> Block(<<Store(v1, 0)>>, Ret(0))
       [] l = cond2 -> Block(<<Lt(lt2, j, inner)>>, CondBr(lt2, body2, exit2))
       [] l = body2 -> Block(<<x1, Add(w2, w1, v1), Copy(v1, w2)>>, Br(inc2))
       [] l = inc2 -> Block(<<Add(w5, j, 1), Copy(j, w5)>>, Br(cond2))
       [] l = exit2 -> Block(<<Add(w3, v1, 1), Copy(v1, w3)>>, Br(inc1))]) :
   outer \in {2, n}, inner \in {2, n}, x1 \in {Mul(w1, n, 2), Add(w1, i, 1), Add(w1, i, j), Add(w1, v1, i)}}

\* w1 = cell 1; if (w1 < 2) { cell 2 = cell 1 * 2; } else { cell 2 = cell 1 * 3; }
\* store w1 + 1; with arms that do not match, or a test of something else.
Diamond(tests, yes, no, after) ==
  Unit([l \in {e, if_t, if_f, if_m} |->
     CASE l = e -> Block(<<Param(n, 0), Load(w1, 1)>> \o tests, CondBr(lt, if_t, if_f))
       [] l = if_t -> Block(yes, Br(if_m))
       [] l = if_f -> Block(no, Br(if_m))
       [] l = if_m -> Block(after, Ret(0))])
Scaled(d1, d2) == {Mul(d2, d1, 2), Mul(d2, 3, d1), Mul(d2, d1, n)}
Diamonds2 ==
  {Diamond(<<test>>, <<Load(w2, 1), x2, Store(w3, 2)>>, <<Load(w4, 1), x4, Store(w5, 2)>>, after) :
     test \in {Lt(lt, w1, 2), Inst("ge", lt, 2, w1), Lt(lt, n, 2)},
     x2 \in Scaled(w2, w3), x4 \in Scaled(w4, w5),
     after \in {<<>>, <<Add(v, w1, 1), Store(v, 0)>>, <<Add(f1, w1, 1), Store(f1, 0)>>}}
    \union {Diamond(<<Lt(lt, w1, 2)>>, <<Load(w2, 1), Mul(w3, w2, 2), Store(w2, 2)>>,
                    <<Load(w4, 1), Mul(w5, w4, 3), Store(w5, 2)>>, <<>>)}

\* Parameters, results and constants of one type, unsigned or signed.
Typed == {[par |-> n, res |-> w1, consts |-> Word],
          [par |-> s2, res |-> s1, consts |-> -(Modulus \div 2)..(Modulus \div 2 - 1)]}

\* w1 = n op c, c op n or n op n; store w1; store w1 - n, with every constant
\* in an arithmetic of its own.
Straight(t, x1) ==
  Unit([l \in {e} |-> Block(<<Param(t.par, 0), x1, Sub(w2, t.res, t.par), Store(t.res, 0), Store(w2, 1)>>,
                            Ret(0))])
Reductions ==
  UNION {{Straight(t, Inst(op, t.res, t.par, o)) : op \in Bins, o \in t.consts \union {t.par}}
           \union {Straight(t, Inst(op, t.res, o, t.par)) : op \in Bins, o \in t.consts}
           \union {Straight(t, Inst(op, t.res, o, o2)) :
                     op \in Bins \ Products, o \in {4, -3} \intersect t.consts, o2 \in t.consts} :
         t \in Typed}

\* w2 = c; if (n < 2) { store n; } w1 = w2 op o; store w1: fold learns what w2
\* is after it has rewritten the operation.
Late(t, c, op, o) ==
  Unit([l \in {e, if_t, if_m} |->
     CASE l = e -> Block(<<Param(n, 0), Copy(t.par, c), Lt(lt, n, 2)>>, CondBr(lt, if_t, if_m))
       [] l = if_t -> Block(<<Store(n, 1)>>, Br(if_m))
       [] l = if_m -> Block(<<Inst(op, t.res, t.par, o), Store(t.res, 0)>>, Ret(0))])
LateTypes == {IF t.par = n THEN [t EXCEPT !.par = w2] ELSE t : t \in Typed}
\* The divisions of a negative constant that become shifts around a bias.
BiasOf(t, c, op, o) == t.par = s2 /\ c < 0 /\ <<op, o>> \in {<<"div", 2>>, <<"mod", 1>>, <<"mod", 2>>}
LateKnown == UNION {{Late(t, k[1], k[2], k[3]) :
                       k \in {x \in {c \in t.consts : c % 2 = 1} \X Bins \X {1, 2} :
                                ~BiasOf(t, x[1], x[2], x[3])}} : t \in LateTypes}

\* for (i < n) { store n; continue; }: the block after the continue cannot run
\* and branches to the increment.
Continues ==
  {Unit([l \in {e, cond1, body1, rest1, inc1, exit1} |->
     CASE l = e -> Block(<<Param(n, 0), Copy(i, 0)>>, Br(cond1))
       [] l = cond1 -> Block(<<Lt(lt, i, o)>>, CondBr(lt, body1, exit1))
       [] l = body1 -> Block(<<Store(n, 0)>>, Br(inc1))
       [] l = rest1 -> Block(is, Br(inc1))
       [] l = inc1 -> Block(<<Add(w3, i, 1), Copy(i, w3)>>, Br(cond1))
       [] l = exit1 -> Block(<<Store(n, 1)>>, Ret(0))]) : o \in {2, n}, is \in {<<>>, <<Store(n, 2)>>}}

\* if (n < 2) { a diamond } store n: the block after the diamond is empty and
\* the one after that is the target of two branches.
GuardedDiamonds ==
  {Unit([l \in {e, cond1, if_t, if_f, if_m, exit1} |->
     CASE l = e -> Block(<<Param(n, 0), Lt(lt2, n, 2)>>, CondBr(lt2, cond1, exit1))
       [] l = cond1 -> Block(<<Load(w1, 1), Lt(lt, w1, 2)>>, CondBr(lt, if_t, if_f))
       [] l = if_t -> Block(<<Load(w2, 1), Mul(w3, w2, 2), Store(w3, 2)>>, Br(if_m))
       [] l = if_f -> Block(<<Load(w4, 1), Mul(w5, w4, 3), Store(w5, 2)>>, Br(if_m))
       [] l = if_m -> Block(<<>>, Br(exit1))
       [] l = exit1 -> Block(after, Ret(0))]) : after \in {<<>>, <<Store(n, 0)>>}}

Structured == Diamonds2 \union Ifs \union Whiles \union Fors \union ConstFors \union Nested \union Reductions
                \union LateKnown \union Continues \union GuardedDiamonds

-----------------------------------------------------------------------------
\* A for loop of four blocks: first values, test, body, increment, what follows.
ForLoop(first, test, is, step, after) ==
  Unit([l \in {e, cond1, body1, inc1, exit1} |->
     CASE l = e -> Block(<<Param(n, 0)>> \o first, Br(cond1))
       [] l = cond1 -> Block(<<test>>, CondBr(lt, body1, exit1))
       [] l = body1 -> Block(is, Br(inc1))
       [] l = inc1 -> Block(step, Br(cond1))
       [] l = exit1 -> Block(after, Ret(0))])
Count == <<Add(w3, i, 1), Copy(i, w3)>>

\* int s = 0; for (i = 0; i < 2; i++) { s = s + n; } store s: constant_fold
\* still knows s = 0 after the loop.
Accumulator == {ForLoop(<<Copy(v1, 0), Copy(i, 0)>>, Lt(lt, i, 2), <<Add(w1, v1, n), Copy(v1, w1)>>,
                        Count, <<Store(v1, 0)>>)}

\* for (i = n; i < 2; i++) { store n; }: unrolled from 0.
UnknownStart == {ForLoop(<<Copy(i, n)>>, Lt(lt, i, 2), <<Store(n, 0)>>, Count, <<>>)}

\* s = n; for (i = 0; i < 2; i++, s = s + 1) {} store s: the increment of s is lost.
StepOfUnknown == {ForLoop(<<Copy(v1, n), Copy(i, 0)>>, Lt(lt, i, 2), <<>>,
                          <<Add(w3, i, 1), Add(w4, v1, 1), Copy(v1, w4), Copy(i, w3)>>, <<Store(v1, 0)>>)}

\* int i; for (i = 0; i < 2; i++) {} store i: 0 is stored.
IndexAfterLoop == {ForLoop(<<Copy(i, 0)>>, Lt(lt, i, 2), <<>>, Count, <<Store(i, 0)>>)}

\* int j = 2; if (n < 2) { j = 1; } for (i = 0; i < j; i++) { store n; }
BoundWrittenAgain ==
  {Unit([l \in {e, if_t, cond1, body1, inc1, exit1} |->
     CASE l = e -> Block(<<Param(n, 0), Copy(j, 2), Copy(i, 0), Lt(lt2, n, 2)>>, CondBr(lt2, if_t, cond1))
       [] l = if_t -> Block(<<Copy(j, 1)>>, Br(cond1))
       [] l = cond1 -> Block(<<Lt(lt, i, j)>>, CondBr(lt, body1, exit1))
       [] l = body1 -> Block(<<Store(n, 0)>>, Br(inc1))
       [] l = inc1 -> Block(Count, Br(cond1))
       [] l = exit1 -> Block(<<>>, Ret(0))])}

\* w1 = s * n; for (i = 0; i < 2; i++) { s = s + 1; } store w1 + n: the fused
\* multiplication reads the new s.
FusedLate == {ForLoop(<<Copy(v1, n), Mul(w1, v1, n), Copy(i, 0)>>, Lt(lt, i, 2),
                      <<Add(w2, v1, 1), Copy(v1, w2)>>, Count, <<Add(w4, w1, n), Store(w4, 0), Store(v1, 1)>>)}

\* One trip of s, t = t, s: the writebacks of the unrolled loop read each other.
SwapOnce == {ForLoop(<<Add(w5, n, 1), Copy(v1, n), Copy(v2, w5), Copy(i, 0)>>, Lt(lt, i, 1),
                     <<Copy(w1, v1), Copy(v1, v2), Copy(v2, w1)>>, Count, <<Store(v1, 0), Store(v2, 1)>>)}

\* for (i = 0; i < n; i++) { store i + 1; i = i + 1; }: cse takes the value
\* computed before the writeback for the one after it.
ForStep == {ForLoop(<<Copy(i, 0)>>, Lt(lt, i, n), <<Add(w1, i, 1), Store(w1, 0), Copy(i, w1)>>,
                    Count, <<Store(i, 1)>>)}

\* int v = n; int w1 = v; if (n < 2) { v = v + 1; } store w1
SavedCopy ==
  {Unit([l \in {e, if_t, if_f, if_m} |->
     CASE l = e -> Block(<<Param(n, 0), Copy(v, n), Copy(w1, v), Lt(lt, n, 2)>>, CondBr(lt, if_t, if_f))
       [] l = if_t -> Block(<<Add(w2, v, 1), Copy(v, w2)>>, Br(if_m))
       [] l = if_f -> Block(<<>>, Br(if_m))
       [] l = if_m -> Block(<<Store(w1, 0)>>, Ret(0))])}

\* int v = 0; do { v = v + n; } while (0); store v
DoOnce ==
  {Unit([l \in {e, cond1, body1, exit1} |->
     CASE l = e -> Block(<<Param(n, 0), Copy(v, 0)>>, Br(body1))
       [] l = body1 -> Block(<<Add(w1, v, n), Copy(v, w1)>>, Br(cond1))
       [] l = cond1 -> Block(<<>>, CondBr(0, body1, exit1))
       [] l = exit1 -> Block(<<Store(v, 0)>>, Ret(0))])}

\* int r = n; if (n < 2) return r; return n + 1, in a device function.
ReturnCopy ==
  {Unit([l \in {e, if_t, if_m} |->
     CASE l = e -> Block(<<Param(n, 0), Copy(w1, n), Lt(lt, n, 2)>>, CondBr(lt, if_t, if_m))
       [] l = if_t -> Block(<<>>, Ret(w1))
       [] l = if_m -> Block(<<Add(w2, n, 1)>>, Ret(w2))])}

\* The arms of a diamond store to different cells: only the first is stored to.
OtherTarget == {Diamond(<<Lt(lt, w1, 2)>>, <<Load(w2, 1), Mul(w3, w2, 2), Store(w3, 2)>>,
                        <<Load(w4, 1), Mul(w5, w4, 3), Store(w5, 3)>>, <<Store(w1, 0)>>)}
\* The arms load another cell than the test.
OtherSource == {Diamond(<<Lt(lt, w1, 2)>>, <<Load(w2, 0), Mul(w3, w2, 2), Store(w3, 2)>>,
                        <<Load(w4, 0), Mul(w5, w4, 3), Store(w5, 2)>>, <<Store(w1, 0)>>)}
\* The true arm also stores something else.
ExtraStore == {Diamond(<<Lt(lt, w1, 2)>>, <<Store(n, 3), Load(w2, 1), Mul(w3, w2, 2), Store(w3, 2)>>,
                       <<Load(w4, 1), Mul(w5, w4, 3), Store(w5, 2)>>, <<Store(w1, 0)>>)}
\* The branch is on another comparison than the last one.
OtherTest == {Diamond(<<Lt(lt, n, 2), Lt(lt2, w1, 2), Store(lt2, 3)>>, <<Load(w2, 1), Mul(w3, w2, 2), Store(w3, 2)>>,
                      <<Load(w4, 1), Mul(w5, w4, 3), Store(w5, 2)>>, <<Store(w1, 0)>>)}

\* int x = -3; if (n < 2) { store n; } store x / 2 or x % 2: the bias of a
\* constant found out late is its sign shifted as a Python integer.
LateNegative == UNION {{Late(t, k[1], k[2], k[3]) :
                          k \in {x \in t.consts \X Divisions \X {1, 2} : BiasOf(t, x[1], x[2], x[3])}} :
                       t \in LateTypes}

\* int x = -3; store x / 2u: the constant goes into the unsigned division as it is.
MixedSigns == {Unit([l \in {e} |-> Block(<<Param(n, 0), Copy(s1, -3), Inst("div", w1, s1, 2), Store(w1, 0)>>,
                                        Ret(0))])}

\* A diamond in a loop, followed by what does not change in the loop and has the
\* number 100 above the block: licm moves it before the loop, and the selection
\* overwrites it.
NumberTaken ==
  {Unit([l \in {e, cond1, body1, if_t, if_f, if_m, inc1, exit1} |->
     CASE l = e -> Block(<<Param(n, 0), Copy(i, 0)>>, Br(cond1))
       [] l = cond1 -> Block(<<Lt(lt2, i, n)>>, CondBr(lt2, body1, exit1))
       [] l = body1 -> Block(<<Load(w1, 1), Lt(lt, w1, 2)>>, CondBr(lt, if_t, if_f))
       [] l = if_t -> Block(<<Load(w2, 1), Mul(w3, w2, 2), Store(w3, 2)>>, Br(if_m))
       [] l = if_f -> Block(<<Load(w4, 1), Mul(w5, w4, 3), Store(w5, 2)>>, Br(if_m))
       [] l = if_m -> Block(<<Sub(f1, n, 3), Store(f1, 0)>>, Br(inc1))
       [] l = inc1 -> Block(<<Add(v1, i, 1), Copy(i, v1)>>, Br(cond1))
       [] l = exit1 -> Block(<<Store(i, 3)>>, Ret(0))])}

\* A diamond, then while (1) {}: the empty cycle is taken for an empty merge
\* block and the block at its head is removed.
DiamondThenForever ==
  {Unit([l \in {e, if_t, if_f, if_m, cond1, body1, exit1} |->
     CASE l = e -> Block(<<Param(n, 0), Load(w1, 1), Lt(lt, w1, 2)>>, CondBr(lt, if_t, if_f))
       [] l = if_t -> Block(<<Load(w2, 1), Mul(w3, w2, 2), Store(w3, 2)>>, Br(if_m))
       [] l = if_f -> Block(<<Load(w4, 1), Mul(w5, w4, 3), Store(w5, 2)>>, Br(if_m))
       [] l = if_m -> Block(<<>>, Br(cond1))
       [] l = cond1 -> Block(<<>>, CondBr(1, body1, exit1))
       [] l = body1 -> Block(<<>>, Br(cond1))
       [] l = exit1 -> Block(<<>>, Ret(0))])}
=============================================================================
