----------------------------- MODULE ValuePasses -----------------------------
(***************************************************************************)
(* The passes of ir/optimize.py that rewrite values: constant_fold, cse,   *)
(* identity_fold and dead_inst_elim.  A value may be defined in many       *)
(* places (the parser writes loop variables back), so a pass that replaces *)
(* a read of one value by another has to know that both hold the same.     *)
(* The end of the module says what a unit computes.                        *)
(*                                                                         *)
(* An instruction is [op, dest, l, r].  Arithmetic and the four            *)
(* comparisons compute dest from operands; "fma" computes l * r + c;       *)
(* "sel" is r if l holds and c if not; "param" reads parameter l, "load"   *)
(* the cell l; "store" writes operand l to cell r.                         *)
(*                                                                         *)
(* An operand is a value or a constant.  A register holds a word; a        *)
(* constant is the integer Const.value, which the passes compute with as   *)
(* it stands and which reaches a register by its low bits.  dest has the   *)
(* type of an operation: it is signed or unsigned, which divisions and     *)
(* shifts to the right depend on.  "mul" is of floats, "imul" of integers, *)
(* and an "add" that reads a "mul" is of floats.  Comparisons are          *)
(* unsigned.  All integers have one width.  Conversions are left out.      *)
(***************************************************************************)
EXTENDS CfgCleanup, Integers

LOCAL INSTANCE SequencesExt
LOCAL INSTANCE Bitwise

CONSTANTS
  Values,     \* IR values, the Value objects of the code
  Unsigned,   \* those of an unsigned type
  Modulus,    \* bound: arithmetic is modulo this, a power of two
  NoValue,    \* the dest of a store
  Fresh,      \* Values that new_value may return, a sequence; the code makes each
              \* of the type it is for
  Params      \* parameters

Word == 0..(Modulus - 1)
\* Bound: constants.  The code masks what it folds, so that all but the first
\* constants of unrolled loops are in the range of a type.
Consts == -Modulus..(Modulus - 1)
IsConst(o) == o \in Consts
Width == CHOOSE w \in Word : 2 ^ w = Modulus

\* A word read as an integer of the type of d, which is _mask_int of a constant.
Masked(k, d) == LET low == k % Modulus
                IN  IF d \in Unsigned \/ 2 * low < Modulus THEN low ELSE low - Modulus

Inst(op, d, l, r) == [op |-> op, dest |-> d, l |-> l, r |-> r]
Add(d, l, r) == Inst("add", d, l, r)
Sub(d, l, r) == Inst("sub", d, l, r)
Mul(d, l, r) == Inst("mul", d, l, r)
Lt(d, l, r) == Inst("lt", d, l, r)
Fma(d, l, r, c) == [op |-> "fma", dest |-> d, l |-> l, r |-> r, c |-> c]
Sel(d, l, r, c) == [op |-> "sel", dest |-> d, l |-> l, r |-> r, c |-> c]
Load(d, cell) == Inst("load", d, cell, 0)
Param(d, n) == Inst("param", d, n, 0)
Store(o, cell) == Inst("store", NoValue, o, cell)
Copy(d, o) == Add(d, o, 0)

Divisions == {"div", "mod"}
Products == {"mul", "imul"}
Bins == Divisions \union Products \union
          {"add", "sub", "shl", "shr", "and", "or", "xor"}   \* BinInst
Comparisons == {"lt", "le", "gt", "ge"} \* CmpInst
Pure == Bins \union Comparisons

-----------------------------------------------------------------------------
\* Instructions of the kernel, each with its place.
InstPlaces == UNION {{b} \X DOMAIN insts[b] : b \in blocks}
At(p) == insts[p[1]][p[2]]
DefCount(v) == FoldSet(LAMBDA b, c : c + Len(SelectSeq(insts[b], LAMBDA x : x.dest = v)), 0, blocks)

\* Operands an instruction reads, and the instruction with f applied to them.
Reads(x) == CASE x.op \in {"param", "load"} -> {}
              [] x.op = "store" -> {x.l}
              [] x.op \in {"fma", "sel"} -> {x.l, x.r, x.c}
              [] OTHER -> {x.l, x.r}
MapReads(x, f) == CASE x.op \in {"param", "load"} -> x
                    [] x.op = "store" -> [x EXCEPT !.l = f[@]]
                    [] x.op \in {"fma", "sel"} -> [x EXCEPT !.l = f[@], !.r = f[@], !.c = f[@]]
                    [] OTHER -> [x EXCEPT !.l = f[@], !.r = f[@]]
MapCond(t, f) == IF t.kind = "cond" THEN [t EXCEPT !.cond = f[@]] ELSE t

\* Values nothing in the unit mentions.
Unused == LET mentioned == {At(p).dest : p \in InstPlaces} \union UNION {Reads(At(p)) : p \in InstPlaces}
          IN  SelectSeq(Fresh, LAMBDA v : v \notin mentioned)

Operands == Values \union Consts
Identity == [o \in Operands |-> o]

-----------------------------------------------------------------------------
(***************************************************************************)
(* constant_fold.  known is the replacement map of one block: a value      *)
(* whose definition folded to a constant reads as that constant from there *)
(* to the end of the block, its terminator included.                       *)
(***************************************************************************)
Size(k) == IF k < 0 THEN -k ELSE k

\* _fold_bin: Python arithmetic on the integers of the constants.
Folded(op, a, b) ==
  LET quotient == Size(a) \div Size(b)
      rest == Size(a) - quotient * Size(b)
  IN  CASE op = "add" -> a + b
        [] op = "sub" -> a - b
        [] op \in Products -> a * b
        [] op = "div" -> IF (a >= 0) = (b >= 0) THEN quotient ELSE -quotient
        [] op = "mod" -> IF a >= 0 THEN rest ELSE -rest
        [] op = "shl" -> a * 2 ^ b
        [] op = "shr" -> a \div 2 ^ b
        [] op = "and" -> (a % Modulus) & (b % Modulus)
        [] op = "or" -> (a % Modulus) | (b % Modulus)
        [] op = "xor" -> (a % Modulus) ^^ (b % Modulus)

\* Division by zero and shifts by a negative count are not folded.
Foldable(x) == /\ x.op \in Bins /\ IsConst(x.l) /\ IsConst(x.r)
               /\ ~(x.op \in Divisions /\ x.r = 0)
               /\ ~(x.op \in {"shl", "shr"} /\ x.r < 0)
FoldBin(x) == IF Foldable(x) THEN Masked(Folded(x.op, x.l, x.r), x.dest) ELSE NoValue

\* The k with o = 2^k, a set of at most one.
Log(o) == {k \in 0..(Width - 1) : IsConst(o) /\ o = 2 ^ k}
The(S) == CHOOSE k \in S : TRUE

\* The values of new of a signed type, by number, and the first unsigned one.
Signed(new, k) == SelectSeq(new, LAMBDA v : v \notin Unsigned)[k]
Bias(new) == SelectSeq(new, LAMBDA v : v \in Unsigned)[1]

\* Variant: the bias is shifted by one place less.
SignBiasShort(k, n, new) ==
  <<Inst("shr", Signed(new, 1), n, Width - 1),
    Inst("shr", Bias(new), Signed(new, 1), Width - 1 - k),
    Add(Signed(new, 2), n, Bias(new))>>

\* Signed division by 2^k adds 2^k - 1 to what is negative and shifts; the
\* remainder takes it away again.  new are values not used yet: the sign and
\* the sum are signed, the bias is unsigned.
SignBias(k, n, new) ==
  <<Inst("shr", Signed(new, 1), n, Width - 1),
    Inst("shr", Bias(new), Signed(new, 1), Width - k),
    Add(Signed(new, 2), n, Bias(new))>>

\* What an operation on a constant becomes, tried in the order of the code.
Reduced(x, new) ==
  LET d == x.dest
      unsigned == d \in Unsigned
      ones == Masked(Modulus - 1, d)
      consts == {o \in {x.l, x.r} : IsConst(o)}
      k == The(Log(x.r))
  IN  CASE x.op \in Products /\ 1 \in consts -> <<Copy(d, IF x.r = 1 THEN x.l ELSE x.r)>>
        [] x.op = "div" /\ x.r = 1 -> <<Copy(d, x.l)>>
        [] x.op = "imul" /\ Log(x.r) # {} -> <<Inst("shl", d, x.l, k)>>
        [] x.op = "imul" /\ Log(x.l) # {} -> <<Inst("shl", d, x.r, The(Log(x.l)))>>
        [] x.op = "div" /\ Log(x.r) # {} /\ unsigned -> <<Inst("shr", d, x.l, k)>>
        [] x.op = "div" /\ Log(x.r) # {} /\ ~unsigned ->
             SignBias(k, x.l, new) \o <<Inst("shr", d, Signed(new, 2), k)>>
        [] x.op = "mod" /\ Log(x.r) # {} /\ unsigned -> <<Inst("and", d, x.l, x.r - 1)>>
        [] x.op = "mod" /\ Log(x.r) # {} /\ ~unsigned ->
             SignBias(k, x.l, new)
               \o <<Inst("and", Signed(new, 3), Signed(new, 2), x.r - 1),
                    Sub(d, Signed(new, 3), Bias(new))>>
        [] x.op \in Products \union {"and"} /\ 0 \in consts -> <<Copy(d, 0)>>
        [] x.op = "and" /\ ones \in consts -> <<Copy(d, IF x.r = ones THEN x.l ELSE x.r)>>
        [] x.op = "or" /\ ones \in consts -> <<Copy(d, ones)>>
        [] x.op \in {"sub", "xor"} /\ x.l = x.r -> <<Copy(d, 0)>>
        [] OTHER -> <<x>>

FoldInst(acc, x0) ==
  LET x == IF x0.op = "fma" THEN x0 ELSE MapReads(x0, acc.known)
      c == FoldBin(x)
      is == Reduced(x, acc.fresh)
  IN  IF x.op \notin Bins THEN [acc EXCEPT !.out = Append(@, x)]
      ELSE IF c # NoValue
        THEN [acc EXCEPT !.out = Append(@, Copy(x.dest, c)), !.known = [@ EXCEPT ![x.dest] = c]]
      ELSE [acc EXCEPT !.out = @ \o is,
                       !.fresh = SelectSeq(@, LAMBDA v : \A k \in DOMAIN is : v # is[k].dest)]

FoldTerm(t, known) ==
  IF t.kind = "cond" /\ IsConst(known[t.cond])
    THEN Br(IF known[t.cond] # 0 THEN t.yes ELSE t.no)
    ELSE t

FoldBlock(acc, b) ==
  LET done == FoldLeft(FoldInst, [out |-> <<>>, known |-> Identity, fresh |-> acc.fresh], insts[b])
  IN  [insts |-> [acc.insts EXCEPT ![b] = done.out],
       term |-> [acc.term EXCEPT ![b] = FoldTerm(@, done.known)], fresh |-> done.fresh]

ConstantFold ==
  LET done == FoldLeft(FoldBlock, [insts |-> insts, term |-> term, fresh |-> Unused], BlockList)
  IN  /\ insts' = done.insts
      /\ term' = done.term
      /\ UNCHANGED <<source, blocks>>

-----------------------------------------------------------------------------
(***************************************************************************)
(* cse.  seen maps an expression to the value that holds it and is handed  *)
(* on to a block whose only predecessor has been processed; repl is the    *)
(* replacement map, of one block and, at the end, of the kernel.           *)
(***************************************************************************)
\* The type of dest is part of the key of an arithmetic expression.
Key(x) ==
  LET unsigned == x.dest \in Unsigned
  IN  CASE x.op \in Products \union {"add", "and", "or", "xor"} -> <<x.op, {x.l, x.r}, unsigned>>
        [] x.op \in {"sub", "shl", "shr"} \union Divisions -> <<x.op, x.l, x.r, unsigned>>
        [] x.op = "gt" -> <<"lt", x.r, x.l>>
        [] x.op = "ge" -> <<"le", x.r, x.l>>
        [] x.op \in {"lt", "le"} -> <<x.op, x.l, x.r>>

\* Variant: values with many definitions are merged like any other.
EliminableAnyCount(x) == x.op \in Pure

\* A definition may be dropped, or offered to later ones, when it is the only
\* one of its value in the kernel.
Eliminable(x) == x.op \in Pure /\ DefCount(x.dest) < 2

CseInst(acc, x0) ==
  LET x == MapReads(x0, acc.repl)
      same == {s \in acc.seen : s.key = Key(x)}
  IN  CASE ~Eliminable(x) -> [acc EXCEPT !.out = Append(@, x)]
        [] Eliminable(x) /\ same # {} ->
             [acc EXCEPT !.repl = [@ EXCEPT ![x.dest] = (CHOOSE s \in same : TRUE).val]]
        [] OTHER -> [acc EXCEPT !.out = Append(@, x),
                                !.seen = @ \union {[key |-> Key(x), val |-> x.dest]}]

\* The branches to a block, one for each arm.
ArmsTo(l) == {<<b, arm>> \in blocks \X {"to", "yes", "no"} :
                arm \in DOMAIN term[b] /\ term[b][arm] = l}

\* The blocks in list order, each with what the walk of it leaves behind.
CseBlocks ==
  LET step(done, b) ==
        LET from == {p \in DOMAIN done : ArmsTo(b) # {} /\ \A a \in ArmsTo(b) : a[1] = p}
            seen == IF Cardinality(ArmsTo(b)) = 1 /\ from # {}
                      THEN done[CHOOSE p \in from : TRUE].seen ELSE {}
            left == FoldLeft(CseInst, [out |-> <<>>, seen |-> seen, repl |-> Identity], insts[b])
        IN  [p \in DOMAIN done \union {b} |-> IF p = b THEN left ELSE done[p]]
  IN  FoldLeft(step, [p \in {} |-> <<>>], BlockList)

\* The second sweep puts the replacements of all blocks into every block.
Cse ==
  LET done == CseBlocks
      all == [o \in Operands |->
                IF \E b \in blocks : done[b].repl[o] # o
                  THEN done[CHOOSE b \in blocks : done[b].repl[o] # o].repl[o] ELSE o]
      swept(x) == MapReads(x, all)
  IN  /\ insts' = [b \in Labels |->
                     IF b \in blocks THEN [i \in DOMAIN done[b].out |-> swept(done[b].out[i])]
                                     ELSE insts[b]]
      /\ term' = [b \in Labels |-> IF b \in blocks THEN MapCond(term[b], all) ELSE term[b]]
      /\ UNCHANGED <<source, blocks>>

-----------------------------------------------------------------------------
(***************************************************************************)
(* identity_fold.  A value whose one definition adds zero, or the like, is *)
(* replaced by its source in the whole kernel, returned values excepted.   *)
(***************************************************************************)
ZeroRight(x) == x.op \in {"add", "sub", "shl", "shr", "xor", "or"} /\ x.r = 0
ZeroLeft(x) == x.op \in {"add", "xor", "or"} /\ x.l = 0
\* Variant: the definitions of the copy are not counted.
IsCopyAnyCount(x) == ZeroRight(x) \/ ZeroLeft(x)

IsCopy(x) == /\ ZeroRight(x) \/ ZeroLeft(x)
             /\ DefCount(x.dest) = 1
Copied(x) == IF ZeroRight(x) THEN x.l ELSE x.r

\* Chains of copies end at their root.
RECURSIVE Chase(_, _)
Chase(copies, o) ==
  IF \E x \in copies : x.dest = o
    THEN Chase({x \in copies : x.dest # o}, Copied(CHOOSE x \in copies : x.dest = o)) ELSE o
CopySource ==
  LET copies == {x \in {At(p) : p \in InstPlaces} : IsCopy(x)}
  IN  [o \in Operands |-> Chase(copies, o)]

IdentityFold ==
  LET from == CopySource
      kept(b) == SelectSeq(insts[b], LAMBDA x : ~IsCopy(x))
  IN  /\ insts' = [b \in Labels |->
                     IF b \in blocks
                       THEN [i \in DOMAIN kept(b) |-> MapReads(kept(b)[i], from)]
                       ELSE insts[b]]
      /\ term' = [b \in Labels |-> IF b \in blocks THEN MapCond(term[b], from) ELSE term[b]]
      /\ UNCHANGED <<source, blocks>>

-----------------------------------------------------------------------------
(***************************************************************************)
(* dead_inst_elim: drop what nothing reads, until nothing is dropped.      *)
(***************************************************************************)
\* Variant: branch conditions are not counted as reads.
TermReadsReturn(t) == IF t.kind = "ret" THEN {t.val} ELSE {}

TermReads(t) == CASE t.kind = "cond" -> {t.cond} [] t.kind = "ret" -> {t.val} [] OTHER -> {}

RECURSIVE Live(_)
Live(S) ==
  LET read == UNION {Reads(At(p)) : p \in S} \union UNION {TermReads(term[b]) : b \in blocks}
      kept == {p \in S : At(p).op \in Pure => At(p).dest \in read}
  IN  IF kept = S THEN S ELSE Live(kept)

DeadInstElim ==
  LET left == Live(InstPlaces)
      places(b) == SelectSeq([i \in 1..Len(insts[b]) |-> <<b, i>>], LAMBDA p : p \in left)
  IN  /\ insts' = [b \in Labels |->
                     IF b \in blocks THEN [i \in DOMAIN places(b) |-> At(places(b)[i])]
                                     ELSE insts[b]]
      /\ UNCHANGED <<source, blocks, term>>

-----------------------------------------------------------------------------
(***************************************************************************)
(* What a unit does on given parameters: the cells it stores to, in order, *)
(* with their values, and the value it returns.  A register holds garbage  *)
(* until it is written; a cell holds a value of its own at the start.      *)
(***************************************************************************)
ValueOf(o, env) == IF IsConst(o) THEN o % Modulus ELSE env[o]

\* The quotient that leaves a rest smaller than b with the sign of a: C divides
\* towards zero.
Quotient(a, b) == CHOOSE q \in Consts : LET rest == a - q * b
                                        IN  Size(rest) < Size(b) /\ a * rest >= 0

\* What the machine computes into d from two words.
Computed(op, d, l, r) ==
  LET a == Masked(l, d)
      b == Masked(r, d)
  IN  CASE op = "add" -> (l + r) % Modulus
        [] op = "sub" -> (l - r) % Modulus
        [] op \in Products -> (l * r) % Modulus
        [] op \in Divisions /\ r = 0 -> Modulus - 1
        [] op = "div" /\ r # 0 -> Quotient(a, b) % Modulus
        [] op = "mod" /\ r # 0 -> (a - b * Quotient(a, b)) % Modulus
        [] op = "shl" -> (l * 2 ^ r) % Modulus
        [] op = "shr" -> (a \div 2 ^ r) % Modulus
        [] op = "and" -> l & r
        [] op = "or" -> l | r
        [] op = "xor" -> l ^^ r
        [] OTHER -> IF \/ op = "lt" /\ l < r
                       \/ op = "le" /\ l <= r
                       \/ op = "gt" /\ l > r
                       \/ op = "ge" /\ l >= r THEN 1 ELSE 0

Step(st, x) ==
  LET l == ValueOf(x.l, st.env)
      r == ValueOf(x.r, st.env)
      set(n) == [st EXCEPT !.env[x.dest] = n]
  IN  CASE x.op \in Pure -> set(Computed(x.op, x.dest, l, r))
        [] x.op = "fma" -> set((l * r + ValueOf(x.c, st.env)) % Modulus)
        [] x.op = "sel" -> set(IF l # 0 THEN r ELSE ValueOf(x.c, st.env))
        [] x.op = "param" -> set(st.args[x.l])
        [] x.op = "load" -> set(st.mem[x.l])
        [] x.op = "store" -> [st EXCEPT !.trace = Append(@, <<x.r, l>>), !.mem[x.r] = l]

Visit(bodies, terms, st0) ==
  LET st == FoldLeft(Step, st0, bodies[st0.at])
      t == terms[st0.at]
  IN  CASE t.kind = "br" -> [st EXCEPT !.at = t.to]
        [] t.kind = "cond" -> [st EXCEPT !.at = IF ValueOf(t.cond, st.env) # 0 THEN t.yes ELSE t.no]
        [] t.kind = "ret" -> [st EXCEPT !.result = <<ValueOf(t.val, st.env)>>]

\* result is <<>> while the run goes on.
RECURSIVE Continue(_, _, _, _)
Continue(bodies, terms, st, visits) ==
  IF st.result # <<>> \/ visits = 0
    THEN st ELSE Continue(bodies, terms, Visit(bodies, terms, st), visits - 1)

Outcome(bodies, terms, args, garbage, visits) ==
  Continue(bodies, terms,
           [at |-> Entry, env |-> [v \in Values |-> garbage], args |-> args,
            mem |-> [cell \in Word |-> (cell + FoldFunction(LAMBDA a, sum : a + sum, 0, args)) % Modulus],
            trace |-> <<>>, result |-> <<>>], visits)
=============================================================================
