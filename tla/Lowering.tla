------------------------------ MODULE Lowering ------------------------------
(***************************************************************************)
(* The parser's lowering of statements and expressions to blocks of IR     *)
(* (frontend/parser.py).  The parser is one pass: a method consumes its    *)
(* tokens, appends to self._cur_block and rebinds self._variables, so each *)
(* is an operator from the parser's state to the next, and a statement of  *)
(* the kernel's body is an action.  Statements are those of SourceProgram. *)
(*                                                                         *)
(* A variable is not memory: its name is bound to the register last        *)
(* assigned, and where control flow joins, copies bring the values back to *)
(* the registers that the names had before it (_loop_writeback).           *)
(*                                                                         *)
(* An operand is <<"reg", id, name>> or <<"const", k>>; an instruction     *)
(* <<op, dest, lhs, rhs>>; a label the index of its block.                 *)
(***************************************************************************)
EXTENDS SourceProgram, Verifier

CONSTANTS
  Params,     \* the kernel's parameters, in order
  NameOrder,  \* every name, in the order in which it enters _variables
  Stmts,      \* statements a kernel's body is made of
  Allowed(_), \* bound: the bodies that are parsed
  IrFuel      \* bound: blocks of a run that are followed

VARIABLES
  body,       \* statements parsed
  p           \* the parser: blocks, cur, next (new_value's counter), vars
              \* (_variables), chain (_copy_chain_global), scopes, breaks and
              \* continues (targets and snapshots), inline (return target), and
              \* val, the operand the last method returned

lowerVars == <<body, p>>

-----------------------------------------------------------------------------
(* Helpers.                                                                *)

NoTerm == <<"none">>
NoTarget == <<>>
Const(k) == <<"const", k>>
IsConst(o) == o[1] = "const"

NewBlocks(q, n) ==
  [q EXCEPT !.blocks = @ \o [i \in 1..n |-> [insts |-> <<>>, term |-> NoTerm]]]

\* new_value, returned in val.
NewVal(q, name) == [q EXCEPT !.val = <<"reg", q.next, name>>, !.next = @ + 1]

SetTerm(q, b, term) == [q EXCEPT !.blocks[b].term = term]
Branch(q, to) == SetTerm(q, q.cur, <<"br", to>>)
CondBranch(q, c, yes, no) == SetTerm(q, q.cur, <<"cond", c, yes, no>>)
IsOpen(q) == q.blocks[q.cur].term = NoTerm
BranchIfOpen(q, to) == IF IsOpen(q) THEN Branch(q, to) ELSE q
At(q, b) == [q EXCEPT !.cur = b]

\* _emit: the copies of a register are noted in the chain.
Emit(q, inst) ==
  LET added == [q EXCEPT !.blocks[q.cur].insts = Append(@, inst)]
      dest == inst[2][2]
  IN  IF inst[1] = "add" /\ inst[4] = Const(0) /\ ~IsConst(inst[3])
      THEN [added EXCEPT !.chain = [r \in DOMAIN @ \union {dest} |->
                                      IF r = dest THEN inst[3] ELSE @[r]]]
      ELSE added

Copy(q, dest, src) == Emit(q, <<"add", dest, src, Const(0)>>)
EmitNew(q, name, op, lhs, rhs) ==
  LET new == NewVal(q, name) IN Emit(new, <<op, new.val, lhs, rhs>>)

Bind(q, v, o) ==
  [q EXCEPT !.vars = [n \in DOMAIN @ \union {v} |-> IF n = v THEN o ELSE @[n]]]

-----------------------------------------------------------------------------
(* Writing variables back.                                                 *)

\* _root: follow the copies until one copies nothing or is met again.
RECURSIVE RootFrom(_, _, _)
RootFrom(chain, o, seen) ==
  IF IsConst(o) \/ o[2] \in seen \/ o[2] \notin DOMAIN chain THEN o
  ELSE RootFrom(chain, chain[o[2]], seen \union {o[2]})

\* The first copy whose destination no other copy reads, else the first.
NextCopy(q, snap, left) ==
  LET safe == {i \in DOMAIN left : \A j \in DOMAIN left \ {i} :
                 RootFrom(q.chain, q.vars[left[j]], {}) # snap[left[i]]}
  IN  IF safe = {} THEN 1 ELSE CHOOSE i \in safe : \A j \in safe : i <= j

RECURSIVE Sequenced(_, _, _)
Sequenced(q, snap, left) ==
  IF left = <<>> THEN <<>>
  ELSE LET i == NextCopy(q, snap, left)
       IN  <<left[i]>> \o Sequenced(q, snap, RemoveAt(left, i))

CopyBack(q, snap, v) == Bind(Copy(q, snap[v], q.vars[v]), v, snap[v])

\* The registers of the snapshot whose names are bound to something else.
Pending(q, snap) ==
  SelectSeq(NameOrder, LAMBDA v : /\ v \in DOMAIN snap /\ ~IsConst(snap[v])
                                  /\ v \in DOMAIN q.vars /\ q.vars[v] # snap[v])

Writeback(q, snap) ==
  FoldLeft(LAMBDA r, v : CopyBack(r, snap, v), q, Sequenced(q, snap, Pending(q, snap)))

\* The increment of a for loop copies registers only, in the order of the names.
WritebackIncrement(q, snap) ==
  FoldLeft(LAMBDA r, v : IF IsConst(r.vars[v]) THEN r ELSE CopyBack(r, snap, v),
           q, Pending(q, snap))

Restore(q, snap) == [q EXCEPT !.vars = snap]

OpenScope(q) == [q EXCEPT !.scopes = Append(@, {})]

\* The end of a block: a name declared in it is what it was before, or gone.
CloseScope(q, outer) ==
  LET inner == Last(q.scopes)
  IN  [q EXCEPT !.scopes = Front(@),
                !.vars = [n \in (DOMAIN @ \ inner) \union (inner \intersect DOMAIN outer) |->
                            IF n \in inner THEN outer[n] ELSE @[n]]]

DeclareLocal(q, v) ==
  IF q.scopes = <<>> THEN q ELSE [q EXCEPT !.scopes[Len(q.scopes)] = @ \union {v}]

-----------------------------------------------------------------------------
(* Expressions.  ParseExpr returns the operand in val.                     *)

\* An assignment copies what is not a register of this name already.
Assign(q, v, rhs) ==
  LET named == ~IsConst(rhs) /\ rhs[3] = v
      mat == EmitNew(q, v, "add", rhs, Const(0))
  IN  IF IsConst(q.vars[v]) \/ named THEN [Bind(q, v, rhs) EXCEPT !.val = rhs]
      ELSE Bind(mat, v, mat.val)

\* Variant: none is.
ReboundNone(before, after) == <<>>

\* Names rebound between two states: <<register now, register before>>.
Rebound(before, after) ==
  LET names == SelectSeq(NameOrder, LAMBDA v :
                 /\ v \in DOMAIN before /\ v \in DOMAIN after /\ before[v] # after[v]
                 /\ ~IsConst(before[v]) /\ ~IsConst(after[v]))
  IN  [i \in DOMAIN names |-> <<after[names[i]], before[names[i]]>>]

RECURSIVE ParseExpr(_, _), ParseStmt(_, _), ParseAll(_, _), ParseCases(_, _, _)

\* l && r and l || r: the right operand in a block of its own, and in the
\* other a copy for every name that it rebinds.
ShortCircuit(q, isAnd, l, r) ==
  LET lhs == ParseExpr(l, q)
      new == NewVal(lhs, "logical")
      dest == new.val
      rhsB == Len(new.blocks) + 1
      split == NewBlocks(new, 3)
      forked == IF isAnd THEN CondBranch(split, lhs.val, rhsB, rhsB + 1)
                         ELSE CondBranch(split, lhs.val, rhsB + 1, rhsB)
      rhs == ParseExpr(r, At(forked, rhsB))
      taken == Branch(Copy(rhs, dest, rhs.val), rhsB + 2)
      skipped == Copy(At(taken, rhsB + 1), dest, Const(IF isAnd THEN 0 ELSE 1))
      kept == FoldLeft(LAMBDA s, c : Copy(s, c[1], c[2]), skipped,
                       Rebound(new.vars, rhs.vars))
  IN  [At(Branch(kept, rhsB + 2), rhsB + 2) EXCEPT !.val = dest]

\* c ? l : r.  Both are parsed before the branch.
Ternary(q, c, l, r) ==
  LET cond == ParseExpr(c, q)
      yes == ParseExpr(l, cond)
      no == ParseExpr(r, yes)
      new == NewVal(no, "ternary")
      yesB == Len(new.blocks) + 1
      forked == CondBranch(NewBlocks(new, 3), cond.val, yesB, yesB + 1)
      left == Branch(Copy(At(forked, yesB), new.val, yes.val), yesB + 2)
      right == Branch(Copy(At(left, yesB + 1), new.val, no.val), yesB + 2)
  IN  At([right EXCEPT !.val = new.val], yesB + 2)

\* A call of a device function: its body is parsed here, its parameter bound to
\* the operand, and each return copies to one register and leaves for the merge.
InlineCall(q, param, stmts, arg) ==
  LET new == NewVal(Bind(q, param, arg), "ret")
      merge == Len(new.blocks) + 1
      entered == [NewBlocks(new, 1) EXCEPT !.inline = <<new.val, merge>>, !.scopes = <<>>]
      ended == BranchIfOpen(ParseAll(stmts, entered), merge)
  IN  [At(Restore(ended, q.vars), merge) EXCEPT !.inline = q.inline,
                                                !.scopes = q.scopes, !.val = new.val]

ParseExpr(e, q) ==
  CASE e[1] = "var" -> [q EXCEPT !.val = q.vars[e[2]]]
    [] e[1] = "const" -> [q EXCEPT !.val = Const(e[2])]
    [] e[1] = "bin" ->
         LET l == ParseExpr(e[3], q)
             r == ParseExpr(e[4], l)
         IN  IF e[2] = "add" /\ IsConst(l.val) /\ IsConst(r.val)
             THEN [r EXCEPT !.val = Const(Arith("add", l.val[2], r.val[2]))]
             ELSE EmitNew(r, "tmp", e[2], l.val, r.val)
    [] e[1] = "assign" -> LET r == ParseExpr(e[3], q) IN Assign(r, e[2], r.val)
    [] e[1] = "addto" ->
         LET lhs == q.vars[e[2]]
             r == ParseExpr(e[3], q)
             sum == EmitNew(r, "compound", "add", lhs, r.val)
         IN  IF IsConst(lhs) THEN [r EXCEPT !.val = lhs] ELSE Bind(sum, e[2], sum.val)
    [] e[1] = "postinc" ->
         LET old == q.vars[e[2]]
             new == EmitNew(q, "inc", "add", old, Const(1))
         IN  IF IsConst(old) THEN [q EXCEPT !.val = old]
             ELSE [Bind(new, e[2], new.val) EXCEPT !.val = old]
    [] e[1] \in {"and", "or"} -> ShortCircuit(q, e[1] = "and", e[2], e[3])
    [] e[1] = "ternary" -> Ternary(q, e[2], e[3], e[4])
    [] e[1] = "call" -> LET a == ParseExpr(e[4], q) IN InlineCall(a, e[2], e[3], a.val)

-----------------------------------------------------------------------------
(* Statements.                                                             *)

ParseAll(stmts, q) == IF stmts = <<>> THEN q ELSE ParseAll(Tail(stmts), ParseStmt(stmts[1], q))

PushLoop(q, exit, next, snap) ==
  [q EXCEPT !.breaks = Append(@, [to |-> exit, snap |-> snap]),
            !.continues = Append(@, [to |-> next, snap |-> snap])]
PopLoop(q) == [q EXCEPT !.breaks = Front(@), !.continues = Front(@)]

\* A branch of an if is written back to the names before it, even when it has
\* left already.
IfBranch(q, b, s, merge, snap) ==
  BranchIfOpen(Writeback(ParseStmt(s, At(Restore(q, snap), b)), snap), merge)

If(q, c, then, else) ==
  LET cond == ParseExpr(c, q)
      yesB == Len(cond.blocks) + 1
      forked == CondBranch(NewBlocks(cond, 3), cond.val, yesB, yesB + 1)
      yes == IfBranch(forked, yesB, then, yesB + 2, cond.vars)
      no == IfBranch(yes, yesB + 1, else, yesB + 2, cond.vars)
  IN  At(Restore(no, cond.vars), yesB + 2)

\* The snapshot is taken before the condition is parsed.
While(q, c, s) ==
  LET condB == Len(q.blocks) + 1
      cond == ParseExpr(c, At(Branch(NewBlocks(q, 3), condB), condB))
      forked == CondBranch(cond, cond.val, condB + 1, condB + 2)
      turn == PopLoop(ParseStmt(s, PushLoop(At(forked, condB + 1), condB + 2, condB, q.vars)))
  IN  At(BranchIfOpen(Writeback(turn, q.vars), condB), condB + 2)

Do(q, s, c) ==
  LET bodyB == Len(q.blocks) + 1
      entered == At(Branch(NewBlocks(q, 3), bodyB), bodyB)
      turn == PopLoop(ParseStmt(s, PushLoop(entered, bodyB + 2, bodyB + 1, q.vars)))
      cond == ParseExpr(c, At(BranchIfOpen(Writeback(turn, q.vars), bodyB + 1), bodyB + 1))
  IN  At(CondBranch(cond, cond.val, bodyB, bodyB + 2), bodyB + 2)

For(q, init, c, inc, s) ==
  LET started == ParseStmt(init, OpenScope(q))
      loop == started.vars
      condB == Len(started.blocks) + 1
      cond == ParseExpr(c, At(Branch(NewBlocks(started, 4), condB), condB))
      forked == CondBranch(cond, cond.val, condB + 1, condB + 3)
      turn == PopLoop(ParseStmt(s, PushLoop(At(forked, condB + 1), condB + 3, condB + 2, loop)))
      ended == IF IsOpen(turn) THEN Branch(Writeback(turn, loop), condB + 2) ELSE turn
      stepped == WritebackIncrement(ParseAll(inc, At(ended, condB + 2)), loop)
  IN  CloseScope(At(Branch(stepped, condB), condB + 3), q.vars)

\* Case by case: the block before falls through to the next case's, unless it
\* is the one before the switch.  q.val collects <<label, block>>.
ParseCases(cases, q, pre) ==
  IF cases = <<>> THEN q
  ELSE LET falls == IsOpen(q) /\ q.cur # pre.cur
           left == IF falls THEN Writeback(q, pre.vars) ELSE q
           b == Len(left.blocks) + 1
           added == NewBlocks(left, 1)
           joined == IF falls THEN Branch(added, b) ELSE added
           parsed == ParseAll(cases[1][2], At(Restore(joined, pre.vars), b))
       IN  ParseCases(Tail(cases), [parsed EXCEPT !.val = Append(q.val, <<cases[1][1], b>>)], pre)

\* The comparisons, one block each, and at the end the default or the exit.
Dispatch(q, operand, labelled, otherwise) ==
  LET Test(r, case) ==
        LET test == EmitNew(r, "cmp", "eq", operand, Const(case[1]))
            next == Len(r.blocks) + 1
        IN  At(CondBranch(NewBlocks(test, 1), test.val, case[2], next), next)
  IN  Branch(FoldLeft(Test, q, labelled), otherwise)

Switch(q, e, cases) ==
  LET on == ParseExpr(e, q)
      exit == Len(on.blocks) + 1
      entered == [NewBlocks(on, 1) EXCEPT !.val = <<>>,
                    !.breaks = Append(@, [to |-> exit, snap |-> on.vars])]
      parsed == ParseCases(cases, entered, on)
      closed == LET r == [parsed EXCEPT !.breaks = Front(@)]
                IN  IF IsOpen(r) THEN Branch(Writeback(r, on.vars), exit) ELSE r
      isDefault == {c \in Range(parsed.val) : c[1] = Default}
      first == Len(closed.blocks) + 1
      joined == BranchIfOpen(At(NewBlocks(closed, 1), on.cur), first)
      dispatched == Dispatch(At(joined, first),
                             on.val, SelectSeq(parsed.val, LAMBDA c : c[1] # Default),
                             IF isDefault = {} THEN exit ELSE (CHOOSE c \in isDefault : TRUE)[2])
  IN  At(Restore(dispatched, on.vars), exit)

\* Variant: the stack is read but nothing is written back.
LeaveUnwritten(q, target) ==
  LET left == NewBlocks(Branch(q, target.to), 1) IN At(left, Len(left.blocks))

\* break and continue write back to the snapshot of their target; what comes
\* after is parsed into a block nothing branches to.
Leave(q, target) ==
  LET left == NewBlocks(Branch(Writeback(q, target.snap), target.to), 1)
  IN  At(left, Len(left.blocks))

\* In a kernel the parser stays in the block of the return.
Return(q, e) ==
  LET value == ParseExpr(e, q)
      left == NewBlocks(Branch(Copy(value, q.inline[1], value.val), q.inline[2]), 1)
  IN  IF q.inline = NoTarget THEN SetTerm(q, q.cur, <<"ret">>) ELSE At(left, Len(left.blocks))

ParseStmt(s, q) ==
  CASE s[1] = "expr" -> ParseExpr(s[2], q)
    [] s[1] = "store" -> LET e == ParseExpr(s[2], q)
                         IN  Emit(e, <<"store", Const(0), e.val, Const(0)>>)
    [] s[1] = "decl" -> LET new == NewVal(q, s[2])
                            e == ParseExpr(s[3], DeclareLocal(Bind(new, s[2], new.val), s[2]))
                        IN  Bind(Copy(e, new.val, e.val), s[2], new.val)
    [] s[1] = "block" -> CloseScope(ParseAll(s[2], OpenScope(q)), q.vars)
    [] s[1] = "if" -> If(q, s[2], s[3], s[4])
    [] s[1] = "for" -> For(q, s[2], s[3], s[4], s[5])
    [] s[1] = "while" -> While(q, s[2], s[3])
    [] s[1] = "do" -> Do(q, s[2], s[3])
    [] s[1] = "switch" -> Switch(q, s[2], s[3])
    [] s[1] = "break" -> Leave(q, Last(q.breaks))
    [] s[1] = "continue" -> Leave(q, Last(q.continues))
    [] s[1] = "return" -> Return(q, s[2])

-----------------------------------------------------------------------------
(* The kernel.                                                             *)

Entry == 1
ParamReg(i) == <<"reg", i, Params[i]>>

LowerInit ==
  /\ body = <<>>
  /\ p = [blocks |-> <<[insts |-> [i \in DOMAIN Params |-> <<"param", ParamReg(i), Const(0), Const(0)>>],
                        term |-> NoTerm]>>, cur |-> Entry,
          next |-> Len(Params) + 1, chain |-> <<>>, scopes |-> <<>>, breaks |-> <<>>,
          continues |-> <<>>, inline |-> NoTarget, val |-> Const(0),
          vars |-> [v \in Range(Params) |-> ParamReg(CHOOSE i \in DOMAIN Params : Params[i] = v)]]

Statement(s) ==
  /\ Allowed(Append(body, s))
  /\ body' = Append(body, s)
  /\ p' = ParseStmt(s, p)

LowerNext == \E s \in Stmts : Statement(s)
LowerSpec == LowerInit /\ [][LowerNext]_lowerVars

\* The blocks when the body ends here.
Kernel == (IF IsOpen(p) THEN SetTerm(p, p.cur, <<"ret">>) ELSE p).blocks

-----------------------------------------------------------------------------
(* What the blocks do.  A register that was never written reads as Junk.   *)

Junk == Width
Read(regs, o) == IF IsConst(o) THEN o[2] ELSE regs[o[2]]
Compute(op, a, b) == IF Junk \in {a, b} THEN Junk ELSE Arith(op, a, b)

Execute(m, inst) ==
  CASE inst[1] = "store" -> [m EXCEPT !.out = Append(@, Read(m.regs, inst[3]))]
    [] inst[1] = "param" -> [m EXCEPT !.regs[inst[2][2]] = m.inputs[inst[2][3]]]
    [] inst[1] \in {"add", "eq"} ->
         [m EXCEPT !.regs[inst[2][2]] = Compute(inst[1], Read(m.regs, inst[3]), Read(m.regs, inst[4]))]

RECURSIVE RunFrom(_, _, _, _)
RunFrom(blocks, b, m0, fuel) ==
  LET m == FoldLeft(Execute, m0, blocks[b].insts)
      t == blocks[b].term
  IN  CASE fuel = 0 -> [m EXCEPT !.at = 0]
        [] fuel > 0 /\ t[1] = "ret" -> [m EXCEPT !.at = b]
        [] fuel > 0 /\ t[1] = "br" -> RunFrom(blocks, t[2], m, fuel - 1)
        [] fuel > 0 /\ t[1] = "cond" ->
             RunFrom(blocks, IF Read(m.regs, t[2]) # 0 THEN t[3] ELSE t[4], m, fuel - 1)

Inputs == [Range(Params) -> 0..Width-1]

IrRun(inputs) ==
  RunFrom(Kernel, Entry,
          [out |-> <<>>, at |-> 0, inputs |-> inputs, regs |-> [r \in 1..p.next |-> Junk]], IrFuel)

SourceRun(inputs) == ExecAll(body, StartState(inputs, Params))

\* The kernel stores what the source program stores and, where it has not
\* returned, the variables have the values they have in the source program, on
\* every input on which the program ends.
OutcomeKept ==
  \A inputs \in Inputs :
    LET source == SourceRun(inputs)
        ir == IrRun(inputs)
    IN  source.flow # "stuck" =>
          /\ ir.out = source.out
          /\ source.flow = "next" =>
               \A v \in DOMAIN source.env : Read(ir.regs, p.vars[v]) = source.mem[source.env[v]]

\* The verifier has nothing to report of a kernel the parser made, the stubs
\* after break, continue and return included.
VerifierAccepts == VerifyErrors(Kernel) = {}
=============================================================================
