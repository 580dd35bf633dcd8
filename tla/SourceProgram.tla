---------------------------- MODULE SourceProgram ----------------------------
(***************************************************************************)
(* What a kernel of the C subset means: the reference the lowering of the  *)
(* parser is compared with.  An expression or a statement is a tuple whose *)
(* first member is its kind:                                               *)
(*                                                                         *)
(*   <<"var", v>>  <<"const", k>>  <<"bin", op, l, r>>  <<"assign", v, e>> *)
(*   <<"addto", v, e>>  <<"postinc", v>>  <<"and", l, r>>  <<"or", l, r>>  *)
(*   <<"ternary", c, l, r>>  <<"call", param, body, e>>                    *)
(*                                                                         *)
(*   <<"expr", e>>  <<"store", e>>  <<"decl", v, e>>  <<"block", stmts>>   *)
(*   <<"if", c, then, else>>  <<"for", init, c, inc, body>>                *)
(*   <<"while", c, body>>  <<"do", body, c>>  <<"break">>  <<"continue">>  *)
(*   <<"switch", e, cases>>  <<"return", e>>, e a constant where the       *)
(*   kernel returns nothing                                                *)
(*                                                                         *)
(* A variable is a name bound to a cell.  A program that takes more than   *)
(* Fuel turns of its loops is not followed further.                        *)
(***************************************************************************)
EXTENDS Naturals, Sequences, FiniteSets

CONSTANTS
  Width,    \* bound: integers are 0..Width-1, and wrap around
  Fuel      \* bound: turns of the loops of a run

Nop == <<"block", <<>>>>

Arith(op, a, b) ==
  CASE op = "add" -> (a + b) % Width
    [] op = "eq" -> IF a = b THEN 1 ELSE 0

\* env: name -> cell, mem: contents of the cells, out: what was stored.
StartState(inputs, names) ==
  [env |-> [n \in DOMAIN inputs |-> CHOOSE i \in DOMAIN names : names[i] = n],
   mem |-> [i \in DOMAIN names |-> inputs[names[i]]],
   out |-> <<>>, flow |-> "next", val |-> 0, fuel |-> Fuel]

Put(st, v, k) == [st EXCEPT !.mem[st.env[v]] = k, !.val = k]

BindNew(st, v, k) ==
  [st EXCEPT !.mem = Append(@, k),
             !.env = [n \in DOMAIN @ \union {v} |-> IF n = v THEN Len(st.mem) + 1 ELSE @[n]]]

Truth(st, b) == [st EXCEPT !.val = IF b THEN 1 ELSE 0]

RECURSIVE Eval(_, _), Exec(_, _), ExecAll(_, _), Repeat(_, _, _, _)

Eval(e, st) ==
  CASE e[1] = "var" -> [st EXCEPT !.val = st.mem[st.env[e[2]]]]
    [] e[1] = "const" -> [st EXCEPT !.val = e[2]]
    [] e[1] = "bin" -> LET l == Eval(e[3], st)
                           r == Eval(e[4], l)
                       IN  [r EXCEPT !.val = Arith(e[2], l.val, r.val)]
    [] e[1] = "assign" -> LET r == Eval(e[3], st) IN Put(r, e[2], r.val)
    [] e[1] = "addto" -> LET r == Eval(e[3], st)
                         IN  Put(r, e[2], Arith("add", r.mem[r.env[e[2]]], r.val))
    [] e[1] = "postinc" -> LET old == st.mem[st.env[e[2]]]
                           IN  [Put(st, e[2], Arith("add", old, 1)) EXCEPT !.val = old]
    [] e[1] = "and" -> LET l == Eval(e[2], st)
                           r == Eval(e[3], l)
                       IN  IF l.val = 0 THEN l ELSE Truth(r, r.val # 0)
    [] e[1] = "or" -> LET l == Eval(e[2], st)
                          r == Eval(e[3], l)
                      IN  IF l.val # 0 THEN Truth(l, TRUE) ELSE Truth(r, r.val # 0)
    [] e[1] = "ternary" -> LET c == Eval(e[2], st)
                           IN  Eval(IF c.val # 0 THEN e[3] ELSE e[4], c)
    [] e[1] = "call" -> LET arg == Eval(e[4], st)
                            ended == ExecAll(e[3], BindNew(arg, e[2], arg.val))
                        IN  [ended EXCEPT !.env = st.env,
                                          !.flow = IF @ = "return" THEN "next" ELSE @]

ExecAll(stmts, st) ==
  IF stmts = <<>> \/ st.flow # "next" THEN st ELSE ExecAll(Tail(stmts), Exec(stmts[1], st))

\* The loop with condition c, body and increment; first: c is not tested.
Repeat(c, body, inc, st0) ==
  LET st == Eval(c, st0)
      turn == Exec(body, [st EXCEPT !.fuel = @ - 1])
      after == [turn EXCEPT !.flow = IF @ = "continue" THEN "next" ELSE @]
  IN  IF st.val = 0 THEN st
      ELSE IF st.fuel = 0 THEN [st EXCEPT !.flow = "stuck"]
      ELSE IF after.flow = "break" THEN [after EXCEPT !.flow = "next"]
      ELSE IF after.flow # "next" THEN after
      ELSE Repeat(c, body, inc, ExecAll(inc, after))

\* The label of "default:" is no value.
Default == Width

\* The statements a switch on k runs: those of the first case that matches, or
\* else of the default, and of all the cases after it.
Selected(cases, k) ==
  LET label == IF \E i \in DOMAIN cases : cases[i][1] = k THEN k ELSE Default
      from == {i \in DOMAIN cases : \E j \in 1..i : cases[j][1] = label}
  IN  [i \in 1..Cardinality(from) |-> cases[Len(cases) - Cardinality(from) + i][2]]

Exec(s, st) ==
  CASE s[1] = "expr" -> Eval(s[2], st)
    [] s[1] = "store" -> LET e == Eval(s[2], st) IN [e EXCEPT !.out = Append(@, e.val)]
    [] s[1] = "decl" -> LET e == Eval(s[3], st) IN BindNew(e, s[2], e.val)
    [] s[1] = "block" -> [ExecAll(s[2], st) EXCEPT !.env = st.env]
    [] s[1] = "if" -> LET c == Eval(s[2], st) IN Exec(IF c.val # 0 THEN s[3] ELSE s[4], c)
    [] s[1] = "for" -> [Repeat(s[3], s[5], s[4], Exec(s[2], st)) EXCEPT !.env = st.env]
    [] s[1] = "while" -> Repeat(s[2], s[3], <<>>, st)
    [] s[1] = "do" -> LET turn == Exec(s[2], st)
                          after == [turn EXCEPT !.flow = IF @ = "continue" THEN "next" ELSE @]
                      IN  IF after.flow = "break" THEN [after EXCEPT !.flow = "next"]
                          ELSE IF after.flow # "next" THEN after
                          ELSE Repeat(s[3], s[2], <<>>, after)
    [] s[1] = "switch" -> LET e == Eval(s[2], st)
                              chosen == Selected(s[3], e.val)
                              run == ExecAll([i \in DOMAIN chosen |-> <<"block", chosen[i]>>], e)
                          IN  [run EXCEPT !.flow = IF @ = "break" THEN "next" ELSE @]
    [] s[1] \in {"break", "continue"} -> [st EXCEPT !.flow = s[1]]
    [] s[1] = "return" -> [Eval(s[2], st) EXCEPT !.flow = "return"]
=============================================================================
