----------------------------- MODULE MCLowering -----------------------------
(***************************************************************************)
(* Lowering for kernels of two parameters x and y: one compound statement  *)
(* out of the families below, after at most one simple statement.          *)
(***************************************************************************)
EXTENDS Lowering

X == <<"var", "x">>
Y == <<"var", "y">>
Z == <<"var", "z">>
A == <<"var", "a">>
Num(k) == <<"const", k>>
Set(v, e) == <<"expr", <<"assign", v, e>>>>
Plus(l, r) == <<"bin", "add", l, r>>
Is(l, r) == <<"bin", "eq", l, r>>
Block(stmts) == <<"block", stmts>>
Inc(v) == <<"expr", <<"postinc", v>>>>
AddTo(v, e) == <<"expr", <<"addto", v, e>>>>
Break == <<"break">>
Continue == <<"continue">>
Ret(e) == <<"return", e>>

MCParams == <<"x", "y">>
MCOrder == <<"x", "y", "z", "a">>

-----------------------------------------------------------------------------
Updates == {Set("x", Plus(X, Num(1))), Set("y", X), Set("x", Y)}
Simple == Updates \union {Set("y", Num(1)), Inc("y"), AddTo("x", Y), <<"store", X>>}

\* Ways out of a loop, after an assignment or at once.
Exits == {Break, Continue, Ret(Num(0))}
Leaving == {<<"if", Y, Block(<<s, e>>), Nop>> : s \in Updates, e \in Exits}
             \union {<<"if", Is(X, Y), e, Nop>> : e \in Exits}
Ifs == {<<"if", c, Block(<<s>>), Block(<<t>>)>> : c \in {X, Is(Y, Num(1))}, s, t \in Updates}
Inner == {<<"while", Y, Block(<<s, t>>)>> : s \in Updates, t \in {Inc("y")} \union Leaving}
           \union {<<"switch", Y, <<<<0, <<s, e>>>>, <<Default, <<t, f>>>>>>>> :
                     s, t \in Updates, e, f \in {Break, Continue}}
Scoped == {Block(<<<<"decl", v, e>>, Set("x", <<"var", v>>), Inc(v)>>) : v \in {"y", "z"}, e \in {X, Num(1)}}

Pairs == {<<s, t>> : s \in Simple, t \in Simple \union Leaving \union Ifs}
           \union {<<t, s>> : s \in Simple, t \in Leaving \union Ifs}
           \union {<<i, Set("x", Y)>> : i \in Inner}
Bodies == {Block(s) : s \in Pairs \union [1..1 -> Scoped]}
Loops == {<<"while", X, b>> : b \in Bodies} \union {<<"do", b, Is(X, Num(1))>> : b \in Bodies}
           \union {<<"for", <<"decl", "z", Num(1)>>, Z, <<Inc("z")>>, b>> : b \in Bodies}
           \union {<<"for", Set("y", X), Y, <<AddTo("y", Num(1)), Set("x", Y)>>, b>> : b \in Bodies}

Branches == {<<"if", c, Block(s), Block(t)>> :
              c \in {X, <<"and", X, Is(Y, Num(1))>>, <<"or", Is(X, Num(0)), <<"assign", "y", X>>>>,
                     <<"and", X, <<"assign", "y", Plus(X, Num(1))>>>>},
              s \in [1..2 -> Updates] \union {<<b>> : b \in Scoped}, t \in {<<>>} \union [1..1 -> Updates]}

CaseBodies == {<<>>, <<<<"if", Y, Block(<<Set("y", X), Break>>), Nop>>, Set("x", Y)>>}
                \union {<<s>> : s \in {Set("x", Y), Set("y", X)}} \union {<<s, Break>> : s \in Updates}
Switches == {<<"switch", X, <<<<0, b>>, <<k, c>>, <<1, d>>>>>> :
               b, c, d \in CaseBodies, k \in {2, Default}}

\* Bodies of a device function of a parameter a.
Functions == {<<Ret(Plus(A, Num(1)))>>,
              <<<<"if", A, Ret(Num(0)), Nop>>, Ret(A)>>,
              <<<<"decl", "x", A>>, <<"while", <<"var", "x">>, Inc("x")>>, Ret(A)>>,
              <<<<"decl", "y", Num(0)>>, <<"while", A, Block(<<Set("y", Num(1)), Break>>)>>,
                Ret(<<"var", "y">>)>>}
Calls == {Set(v, <<"call", "a", f, e>>) : v \in {"x", "y"}, f \in Functions, e \in {X, Plus(Y, Num(1))}}
           \union {Set("y", <<"ternary", X, e, Y>>) : e \in {Num(1), Plus(X, Y)}}

MCStmts == Simple \union Loops \union Switches \union Branches \union Calls
             \union {<<"while", X, Block(<<Inc("x"), s>>)>> : s \in Calls}
MCBefore == {Set("x", Y)}

-----------------------------------------------------------------------------
(* What the runs of departures parse instead.                              *)

\* A device function that changes its parameter in a loop.
CountUp == <<<<"while", A, Block(<<Inc("a")>>)>>, Ret(A)>>
ParamLoop == {Set("y", <<"call", "a", CountUp, e>>) : e \in {X, Num(1), Plus(X, Num(1))}}
ConstantArgument == {Set("y", <<"call", "a", CountUp, Num(1)>>)}

\* A name declared again in the body of a loop that is left by break, and one
\* that is assigned before it is declared again.
ShadowBreak == {<<"while", X, Block(<<<<"decl", "y", Num(2)>>, Break>>)>>}
ShadowLate == {<<"if", X, Block(<<Set("y", Num(2)), <<"decl", "y", Num(0)>>>>), Nop>>}

\* Conditions that assign.
AssigningLoop == {<<"while", <<"assign", "y", X>>, Block(<<Inc("x")>>)>>}
AssigningDo == {<<"do", Block(<<Set("x", Plus(Y, Num(1)))>>), <<"assign", "y", X>>>>}

\* Both arms of ?: have an effect; && and || as values.
EagerArms == {Set("y", <<"ternary", X, <<"postinc", "x">>, Num(0)>>)}
LogicalValue == {Set("y", <<"and", Num(1), X>>)}

AfterReturn == {Ret(Num(0)), <<"store", X>>}
AnyTwo(b) == Len(b) <= 2

MCAllowed(b) == Len(b) = 1 \/ (Len(b) = 2 /\ b[1] \in MCBefore)
=============================================================================
