---------------------------- MODULE MCPreprocess -----------------------------
(***************************************************************************)
(* Preprocess on sources built from the grammar of the C standard: a list  *)
(* of lines and conditionals, a conditional a list of groups, each with a  *)
(* directive and a list of its own, and perhaps an #else.  The standard's  *)
(* meaning is defined on that grammar and not on a stack of lines; a file  *)
(* comes once, as the docstring of _resolve_includes has it.               *)
(***************************************************************************)
EXTENDS Preprocess

LOCAL INSTANCE TLC

CONSTANTS A, B, C, F,        \* names; F is a macro with parameters
          header, ring, ring2   \* files

MCNames == {A, B, C, F}
MCOrder == <<A, B, C, F>>
MCNumbers == {0, 1}

Test(kind, op, w) == [kind |-> kind, name |-> A, arg |-> w, op |-> op]
L(kind, name, arg) == [kind |-> kind, name |-> name, arg |-> arg, op |-> "value"]
Says(n) == L("text", n, 0)
Def(n, w) == L("define", n, w)
DefF == L("define_func", F, 0)
Undefs(n) == L("undef", n, 0)
Include(f) == L("include", A, f)
IfdefOf(n) == L("ifdef", n, 0)
IfndefOf(n) == L("ifndef", n, 0)
IfOf(op, w) == Test("if", op, w)
ElifOf(op, w) == Test("elif", op, w)

\* Grammar: <<"line", l>> or <<"cond", groups, else>>.
One(l) == <<"line", l>>
Cond(d, body) == <<"cond", <<[dir |-> d, body |-> body]>>, <<>>>>
CondElse(d, body, other) == <<"cond", <<[dir |-> d, body |-> body]>>, <<other>>>>
CondElif(d, body, d2, body2, other) ==
  <<"cond", <<[dir |-> d, body |-> body], [dir |-> d2, body |-> body2]>>, <<other>>>>

FileTrees == header :> <<Cond(IfndefOf(A), <<One(Def(B, 1))>>), One(Says(B))>>
             @@ ring :> <<One(Include(ring2))>> @@ ring2 :> <<One(Include(ring))>>

RECURSIVE Lines(_)
Lines(tree) ==
  IF tree = <<>> THEN <<>>
  ELSE LET x == Head(tree)
           group(g) == <<x[2][g].dir>> \o Lines(x[2][g].body)
       IN  (IF x[1] = "line" THEN <<x[2]>>
            ELSE group(1) \o (IF Len(x[2]) = 2 THEN group(2) ELSE <<>>)
                 \o (IF x[3] = <<>> THEN <<>> ELSE <<L("else", A, 0)>> \o Lines(x[3][1]))
                 \o <<L("endif", A, 0)>>)
           \o Lines(Tail(tree))
MCFiles == [f \in {header, ring, ring2} |-> Lines(FileTrees[f])]

\* The standard: a macro is replaced until the word is no macro or one that is
\* being replaced already.
RECURSIVE Meaning(_, _)
Meaning(defs, w) == IF w \in DOMAIN defs
                      THEN Meaning([n \in DOMAIN defs \ {w} |-> defs[n]], defs[w]) ELSE w
True(st, d) ==
  LET known(n) == n \in DOMAIN st.defs \union st.funcs
  IN  CASE d.kind = "ifdef" -> known(d.name)
        [] d.kind = "ifndef" -> ~known(d.name)
        [] d.op = "value" -> Meaning(st.defs, d.arg) \in Numbers \ {0}
        [] d.op = "defined" -> known(d.arg)
        [] d.op = "not_defined" -> ~known(d.arg)

RECURSIVE Kept(_, _)
Kept(st, tree) ==
  LET x == Head(tree)
      item ==
        IF x[1] = "cond"
          THEN LET taken == {g \in DOMAIN x[2] : /\ True(st, x[2][g].dir)
                                                 /\ \A h \in 1..(g - 1) : ~True(st, x[2][h].dir)}
               IN  IF taken # {} THEN Kept(st, x[2][CHOOSE g \in taken : TRUE].body)
                   ELSE IF x[3] # <<>> THEN Kept(st, x[3][1]) ELSE st
          ELSE LET l == x[2] IN
               CASE l.kind = "text" -> [st EXCEPT !.out = Append(@, Meaning(st.defs, l.name))]
                 [] l.kind = "define" -> [st EXCEPT !.defs = (l.name :> l.arg) @@ @]
                 [] l.kind = "define_func" -> [st EXCEPT !.funcs = @ \union {l.name}]
                 [] l.kind = "undef" -> [st EXCEPT !.defs = [n \in DOMAIN @ \ {l.name} |-> @[n]],
                                                   !.funcs = @ \ {l.name}]
                 [] l.kind = "include" ->
                      IF l.arg \in st.files THEN st
                      ELSE Kept([st EXCEPT !.files = @ \union {l.arg}], FileTrees[l.arg])
  IN  IF tree = <<>> THEN st ELSE Kept(item, Tail(tree))
Source(tree) ==
  [lines |-> Lines(tree),
   kept |-> Kept([defs |-> [n \in {} |-> 0], funcs |-> {}, files |-> {}, out |-> <<>>], tree).out]

-----------------------------------------------------------------------------
Macros == {<<>>, <<One(Def(A, 1))>>, <<One(Def(A, B))>>, <<One(Def(A, B)), One(Def(B, 1))>>,
           <<One(Def(B, 0)), One(Def(A, B))>>, <<One(DefF)>>, <<One(Def(A, 0)), One(Undefs(A))>>,
           <<One(Def(B, 1)), One(Def(A, B)), One(Undefs(B))>>}
Directives == {IfdefOf(n) : n \in {A, F}} \union {IfndefOf(B), IfndefOf(A)}
                \union {IfOf("value", w) : w \in {A, B, 0, 1}}
                \union {IfOf(op, C) : op \in {"defined", "not_defined"}}
Bodies == {<<One(Says(A))>>, <<One(Def(A, 0)), One(Says(B))>>, <<One(Undefs(A))>>}
Inner == {CondElse(IfOf("value", w), <<One(Says(1))>>, <<One(Def(B, 1)), One(Says(0))>>) : w \in {0, B}}
           \union {CondElif(IfOf("value", 0), <<>>, ElifOf("value", 0), <<One(Says(1))>>, <<One(Says(A))>>),
                   CondElif(IfOf("value", 1), <<One(Says(A))>>, ElifOf("value", 1), <<One(Says(1))>>,
                            <<One(Says(0))>>)}

PlainTrees ==
  {ms \o <<CondElse(d, body, other), One(Says(A)), One(Says(B))>> :
     ms \in Macros, d \in Directives, body \in Bodies, other \in Bodies}
  \union {ms \o <<CondElse(d, <<x>>, <<y, One(Says(A))>>), One(Says(B))>> :
            ms \in Macros, d \in Directives, x \in Inner, y \in Inner}
IncludeTrees ==
  {ms \o <<One(Include(f)), One(next), Cond(IfdefOf(B), <<One(Says(A))>>)>> :
     ms \in Macros, f \in {header, ring}, next \in {Include(header), Include(ring2), Says(B)}}
\* Chains that are replaced against the order of the names, one name a round:
\* the longest takes all rounds there are, MaxRounds.
Chains == {<<One(Def(C, B)), One(Def(B, A)), One(Def(A, w))>> : w \in {0, 1}}
            \union {<<One(Def(A, 1)), One(Def(C, B)), One(Def(B, x))>> : x \in {A, 0}}
ChainTrees ==
  {ms \o <<One(x), CondElse(IfOf("value", w), <<One(Says(C))>>, <<One(Says(A))>>), One(Says(C))>> :
     ms \in Chains, x \in {Says(C), Undefs(A), Undefs(B), Def(B, 1)}, w \in {B, C}}
PlainSources == {Source(tree) : tree \in PlainTrees \union IncludeTrees \union ChainTrees}

\* #if 0 .. #elif 1 .. #else: the #else group is kept.
ElifTaken == {Source(<<CondElif(IfOf("value", 0), <<One(Says(A))>>, ElifOf("value", 1), <<One(Says(B))>>,
                                <<One(Says(C))>>)>>)}
\* #define A 1, #if defined(A): the macro is replaced before it is looked up.
DefinedMacro == {Source(<<One(Def(A, 1)), Cond(IfOf("defined", A), <<One(Says(B))>>)>>)}
\* A file named first in a group that is left out is not there later.
IncludeLeftOut == {Source(<<Cond(IfOf("value", 0), <<One(Include(header))>>), One(Include(header))>>)}
\* A chain with one name more than there are rounds.
LongChain == {Source(<<One(Def(F, C)), One(Def(C, B)), One(Def(B, A)), One(Def(A, 1)), One(Says(F))>>)}
\* #define A B, #define B A: what is being replaced is replaced again.
MacroCycle == {Source(<<One(Def(A, B)), One(Def(B, A)), One(Says(B))>>)}
=============================================================================
