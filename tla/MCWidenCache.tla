---------------------------- MODULE MCWidenCache ----------------------------
\* WidenCache on the parser's control-flow graphs with up to two instructions
\* on two sources in every block.
EXTENDS WidenCache

CONSTANTS s, t

MCSources == {s, t}
Def(v) == [op |-> "def", src |-> v]
Wide(v) == [op |-> "wide", src |-> v]
Instrs == {Def(s), Wide(s), Def(t), Wide(t)}

UpTo(n, S) == UNION {[1..k -> S] : k \in 0..n}

\* Entry defines both sources and goes on to the blocks of the shape.
Entry(to) == [insts |-> <<Def(s), Def(t)>>, to |-> to]

\* Straight-line code that writes each source once.
Straight ==
  {<<Entry(<<2>>), [insts |-> i, to |-> <<3>>], [insts |-> j, to |-> <<>>]>> :
      i \in UpTo(2, {Wide(s), Wide(t)}), j \in UpTo(2, {Wide(s), Wide(t)})}

\* if_true, if_false and if_merge, each source still written once.
IfElse ==
  {<<Entry(<<2, 3>>), [insts |-> i, to |-> <<4>>], [insts |-> j, to |-> <<4>>],
     [insts |-> <<>>, to |-> <<>>]>> :
      i \in UpTo(1, {Wide(s), Wide(t)}), j \in UpTo(1, {Wide(s), Wide(t)})}

\* while_cond, while_body and while_exit, the body writing its source last.
While ==
  {<<Entry(<<2>>), [insts |-> <<>>, to |-> <<3, 4>>],
     [insts |-> i, to |-> <<2>>], [insts |-> j, to |-> <<>>]>> :
      i \in UpTo(2, Instrs), j \in UpTo(1, {Wide(s), Wide(t)})}

\* do_body, do_cond and do_exit.
Do ==
  {<<Entry(<<2>>), [insts |-> i, to |-> <<3>>], [insts |-> j, to |-> <<2, 4>>],
     [insts |-> j, to |-> <<>>]>> :
      i \in UpTo(2, Instrs), j \in UpTo(1, {Wide(s), Wide(t)})}

\* The kernels of a shape that convert a source before every use of it; dom has
\* the dominators of the shape's blocks.
Converting(shape, dom) == {k \in shape : RunBefore(k, dom) /\ ConvertedFirst(k, dom)}

Dominated ==
  UNION {Converting(Straight, <<{1}, {1, 2}, {1, 2, 3}>>),
         Converting(IfElse, <<{1}, {1, 2}, {1, 3}, {1, 4}>>),
         Converting(While, <<{1}, {1, 2}, {1, 2, 3}, {1, 2, 4}>>),
         Converting(Do, <<{1}, {1, 2}, {1, 2, 3}, {1, 2, 3, 4}>>)}
=============================================================================
