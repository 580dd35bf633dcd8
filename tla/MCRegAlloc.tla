----------------------------- MODULE MCRegAlloc -----------------------------
(***************************************************************************)
(* RegAlloc on the control-flow graphs the parser builds, in its block     *)
(* order, with the writes and reads of two values placed in every way; and *)
(* its scan alone on every set of up to four live ranges.                  *)
(***************************************************************************)
EXTENDS RegAlloc

CONSTANTS va, vb    \* two values
CONSTANTS
  Shapes,   \* the control-flow graphs of the run
  Leads,    \* leading instructions of a block that mention neither value
  MaxPoint  \* last flat instruction index of the ranges a scan is started on

MCPrefixes == {"r", "f"}
MCNoReuse == {"r"}

RangesOver(ps, last) ==
  {x \in [prefix : ps, start : 0..last, end : 0..last] : x.start <= x.end}

\* Three values spread over both classes, and four in one class with reuse.
ScanRanges == [1..3 -> RangesOver(MCPrefixes, MaxPoint)]
                \union [1..4 -> RangesOver({"f"}, MaxPoint)]

\* Each graph is the list of target lists, in the order of kernel.blocks.
\* if_true, if_false, if_merge.
IfElse == << <<2, 3>>, <<4>>, <<4>>, <<>> >>
\* while_cond, while_body, while_exit.
While == << <<2>>, <<3, 4>>, <<2>>, <<>> >>
\* do_body, do_cond, do_exit.
DoWhile == << <<2>>, <<3>>, <<2, 4>>, <<>> >>
\* A while inside a while: the exit block of the outer loop comes before the
\* blocks of the inner one.
NestedWhile == << <<2>>, <<3, 4>>, <<5>>, <<>>, <<6, 7>>, <<5>>, <<2>> >>
\* A while whose body holds an if with a break.
WhileBreak == << <<2>>, <<3, 4>>, <<5, 6>>, <<>>, <<4>>, <<2>> >>
\* A call of a device function with two returns: the merge block of the call
\* comes before the blocks of the inlined body.
InlineTwoReturns == << <<3, 4>>, <<>>, <<2>>, <<2>> >>
\* A call inlined inside an inlined call (hypot2 calling sq_f in
\* tests/probe_sp.cu): entry, merge of the outer call, merges of the two
\* inner calls, merge of a later call.
InlineInInline == << <<3>>, <<5>>, <<4>>, <<2>>, <<>> >>

StructuredShapes == {IfElse, While, DoWhile, WhileBreak, NestedWhile}
InlinedShapes == {InlineTwoReturns}
NestedInlinedShapes == {InlineInInline}

\* The instructions of a kernel: values va and vb are written and read once, and
\* va may be written once more (a loop writeback), its first write then being
\* in the entry block.
Event == [write_a |-> [def |-> {va}, use |-> {}],
          rewrite_a |-> [def |-> {va}, use |-> {}],
          read_a |-> [def |-> {}, use |-> {va}],
          write_b |-> [def |-> {vb}, use |-> {}],
          read_b |-> [def |-> {}, use |-> {vb}]]
NoInst == [def |-> {}, use |-> {}]

\* Every block has instructions that may hold an event (one of them in the
\* largest graph, three with an inlined call, else two) and a terminator, with
\* or without a leading instruction on other values; the events are put on
\* different instructions of the kernel in every way, up to the names of values
\* written once.  What an inlined call returns is written in both its returns.
PerBlock(shape) ==
  IF shape = NestedWhile THEN 1 ELSE IF shape = InlineTwoReturns THEN 3 ELSE 2
Absent == 0
Placements(shape) ==
  LET n == PerBlock(shape) * Len(shape)
      firstIn(b) == PerBlock(shape) * (b - 1) + 1
      returned == shape = InlineTwoReturns
      once == {p \in [write_a : IF returned THEN {firstIn(3)} ELSE 1..n,
                      rewrite_a : {Absent}, read_a : 1..n,
                      write_b : 1..n, read_b : 1..n] :
                 Cardinality({p.write_a, p.read_a, p.write_b, p.read_b}) = 4}
      again(p) == IF returned THEN {firstIn(4)}
                  ELSE IF p.write_a <= PerBlock(shape) THEN 1..n ELSE {}
  IN  UNION {(IF p.write_a < p.write_b THEN {p} ELSE {}) \union
               {[p EXCEPT !.rewrite_a = x] :
                  x \in again(p) \ {p.write_a, p.read_a, p.write_b, p.read_b}} : p \in once}

Filled(shape, place, lead) ==
  LET per == PerBlock(shape)
      size == per + 1 + lead
      slot(i) == size * ((i - 1) \div per) + lead + ((i - 1) % per) + 1
  IN  [flat |-> [i \in 1..(size * Len(shape)) |->
                   IF \E x \in DOMAIN Event : place[x] # Absent /\ slot(place[x]) = i
                     THEN Event[CHOOSE x \in DOMAIN Event :
                                  place[x] # Absent /\ slot(place[x]) = i]
                     ELSE NoInst],
       blocks |-> [i \in 1..Len(shape) |->
                     [first |-> size * (i - 1), last |-> size * i - 1, to |-> shape[i]]],
       decls |-> {},
       class |-> [v \in {va, vb} |-> "f"]]

\* One kernel of every graph, for the assumption on Kernels: it does not depend
\* on where the values are.  The run starts from all of them.
MCKernels == {Filled(s, CHOOSE p \in Placements(s) : TRUE, lead) : s \in Shapes, lead \in Leads}
KernelInit ==
  /\ \E s \in Shapes, lead \in Leads : \E p \in Placements(s) : kernel = Filled(s, p, lead)
  /\ AllocStart
ScanAlone ==
  /\ ranges \in ScanRanges
  /\ kernel = [flat |-> <<>>, blocks |-> <<>>, decls |-> {},
               class |-> [v \in DOMAIN ranges |-> ranges[v].prefix]]
  /\ pos = 0
  /\ edge = 1
  /\ live_start = <<>>
  /\ live_end = <<>>
  /\ ScanInit
MCInit == KernelInit \/ ScanAlone
MCNext == AllocNext /\ (pos = 0 => FromParser)
MCSpec == MCInit /\ [][MCNext]_allocVars

\* Kernels with an inlined call need not have their blocks in order.
ReturnSpec == KernelInit /\ [][AllocNext /\ (pos = 0 => ReadsAreDefined)]_allocVars
=============================================================================
