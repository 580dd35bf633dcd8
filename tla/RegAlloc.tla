------------------------------ MODULE RegAlloc ------------------------------
(***************************************************************************)
(* _build_alloc_map from the flattened kernel to the register map: the     *)
(* live range of every value is read off the flat instruction order,       *)
(* stretched along the edges that go backwards in that order, and handed   *)
(* to the scan of LinearScan.                                              *)
(*                                                                         *)
(* An instruction is what the allocator sees of it: the values it defines  *)
(* and the values it reads.  A terminator is one more flat instruction,    *)
(* and a block is its first and last flat index and its branch targets.    *)
(***************************************************************************)
EXTENDS LinearScan, Sequences

CONSTANT Kernels   \* kernels to allocate

VARIABLES
  kernel,     \* flat : Seq of [def, use], flat[i + 1] is the instruction at i;
              \* blocks : Seq of [first, last, to], to the target blocks;
              \* decls : values of _local_decls and _shared_decls;
              \* class : value -> register prefix
  pos,        \* flat instructions walked
  edge,       \* next back edge of the second walk
  live_start, live_end

allocVars == <<kernel, pos, edge, live_start, live_end, vars>>

-----------------------------------------------------------------------------
FlatLen == Len(kernel.flat)
InstAt(i) == kernel.flat[i + 1]
Points == 0..(FlatLen - 1)
Mentioned(i) == InstAt(i).def \union InstAt(i).use
Values == kernel.decls \union UNION {Mentioned(i) : i \in Points}

\* A kernel as _build_alloc_map flattens it: the blocks are consecutive and
\* not empty (each ends in its terminator), branches go to blocks, and
\* _ptx_reg_prefix knows the class of every value.
KernelOK(k) ==
  LET n == Len(k.flat)
      blocks == k.blocks
      last == Len(blocks)
  IN  /\ n \in Nat \ {0}
      /\ last \in Nat \ {0}
      /\ \A b \in 1..last :
           /\ blocks[b].first \in 0..(n - 1) /\ blocks[b].last \in 0..(n - 1)
           /\ blocks[b].first <= blocks[b].last
           /\ Len(blocks[b].to) \in Nat
           /\ \A i \in 1..Len(blocks[b].to) : blocks[b].to[i] \in 1..last
      /\ blocks[1].first = 0
      /\ blocks[last].last = n - 1
      /\ \A b \in 2..last : blocks[b].first = blocks[b - 1].last + 1
      /\ \A v \in k.decls \union UNION {k.flat[i].def \union k.flat[i].use : i \in 1..n} :
           k.class[v] \in Prefixes

ASSUME RegAllocAssumption ==
  /\ Prefixes # {}
  /\ \A k \in Kernels : KernelOK(k)

\* The k-th branch of block b, as <<header start, header end, end of b>>.
Edge(b, k) ==
  LET target == kernel.blocks[kernel.blocks[b].to[k]]
  IN  <<target.first, target.last, kernel.blocks[b].last>>
GoesBack(b, k) == Edge(b, k)[1] <= kernel.blocks[b].first

\* The branches of block b to a block that starts no later.
EdgesOf(b) ==
  LET from[k \in 0..Len(kernel.blocks[b].to)] ==
        IF k = 0 THEN <<>>
        ELSE IF GoesBack(b, k) THEN Append(from[k - 1], Edge(b, k)) ELSE from[k - 1]
  IN  from[Len(kernel.blocks[b].to)]

\* All of them, in block-list order.
BackEdges ==
  LET upTo[b \in 0..Len(kernel.blocks)] ==
        IF b = 0 THEN <<>> ELSE upTo[b - 1] \o EdgesOf(b)
  IN  upTo[Len(kernel.blocks)]

\* The range map before it is known.
NoRange == [v \in {} |-> Unassigned]

-----------------------------------------------------------------------------
\* The walk over a kernel starts with the declared pointers at index 0.
AllocStart ==
  /\ pos = 0
  /\ edge = 1
  /\ live_start = [v \in kernel.decls |-> 0]
  /\ live_end = [v \in kernel.decls |-> 0]
  /\ ranges = NoRange
  /\ buckets = {}
  /\ bucket = CHOOSE p \in Prefixes : TRUE
  /\ todo = {}
  /\ active = {}
  /\ free_list = {}
  /\ next_reg = 0
  /\ alloc = NoRange
  /\ alloc_max = [p \in Prefixes |-> 0]

AllocInit == kernel \in Kernels /\ AllocStart

\* The walk with _note_def and _note_use: indices only grow, so the first
\* mention of a value fixes live_start and the last one is live_end.
NoteInsts ==
  LET mentions(v) == {i \in Points : v \in Mentioned(i)}
  IN  /\ pos = 0
      /\ live_start' = [v \in Values |->
                          IF v \in DOMAIN live_start THEN live_start[v]
                          ELSE CHOOSE i \in mentions(v) : \A j \in mentions(v) : i <= j]
      /\ live_end' = [v \in Values |->
                        IF mentions(v) = {} THEN live_end[v]
                        ELSE CHOOSE i \in mentions(v) : \A j \in mentions(v) : j <= i]
      /\ pos' = FlatLen
      /\ UNCHANGED <<kernel, edge, vars>>

\* Variant: a last read in the first instruction of the header is not in the
\* loop.
StretchesPastHeader(e, ls, le) ==
  /\ e[1] < le /\ le <= e[3]
  /\ ls <= e[1] \/ (ls <= e[2] /\ le > e[2])

\* Does the back edge e keep a range with these ends alive to its source?
Stretches(e, ls, le) ==
  /\ e[1] <= le /\ le <= e[3]
  /\ \/ ls <= e[1]                 \* defined before the loop header
     \/ ls <= e[2] /\ le > e[2]    \* read in the header, defined in the body

ExtendAlongEdge ==
  /\ pos = FlatLen
  /\ edge <= Len(BackEdges)
  /\ live_end' = [v \in DOMAIN live_end |->
                    IF Stretches(BackEdges[edge], live_start[v], live_end[v])
                      THEN BackEdges[edge][3] ELSE live_end[v]]
  /\ edge' = edge + 1
  /\ UNCHANGED <<kernel, pos, live_start, vars>>

\* Group the ranges by prefix; the scan starts from here.
GroupRanges ==
  /\ pos = FlatLen
  /\ edge > Len(BackEdges)
  /\ ranges = NoRange
  /\ ranges' = [v \in DOMAIN live_start |->
                  [prefix |-> kernel.class[v], start |-> live_start[v], end |-> live_end[v]]]
  /\ buckets' = {kernel.class[v] : v \in DOMAIN live_start}
  /\ alloc' = [v \in DOMAIN live_start |-> Unassigned]
  /\ UNCHANGED <<kernel, pos, edge, live_start, live_end,
                 bucket, todo, active, free_list, next_reg, alloc_max>>

Scan == /\ ranges # NoRange
        /\ ScanNext
        /\ UNCHANGED <<kernel, pos, edge, live_start, live_end>>

AllocNext == NoteInsts \/ ExtendAlongEdge \/ GroupRanges \/ Scan
AllocSpec == AllocInit /\ [][AllocNext]_allocVars

Allocated == ranges # NoRange /\ ScanDone

-----------------------------------------------------------------------------
(***************************************************************************)
(* What the register map is for, stated on the paths of the kernel and not *)
(* on the flat order: no instruction writes over a value another one will  *)
(* still read.                                                             *)
(***************************************************************************)
Successors(i) ==
  IF \E b \in 1..Len(kernel.blocks) : kernel.blocks[b].last = i
    THEN LET b == CHOOSE x \in 1..Len(kernel.blocks) : kernel.blocks[x].last = i
         IN  {kernel.blocks[kernel.blocks[b].to[k]].first : k \in 1..Len(kernel.blocks[b].to)}
    ELSE {i + 1}

\* The points that read a value, and those that lead to one of the points of S
\* without writing it.
Reads(v) == {i \in Points : v \in InstAt(i).use}
Back(v, S) == {i \in Points : v \notin InstAt(i).def /\ Successors(i) \cap S # {}}

\* The points a value is read from on some path with no write before.
LiveIn(v) ==
  LET grown[n \in 0..FlatLen] ==
        IF n = 0 THEN Reads(v)
                 ELSE LET prev == grown[n - 1] IN prev \union Back(v, prev)
  IN  grown[FlatLen]

\* The points that can run after the value has been written.
Written(v) ==
  LET next == [i \in Points |-> Successors(i)]
      after(S) == UNION {next[i] : i \in S}
      grown[n \in 0..FlatLen] ==
        IF n = 0 THEN after({i \in Points : v \in InstAt(i).def})
                 ELSE LET prev == grown[n - 1] IN prev \union after(prev)
  IN  IF v \in kernel.decls THEN Points ELSE grown[FlatLen]

\* Two values of one class interfere when an instruction writes one of them
\* while the other has been written and is still to be read.
Interfere(d, v) ==
  \E i \in Points \cap Written(v) : /\ d \in InstAt(i).def
                                     /\ Successors(i) \cap LiveIn(v) # {}

\* No write destroys a value that is still to be read: the purpose of live
\* intervals and of their back-edge extension (emit.py:237-240).
NoClobber ==
  Allocated => \A d, v \in Vals :
                 (/\ d # v
                  /\ kernel.class[d] = kernel.class[v]
                  /\ alloc[d] = alloc[v]) => ~Interfere(d, v)

-----------------------------------------------------------------------------
(***************************************************************************)
(* What the extension along backward branches needs of a kernel.  Both     *)
(* hold of what the parser builds for ifs and loops; the merge block of an *)
(* inlined call with a return inside an if comes before the blocks that    *)
(* branch to it, and there NoClobber fails.                                *)
(***************************************************************************)
\* Every block but the first is entered from a block earlier in the list.
BlocksInOrder ==
  \A b \in 2..Len(kernel.blocks) : \E c \in 1..(b - 1) :
    \E k \in 1..Len(kernel.blocks[c].to) : kernel.blocks[c].to[k] = b

\* No path from the entry reads a value before it is written.
ReadsAreDefined == \A v \in Values \ kernel.decls : 0 \notin LiveIn(v)

FromParser == BlocksInOrder /\ ReadsAreDefined
ParserSpec == AllocInit /\ FromParser /\ [][AllocNext]_allocVars
=============================================================================
