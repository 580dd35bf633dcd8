----------------------------- MODULE WidenCache -----------------------------
(***************************************************************************)
(* The widen cache of PTXEmitter: a 32-bit operand of a 64-bit instruction *)
(* is converted once per kernel, and every later instruction in the order  *)
(* of emission reads the register of that conversion.  A kernel is emitted *)
(* into code block by block; the code is then run along its branches,      *)
(* whose outcomes are left open.                                           *)
(*                                                                         *)
(* An instruction is [op |-> "def", src |-> s], which writes the 32-bit    *)
(* value s, or [op |-> "wide", src |-> s], which reads s as 64 bits.  Every*)
(* source has a wide register of its own (EmitRegs).                       *)
(***************************************************************************)
EXTENDS Naturals, Sequences, FiniteSets

CONSTANTS
  Sources,    \* ids of 32-bit values
  Kernels,    \* sequences of blocks [insts : Seq of instructions, to : targets]
  MaxUnits    \* bound: kernels emitted by one emitter

Instructions == [op : {"def", "wide"}, src : Sources]

\* Kernels have a block to start with and branch to blocks of theirs.
ASSUME WidenCacheAssumption ==
  /\ MaxUnits \in Nat \ {0}
  /\ \A k \in Kernels :
       /\ k \in Seq([insts : Seq(Instructions), to : Seq(Nat)]) /\ k # <<>>
       /\ \A b \in DOMAIN k : \A e \in DOMAIN k[b].to : k[b].to[e] \in DOMAIN k

VARIABLES
  kernel,   \* the kernel being emitted or run
  units,    \* kernels emitted so far
  block,    \* next block to emit; the running block once all are emitted
  inst,     \* next instruction of it
  cache,    \* _widen_cache: sources with an entry
  code,     \* block -> lines emitted for it
  current   \* at run time: sources whose wide register holds their value

vars == <<kernel, units, block, inst, cache, code, current>>

NumBlocks == Len(kernel)
Emitting == block <= NumBlocks /\ Len(code) < NumBlocks
Running == Len(code) = NumBlocks

Init ==
  /\ kernel \in Kernels
  /\ units = 1
  /\ block = 1
  /\ inst = 1
  /\ cache = {}
  /\ code = <<>>
  /\ current = {}

-----------------------------------------------------------------------------
\* The lines of one block and the cache after it: a wide read converts its
\* source unless the source is in the cache.
Cvt(s) == [op |-> "cvt", src |-> s]

\* Variant: the cache is not filled.
LinesUncached(insts, known) ==
  LET step[i \in 0..Len(insts)] ==
        IF i = 0 THEN <<>>
        ELSE LET x == insts[i]
             IN  IF x.op = "wide" THEN step[i - 1] \o <<Cvt(x.src), x>>
                                  ELSE Append(step[i - 1], x)
  IN  [lines |-> step[Len(insts)], known |-> known]

Lines(insts, known) ==
  LET step[i \in 0..Len(insts)] ==
        IF i = 0 THEN [lines |-> <<>>, known |-> known]
        ELSE LET prev == step[i - 1]
                 x == insts[i]
             IN  IF x.op = "wide" /\ x.src \notin prev.known
                   THEN [lines |-> prev.lines \o <<Cvt(x.src), x>>,
                         known |-> prev.known \union {x.src}]
                   ELSE [prev EXCEPT !.lines = Append(@, x)]
  IN  step[Len(insts)]

\* Variant: one block too many is asked for.
EmitBlockPastEnd ==
  LET out == Lines(kernel[block].insts, cache) IN
  /\ Emitting
  /\ code' = Append(code, out.lines)
  /\ cache' = out.known
  /\ block' = block + 1
  /\ UNCHANGED <<kernel, units, inst, current>>

EmitBlock ==
  LET out == Lines(kernel[block].insts, cache) IN
  /\ Emitting
  /\ code' = Append(code, out.lines)
  /\ cache' = out.known
  /\ block' = IF block = NumBlocks THEN 1 ELSE block + 1
  /\ UNCHANGED <<kernel, units, inst, current>>

\* Variant: the entries of the last kernel are kept.
NextKernelSameCache ==
  /\ Running
  /\ units < MaxUnits
  /\ kernel' \in Kernels
  /\ units' = units + 1
  /\ block' = 1
  /\ inst' = 1
  /\ code' = <<>>
  /\ current' = {}
  /\ UNCHANGED cache

\* emit_kernel starts the next kernel, whose ids start over, with no entries.
NextKernel ==
  /\ Running
  /\ units < MaxUnits
  /\ kernel' \in Kernels
  /\ units' = units + 1
  /\ block' = 1
  /\ inst' = 1
  /\ cache' = {}
  /\ code' = <<>>
  /\ current' = {}

\* One line of the code at run time.
Line == code[block][inst]

RunLine ==
  /\ Running
  /\ inst <= Len(code[block])
  /\ inst' = inst + 1
  /\ current' = CASE Line.op = "def" -> current \ {Line.src}
                  [] Line.op = "cvt" -> current \union {Line.src}
                  [] Line.op = "wide" -> current
  /\ UNCHANGED <<kernel, units, block, cache, code>>

RunBranch ==
  /\ Running
  /\ inst > Len(code[block])
  /\ \E k \in DOMAIN kernel[block].to : block' = kernel[block].to[k]
  /\ inst' = 1
  /\ UNCHANGED <<kernel, units, cache, code, current>>

Next == EmitBlock \/ NextKernel \/ RunLine \/ RunBranch
Spec == Init /\ [][Next]_vars

-----------------------------------------------------------------------------
TypeOK ==
  /\ units \in 1..MaxUnits
  /\ block \in 1..NumBlocks
  /\ cache \subseteq Sources
  /\ current \subseteq Sources
  /\ Len(code) <= NumBlocks

\* A wide read gets the value its source has at that moment, whatever path
\* led there: the conversion was run, and after the last write of the source.
WideCurrent ==
  (Running /\ inst <= Len(code[block]) /\ Line.op = "wide") => Line.src \in current

\* At most one conversion of a source is emitted in a kernel (the "emitted once
\* and reused" of language_spec.md:417).
OneConversion ==
  \A b, c \in DOMAIN code : \A i \in DOMAIN code[b], j \in DOMAIN code[c] :
    (code[b][i].op = "cvt" /\ code[b][i] = code[c][j]) => b = c /\ i = j

-----------------------------------------------------------------------------
\* The kernels the cache is right for.  The blocks that read v as 64 bits, and
\* the first of them in the order of emission, which converts it.
Readers(k, v) ==
  {b \in DOMAIN k : \E i \in DOMAIN k[b].insts : k[b].insts[i] = [op |-> "wide", src |-> v]}

Converter(k, v) == CHOOSE b \in Readers(k, v) : \A c \in Readers(k, v) : b <= c

\* dom gives for every block some blocks that are run before it on every path.
RunBefore(k, dom) ==
  /\ dom \in [DOMAIN k -> SUBSET DOMAIN k]
  /\ dom[1] \subseteq {1}
  /\ \A b \in DOMAIN k : \A e \in DOMAIN k[b].to :
       dom[k[b].to[e]] \subseteq dom[b] \union {k[b].to[e]}

\* Whatever reads v as 64 bits is run after the block that converts v, and v is
\* not written from its first such read on.
ConvertedFirst(k, dom) ==
  \A v \in Sources : Readers(k, v) # {} =>
    /\ \A b \in Readers(k, v) : Converter(k, v) \in dom[b]
    /\ \A b \in DOMAIN k : Converter(k, v) \in dom[b] =>
         \A i \in DOMAIN k[b].insts : k[b].insts[i] = [op |-> "def", src |-> v] =>
           /\ b = Converter(k, v)
           /\ \A j \in 1..(i - 1) : k[b].insts[j] # [op |-> "wide", src |-> v]

ConversionDominates(k) == \E dom : RunBefore(k, dom) /\ ConvertedFirst(k, dom)
=============================================================================
