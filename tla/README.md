# Verification of OpenCUDA

OpenCUDA compiles a subset of CUDA C to PTX (`src/opencuda`).  This directory
holds TLA+ models of the parts of the compiler whose correctness depends on the
order of things: which register a value is in, which block runs after which,
which copy is emitted first.  TLC checks the models on small instances, TLAPS
proves the theorems listed below for all instances.

## 1. The system

| Part | Source | State it keeps | Operations |
|---|---|---|---|
| preprocessor | `frontend/preprocess.py` | defines, stack of open conditions | directives, macro expansion |
| lexer | `frontend/lexer.py` | position | tokens |
| parser, expressions and declarations | `frontend/parser.py` | tokens, `_variables`, current block | recursive descent, emits IR |
| parser, statements | `frontend/parser.py:2287-3679` | block list, stacks of break and continue targets and snapshots | if, loops, switch, goto, inlined calls |
| parser, writeback | `frontend/parser.py:175-364, 2882-2897` | `_variables`, `_copy_chain_global` | assignment, `_loop_writeback`, copies of a `for` increment |
| IR | `ir/nodes.py`, `ir/types.py` | blocks, instructions, terminators | `new_value` |
| optimizer, graph passes | `ir/optimize.py` | the block list | constant branches, `dead_block_elim`, `merge_linear_chains`, `thread_empty_blocks`, `fold_empty_ret_blocks` |
| optimizer, value passes | `ir/optimize.py` | instructions, replacement maps | `constant_fold`, `cse`, `identity_fold`, `dead_inst_elim` |
| optimizer, loops | `ir/optimize.py`, `ir/unroll.py` | loops found | `licm`, `unroll_loops`, `fma_fuse` |
| dominators, verifier | `ir/dominator.py`, `ir/verify_ir.py` | dominator sets | used by tests and by `debug_verify` |
| if conversion | `optimizer/if_convert.py` | blocks | diamonds to selects |
| register allocator | `codegen/emit.py:115-342` | live ranges, active set, free list | `_build_alloc_map` |
| emitter | `codegen/emit.py` | allocation, temporaries, widen cache, lines | one handler per instruction, peepholes |
| driver | `__main__.py` | none | preprocess, parse, optimize, emit, write |
| runtime | `runtime/windows_d3dkmt.c` | driver handles | adapter, context, memory |

The parts run one after the other on one thread.  They share the IR: the parser
builds it, every pass rewrites it in place, the emitter reads it and adds values
of its own.  There is no concurrency inside the compiler; the hard behaviour is

* **order against execution.**  The allocator and the widen cache work along the
  list of blocks, the program runs along branches.  What is next to each other
  in the list need not follow in time.
* **values written more than once.**  The IR is called SSA, but a variable has
  one canonical register that every branch and loop body *writes back*.  A pass
  that replaces one read by another must know that both hold the same value at
  that moment, and a fact about a value must be dropped when it is written.
* **copies that read each other.**  Writing several variables back is a parallel
  assignment done one copy after the other.
* **passes that prepare work for each other** and repeat: a replacement that is
  right alone may be wrong after blocks have been merged.
* **state that outlives a unit**: one emitter prints many functions.

What makes the parts correct: a register is not overwritten while its value is
still to be read; the register named in a line is declared and initialised;
every pass keeps what the kernel stores and returns; branches lead to blocks
that exist; a writeback puts into every variable what the source program put
into it.

## 2. Modules

| Module | Models | Status |
|---|---|---|
| `LinearScan` | the scan over live ranges, bucket by bucket | checked through `RegAlloc`, proved (`RegAllocProofs`) |
| `RegAlloc` | extends `LinearScan`: live ranges of a kernel, back edges, and what the register map means along the paths of the kernel | checked, proved (`RegAllocProofs`) |
| `EmitRegs` | extends `LinearScan`: one emitter over several units, temporaries and scratch predicates | checked, proved (`RegAllocProofs`) |
| `WidenCache` | the cache of 64-bit conversions, and the run of the code it leaves | checked, proved (`WidenCacheProofs`) |
| `InPlaceAdds` | the peephole that renames 64-bit registers, their count after it and the lines put in front | checked, proved (`InPlaceAddsProofs`) |
| `Dominators` | `compute_dominators`, `immediate_dominator`, `build_dom_tree` | checked through `CfgCleanup`, proved (`DominatorsProofs`) |
| `CfgCleanup` | extends `Dominators`: the graph passes, in any order | checked, proved (`CfgCleanupProofs`) |
| `ValuePasses` | extends `CfgCleanup`: the passes that rewrite values, constant arithmetic included, and what a unit computes | checked through `Optimize` |
| `LoopPasses` | extends `ValuePasses`: `unroll_loops`, `licm`, `fma_fuse` | checked through `Optimize` |
| `IfConvert` | extends `LoopPasses`: `if_convert_diamonds` | checked through `Optimize` |
| `Optimize` | extends `IfConvert`: all passes on one unit, in the order of `optimize` and `ir_to_ptx` | checked |
| `ParallelCopy` | abstract: all variables change at once | |
| `CopySequencing` | the ordering of copies in `_loop_writeback`; implements `ParallelCopy` | checked and proved (`WritebackProofs`) |
| `Writeback` | extends `CopySequencing`: assignments, `_root`, the copies of a body and of a `for` increment | checked, the first body proved (`WritebackProofs`) |
| `SourceProgram` | reference: what a kernel of the C subset means | |
| `Verifier` | extends `Dominators`: the checks of `verify_kernel` | checked through `Lowering` |
| `Lowering` | extends `SourceProgram` and `Verifier`: statements and expressions to blocks | checked |
| `Preprocess` | includes, conditionals and macros | checked, types and `Enclosed` proved (`PreprocessProofs`) |

`Induction` holds the lemmas on sets closed under successor, on recursive
functions and on fixpoints that several proofs use.

An `MC...` module gives the constants of a module their values for TLC, and its
`.cfg` files name what is checked.  `PROJECT.json` maps every definition to the
lines it models.  A definition under a comment that begins *Variant* is a
deliberately broken form of the one below it; with it in place TLC finds the
property violated, which shows that the property depends on that line.

### How state and actions correspond to the code

* **LinearScan.**  The variables are the local variables of the loop at
  `emit.py:311-340`.  `StartBucket` enters a register class, `Assign` is one
  round of the inner loop.  The code pops the first free register and sorts
  stably; the model takes any free register and any order of equal starts, so
  it has the code's behaviours and more.
* **RegAlloc.**  `NoteInsts` is the whole walk at 174-235, `ExtendAlongEdge`
  one round of the loop at 273, `GroupRanges` the grouping at 290-299.  A kernel
  is what the allocator sees of it: per instruction the values written and read.
* **EmitRegs.**  `StartUnit` and `StartBody` are the beginnings of
  `emit_device_function` and `emit_kernel`; `RegTemp` and `AllocPred` are the two
  ways to get a new register name while a body is printed (a scanned value has
  its name already); `FinishUnit` ends the unit.  `base` is `_alloc_max`, which
  only kernels set.
* **WidenCache.**  `EmitBlock` prints a block, `NextKernel` resets the cache.
  `RunLine` and `RunBranch` run the printed code; they are the PTX machine, not
  code of the repository.
* **InPlaceAdds.**  The five actions are the five parts of `emit.py:890-948`.
  A program is a body, a path through it and a number of local or shared arrays.
  The scan gives the arrays the registers from 0 (`Bases`), because their ranges
  begin with the kernel (`emit.py:153-172`); `FrontLine` is the line that loads
  one (`emit.py:1078-1103`), and `Count` the number of registers declared, which
  is read off the body before these lines are put in front (`emit.py:1052`).
* **CfgCleanup, ValuePasses, LoopPasses, IfConvert.**  One action per pass; the
  loops over blocks and instructions inside it are folds.  An instruction is an
  operation, a destination and two or three operands.  The type of an operation
  is that of its destination, which is in `Unsigned` or signed; `mul` is of
  floats, `imul` of integers, and sums of floats are not told from those of
  integers, except where a pass tells them apart.  A constant is the Python
  integer in `Const.value`, with its sign.  `Folded` is Python's arithmetic on
  it (`_fold_bin`), `>>` of a negative number included, and `Masked` what
  `_mask_int` makes of the result.  A register holds a word, and `Computed` is
  what the machine computes from words; the two need not agree, and where they
  do not a fold is wrong (section 4).
  `Outcome` is the machine: what a unit stores, in order, and returns.
  `new_value` takes the first value of `Fresh` that nothing in the unit
  mentions.  `if_convert_diamonds` does not call it: the selection and the
  product are the values with the numbers 100 and 101 above the largest the
  block defines (`Id`, `LargestId`, `Numbered`; `if_convert.py:166-177`),
  whoever has them.  An unrolled loop writes its variables back in the order in
  which the body and the increment copy them first (`CarriedOrder`), which is
  the order of the dict the code walks (`unroll.py:352`).
* **Optimize.**  `stage` is the position in `optimize`.  `NextStages` says which
  groups of passes repeat; the code repeats a group at most eight times, the
  model any number of times, so it has the code's behaviours and more.
  `merge_linear_chains` is one step per merged pair.
* **CopySequencing.**  `EmitSafe` takes a copy no pending copy is known to read,
  `EmitFromCycle` is the fallback.  A job keeps the register a copy really reads
  after `identity_fold` (`reads`) apart from the one `_root` computes (`root`).
* **Writeback.**  `AssignCopy` and `AssignNew` are assignments of a variable and
  of a new value, `StartWriteback` collects the pending copies, `Rebind` adds
  the effect a copy has on `_variables` and on the chain.
* **Lowering.**  The parser is one pass over its tokens, so each of its methods
  is an operator from the state of the parser to the next one, and the action
  parses one statement of the kernel's body.  `p` holds `_variables`, the block
  list, `_cur_block`, the copy chain, the stacks of break and continue targets
  with their snapshots, and the target of an inlined return.
* **Dominators, Verifier.**  Functions from a graph and from a list of blocks:
  the code keeps no state between calls.  `compute_dominators` is applied to
  every graph the passes of `CfgCleanup` leave, with the blocks in the order of
  the list (`BlockList`), and `verify_kernel` to every kernel `Lowering` makes.
  `EnoughRounds` bounds the rounds of the refinement; that the last of them
  changes nothing is part of what is proved.
* **Preprocess.**  `Resolve` is one step of `_resolve_includes`; after it each
  line is read by one action per directive, and a line of the program by `Text`
  or `Skip`.  An entry of `cond_stack` says whether the group is taken and
  whether a group of the conditional has been.

## 3. Runs

| Run | Checks | Instance |
|---|---|---|
| `reg_alloc` | types, `NoClash`, `IdentityKept`, `CountCovers`, `OptimalCount`, `NoClobber` | two values written and read at every place of if, while, do-while, break and a loop in a loop; and the scan alone on all maps of 3 ranges in 2 classes and of 4 in one class over 4 points |
| `emit_regs` | `TempsApart` | two kernels, two ranges, a temporary of each class, a scratch predicate |
| `widen_cache` | types, `WideCurrent`, `OneConversion` | straight-line, if, while and do-while kernels of two values in which the first 64-bit read of a value dominates the others and nothing writes it afterwards, two kernels in a row |
| `in_place_adds` | `AddressesKept`, `Declared` | element-wise bodies over three pointers, 0 to 3 of them arrays, all numberings of their registers |
| `cfg_cleanup` | types, `CfgWellFormed`, `RunsKept`, `DominatorsExact` | all graphs of four blocks, runs of three instructions |
| `optimize` | `OutputsKept`, `BranchesLand` | about 1320 units, each as a kernel and as a device function: an if, a while, a for, counted loops of every comparison, a loop in a loop, a `continue`, diamonds of stores, one of them with an empty merge block that is not the only way on, and each binary operation, signed and unsigned, with each constant on either side, known at once or found out by another pass; every argument and two contents of the registers |
| `copy_sequencing` | types, `SourcesIntact`, `ForcedOnlyInCycles`, `EveryCopyEmitted`, `SequenceIsParallel` | every job of three variables and one other register |
| `writeback` | `WrittenBackUnlessCyclic`, `IncrementWrittenBack` | up to four assignments among three variables, first values that are constants |
| `lowering` | `OutcomeKept`, `VerifierAccepts` | kernels of two parameters: each kind of loop, branch, switch, call and scope, two statements deep, all inputs |
| `preprocess` | types, `Enclosed`, `LinesKept` | sources of the grammar of conditionals, two deep, with eight sets of macros, chains of macros that need every round, and three files, two of which include each other |
| `optimize_accumulator` | `OutputsKept` fails | a counted loop that adds to a variable |
| `reg_alloc_inlined` | `NoClobber` fails | an inlined call that returns from both arms of an if |

**What they show.**  `OutputsKept` and `OutcomeKept` are the two halves of
correct compilation: the blocks the parser makes do what the statements say, and
each pass keeps what the blocks do.  `VerifierAccepts` says that what the parser
makes passes the compiler's own verifier, `DominatorsExact` that the dominators
are those of the definition by paths and make one tree.  `LinesKept` compares the stack
machine of the preprocessor with a reading of the source as a tree.  `NoClobber`
and `TempsApart` say that a value is in its register when it is read;
`WideCurrent` says it of cached conversions, `AddressesKept` of renamed
addresses, `WrittenBackUnlessCyclic` of variables at the end of a loop body.
`Declared` says that the registers of arrays, which are named again after the
registers of the body were renamed and counted, are still among those counted.

**Bounds.**

* `RegAlloc`: ranges over four points (`MaxPoint` 3) already nest, touch, tie
  and chain, the cases the comparisons of the scan distinguish.  Two values are
  enough for a clobber, a relation of two; each block has two places for them,
  so that a mention can be the first or the last of its block.
* `EmitRegs`: `MaxUnits` is two because what goes wrong between units does so
  between neighbours.
* `CfgCleanup`: four blocks hold a diamond, a loop, an empty cycle and an
  unreachable block.
* `InPlaceAdds`: three pointers and an offset are the least the peephole takes
  (`rd_max > 3`); destinations are any of five registers, so that they reuse
  dead pointers, leave gaps for the compaction, or neither.
* `Optimize`: `Modulus` 8 is the smallest arithmetic with a sign and a power of
  two other than 1 that a signed constant can be, so every rewriting applies.
  `MaxBound` 3 and `MaxUnroll` 2 stand for 64 and 16: loops have trip counts
  below, at and above both.  `Garbage` 0 and 5 are two contents of the registers
  nothing has written; a unit that reads one gives two results.  `Fuel` 60
  is more blocks than a unit that ends visits.  `Consts`, the constants a unit
  or a fold may have, are twice the range of a word to either side of 0.
  `IdGap` 100 is the code's; the values of a unit are numbered below it, but for
  those that stand for the values so numbered.
* `Writeback`: three variables hold a chain, a cycle and a cycle with a copy
  outside it; four assignments build each of them with one to spare.
* `Lowering`: `Width` 3 has a value besides false and true, and loops counting
  up end by wrapping around.  `Fuel` (turns of loops) and `IrFuel` (blocks) let
  every program that ends in three turns or fewer of each loop end.  A kernel is
  a compound statement with two statements in each body, one of them simple,
  after at most one assignment.
* `Preprocess`: four names hold a chain of macros, a cycle needs two files.
  `MaxRounds` 3 stands for the eight rounds of the code: a chain of three names
  defined against the order in which they are replaced takes all of them.

**What the passing runs exclude.**  The properties do not hold for everything
the compiler accepts; section 4 lists where they fail.  A passing run leaves out
just those programs: device functions (`emit_regs`), kernels with a 64-bit read
that the conversion of its value does not dominate, or of a value written again
(`widen_cache`), bodies that run an addition twice, that need a pointer again
after its addition, or that do not use an array they declare (`in_place_adds`),
inlined calls whose merge block comes before the blocks that branch to it
(`reg_alloc`), first values that are not constants (`writeback`: a parameter or
another variable, whose copy enters the chain at `parser.py:2714`), and the
families of units, statements and sources that section 4 names
(`optimize`, `lowering`, `preprocess`).  Cyclic copies and unordered increments
are not left out: `WrittenBackUnlessCyclic` and `IncrementWrittenBack` say what
holds without them.  `writeback` also stops after one body (`MaxBodies`): after
it, registers are in the chain as they are when a first value is copied.

**Fairness and deadlock.**  The compiler is one thread that runs until it has
finished, so weak fairness of its next step is what its scheduling gives.  Only
`EveryCopyEmitted` needs it (`FairSpec`).  Every model ends, so deadlock is not
checked.  That the groups of passes of `optimize` stop by themselves is not a
property of the code: `constant_fold` counts a copy of a constant as a change
each time, and the limit of eight rounds is what stops them.

## 4. Where the code departs from what it says

`optimize_accumulator` and `reg_alloc_inlined` are runs of `PROJECT.json`.  Each
other row is a counterexample TLC finds when the configuration is changed as
the second column says; the run that passes leaves it out.  Those of the
optimizer, the parser and the emitter are programs the compiler accepts.

| Run | Change | The code does | The repository says |
|---|---|---|---|
| `emit_regs` | `Kinds = {"kernel", "func"}` | numbers temporaries of device functions from 0 (`emit.py:530`) | `emit.py:378-379` |
| `widen_cache` | `Kernels <- IfElse`, `While` | reuses a conversion that was not executed, or is old (`emit.py:1336`) | `language_spec.md:417` |
| `in_place_adds` | `Programs <- InLoop` | accumulates offsets in a pointer register (`emit.py:922`) | `emit.py:880-881` |
| | `PointerReused` | adds a second offset to a pointer register that holds the first address (`emit.py:922`) | `emit.py:880-881` |
| | `UnusedArrays` | loads an array into a register that is not declared, or into the one its base had before the compaction (`emit.py:1083`) | `test_invariants.py:5` |
| `reg_alloc_inlined` | `Shapes <- NestedInlinedShapes` | reuses the register of a value returned by a call inlined in an inlined call (`emit.py:276`) | `emit.py:237-238` |
| `writeback` | invariant `WrittenBack` | overwrites a source before it is copied (`parser.py:358`), does not sequence the copies of an increment (`parser.py:2896`) | `parser.py:271-275`, `parser.py:265` |
| | `Inits = {param}` | traces a read of a register to the value it was first copied from, here a parameter (`parser.py:2714`, `parser.py:331`) | `parser.py:274-275` |
| `optimize` | `Kernels <- ForStep` | merges expressions over a write of their operand (`optimize.py:507`) | `ARCHITECTURE.md:107-109` |
| | `SavedCopy` | makes a saved copy an alias (`optimize.py:719`) | `optimize.py:686-689` |
| | `DoOnce` | keeps a constant for a value written again (`optimize.py:170`) | `optimize.py:118` |
| | `ReturnCopy` | removes the definition of a returned value (`optimize.py:770`) | `optimize.py:684` |
| | `UnknownStart`, `StepOfUnknown` | unrolls a loop whose first values it does not know from 0, or drops an increment (`unroll.py:169`, `unroll.py:258`) | |
| | `IndexAfterLoop` | leaves the first value in the loop variable after the loop (`unroll.py:351-358`) | |
| | `BoundWrittenAgain` | takes the first constant written to the bound (`unroll.py:38-45`) | |
| | `SwapOnce` | copies the variables of the last iteration one after the other (`unroll.py:351-358`) | |
| | `FusedLate` | moves a product over a write of its operand (`optimize.py:1384`) | |
| | `OtherTarget`, `OtherSource`, `ExtraStore`, `OtherTest` | matches the arms of a diamond by shape (`if_convert.py:130-153`) | |
| | `LateNegative` | divides a negative constant that it finds a round later as if its sign were all ones: -7/2 is -4, -7%1 is 1 (`optimize.py:103`, `optimize.py:228-236`) | `optimize.py:87-88` |
| | `MixedSigns` | folds an unsigned division of a negative constant as a signed one (`optimize.py:89`) | |
| | `NumberTaken` | gives a selection the number of another value, which it overwrites (`if_convert.py:166`) | |
| | `DiamondThenForever`, for `BranchesLand` | removes the block an empty infinite loop branches to (`if_convert.py:217`) | |
| `lowering` | `Stmts <- ParamLoop`, `ConstantArgument` | writes a parameter of an inlined call back to the argument (`parser.py:1888`) | |
| | `ShadowBreak`, `ShadowLate` | takes a name declared again in a scope for the outer one when it writes back | |
| | `AssigningLoop`, `AssigningDo` | does not write back what a loop condition assigns | |
| | `EagerArms` | evaluates both arms of `?:` | |
| | `LogicalValue` | gives `1 && x` the value of `x` | |
| | `AfterReturn`, with `Allowed <- AnyTwo` | goes on in a block that has returned | |
| `preprocess` | `Sources <- ElifTaken` | never keeps the group of an `#elif`, and keeps the `#else` after it (`preprocess.py:253`) | `preprocess.py:9`, `tests/probe_wl.cu:15-16` |
| | `Sources <- DefinedMacro` | replaces the name in `defined(NAME)` first | |
| | `IncludeLeftOut` | counts a file named in a group that is left out as included (`preprocess.py:162`) | |
| | `LongChain` | stops after the last round: a chain of nine macros against the order is left with a macro (`preprocess.py:358`) | |
| | `MacroCycle` | replaces a macro inside its own replacement (`preprocess.py:358`) | |

`reg_alloc_inlined` is a program, too.  With

    __device__ float pick(float v) { if (v > 0.0f) return v; return -v; }

a kernel that says `float a = pick(x); out[2] = y; float t = y * y; out[0] = t;
out[1] = a;` is printed with `out[1]` stored from the register `t` was computed
in: the merge block of the call comes before its return blocks in the list, so
the range of `a` begins where the merge block reads it, behind `t`.

So are `LateNegative`, `MixedSigns` and `UnusedArrays`: `int x = -7; if (n < 2)
out[1] = n; out[0] = x / 2;` stores -4; `x / 2u` with `x = -7` stores 4294967293; a kernel
with four local arrays it does not use and one that it indexes with two offsets
loads the address of the last into the register it had before the compaction.

Seen while reading, not modelled: `language_spec.md:420` says that CSE never
crosses a block boundary, `ARCHITECTURE.md:93-101` and the code say it does;
`language_spec.md:414` gives 16 as the limit of unrolling, `unroll.py:123` 64.
`__syncthreads()` at the head of a diamond stops the compiler with an
AttributeError (`if_convert.py:167` asks every instruction for its destination).
`emit_device_function` has no lines that load the addresses of local arrays,
which `emit_kernel` puts in front of the body (`emit.py:1078-1088`): a device
function that is not inlined and has an array reads registers nothing wrote.

## 5. Proofs

| Theorem | States |
|---|---|
| `RegAllocProofs!TypeCorrect`, `NoClashAlways`, `IdentityKeptAlways`, `CountCoversAlways`, `OptimalCountAlways` | the properties of the scan, for any ranges, classes and reuse rule |
| `RegAllocProofs!AllocTypeCorrect`, `AllocNoClash`, `AllocIdentityKept`, `AllocCountCovers`, `AllocOptimalCount` | the same of the scan as `_build_alloc_map` runs it, for any kernel |
| `RegAllocProofs!NoClobberAlways` | `NoClobber` for any kernel in which every block but the first is entered from one before it in the list and no path reads a value before it is written (`ParserSpec`) |
| `RegAllocProofs!TempsApartAlways` | `TempsApart` when `Kinds` has kernels only, for any number of units |
| `WidenCacheProofs!TypeCorrect`, `OneConversionAlways` | the cache is emptied and filled as it should be: one conversion of a value in a kernel, for any kernels |
| `WidenCacheProofs!WideCurrentAlways` | `WideCurrent` for any kernel whose conversions dominate what uses them (`ConversionDominates`) |
| `CfgCleanupProofs!TypeCorrect`, `CfgWellFormedAlways` | no pass loses the entry or leaves a branch to a deleted block, for any graph |
| `CfgCleanupProofs!RunsKeptAlways` | no pass changes a run: what it executes and how it ends, for any graph, bodies and branch outcomes |
| `DominatorsProofs!ComputeDominatorsRight` | for any graph the refinement stops, at the blocks on every path from the entry, and every block reached but the entry has one immediate dominator (`DominatorsRight`, `TreeRight`) |
| `CfgCleanupProofs!DominatorsExactAlways` | so `DominatorsExact` holds of whatever graph the passes leave |
| `InPlaceAddsProofs!AddressesKeptWhenDead` | `AddressesKept` for any body and path on which the overwritten registers are dead (`PointersDead`), in a kernel that reads every array's register before it names it otherwise (`ArraysRead`) |
| `InPlaceAddsProofs!DeclaredWhenRead` | `Declared` for any body of such a kernel, and any number of arrays |
| `WritebackProofs!TypeCorrect`, `SourcesIntactAlways`, `ForcedOnlyInCyclesAlways` | the properties of the ordering of copies, for any variables |
| `WritebackProofs!SequenceRefines` | `Spec => SequenceIsParallel`: one parallel assignment, for the jobs that can be ordered and are traced right |
| `WritebackProofs!FirstBodyWrittenBack`, `FirstIncrementWrittenBack` | `WrittenBackUnlessCyclic` and `IncrementWrittenBack` for the first body after declarations that copy no parameter, for any variables and any assignments |
| `PreprocessProofs!TypeCorrect`, `EnclosedAlways` | the walk is well typed and keeps nothing inside a group that is left out, for any source, nesting and files |
| `PreprocessProofs!ElifNeverTakenAlways` | after an `#elif` its group is left out, whatever its test (`preprocess.py:253`) |

Assumptions: the named `ASSUME`s of the modules (what the constants are), which
TLC evaluates in the runs, and where the table says so a restriction of the
kernel or of the constants.  The restrictions leave out what section 4 shows to
go wrong: the kernel of `reg_alloc_inlined` has a block that is entered from
later ones only, `widen_cache` fails on `IfElse` and `While`, where the
conversion does not dominate, `in_place_adds` on `InLoop`, where a path comes to
an addition twice, on `PointerReused`, where a pointer is not dead, and on
`UnusedArrays`, where one is not read, and `writeback` with a first value copied from a parameter.
That no path reads a value before it is written is a promise of the CUDA
program.

**LinearScan.**  `NoClash` is not inductive: it speaks of assigned values, and a
step compares the new value with the free list and the active set.  `IInv` adds
that a value is assigned exactly when the scan has passed it, that active values
have different registers below `next_reg`, that free registers are below
`next_reg`, distinct from active ones, that a passed value that is no longer
active ended before every value still to come, and that starts only grow.  In a
class without reuse the free list stays empty and every register is new.
`OptimalCount` needs the other half (`CInv`): a new register is taken only when
the free list is empty, so all registers below `next_reg` are held by active
values, which with the new one meet at its start (`Peak`).

**RegAlloc.**  `AInv` says what the walk has found (`Walked`: every mention of a
value lies in its range), what the second walk has done (`Followed`: a range
that reaches the header of a followed edge reaches its end), and that the scan
runs on those ranges.  From it, after the last edge, every point where a value
is live is inside its range (`LiveToEnd`, `LiveFromStart`): going back from a
read along the paths of the kernel never leaves the range, a branch forwards
because points only fall, a branch backwards because its edge was followed.
The lower end is where the order of the blocks is needed: a point that is live
but before every mention would be live at the entry.  Then a write of another
value while this one is live makes the ranges overlap, and `NoClash` keeps their
registers apart.

**EmitRegs.**  On top of the invariant of the scan: `base` is the count of the
scan from the moment a body starts, and the indices given out form the interval
from `base` to `base + fallback_count`, without repetition.  `CountCovers` puts
the scanned values below the interval.  For device functions `base` is another
unit's, and the proof of `TempsApart` stops there.

**WidenCache.**  `CacheInv` says what the cache has (the values read by the
blocks printed) and what the printed blocks look like (`Emitted`: in each, a
value is converted once, before its first read, if no earlier block reads it).
That a block comes out like this is an induction over its instructions, from the
recursive definition of `Lines`.  `RunInv` says of a run that a value whose
conversion has been passed is current.  `dom` in it is any assignment of blocks
to blocks that every branch respects, so dominators need not be defined: a block
in `dom[block]` has been run.

**CfgCleanup.**  Well-formedness with the types is inductive.  The hard step is
`thread_empty_blocks`: a transparent block that is deleted must not be a target,
which follows from the set of referenced labels, and a forwarded target must be
a block, which follows from the closure that defines `Chain`.  `RunsKept` is
proved pass by pass as a simulation: where a block of the rewritten kernel takes
a run, the kernel before the pass comes to as well, in one block (constant
branches, deleted blocks), two (a merged or folded pair) or as many as the chain
of empty blocks has.  A run is cut at `MaxTrace`
instructions.  What it has done after `LongEnough` blocks is what it ever does:
by the pigeonhole principle it has ended by then, or it has come twice to the
same block with the same trace, so that it goes round without executing
anything; the passes keep such empty cycles.

**Dominators.**  Two inductions meet.  `RoundSound`: a turn of the loop never
takes a block out of a set that lies on every path (`ExactKept`), and sets only
shrink; so within `EnoughRounds` there is a round that changes nothing
(`Induction!FixpointReached`).  `FixpointBelow`: at a fixpoint nothing else is
left, because a search that avoids `a` and comes to `b` has come to a
predecessor of `b` first, and `a` is in the set of none of them.  For the tree,
dominators of a block are ordered by inclusion of the searches that avoid them
(`AvoidNested`), so the strict dominator with the most dominators is the
immediate one.  `BlocksDominated` applies this to the blocks left in
`BlockList`.

**InPlaceAdds.**  A rewritten body is compared with the one before it by a
simulation along the path (`SimulatedAddresses`): registers still to be read are
renamed, and hold the same.  The compaction is such a renaming whatever the
body.  A rewritten addition is one if nothing below it on the path names the
pointer it overwrites, or, when the path skips it, the destination it renames.
`PointersDead` says this of the printed body, up to the next addition that moves
another pointer into that register; `StillDead`, that it stays true of the
additions above while lines below are renamed, is what has to be added to make
`SameAddresses` inductive, and `Untouched`, that the additions still to come are
as they were collected.  `ElementwiseDead` in `MCInPlaceAdds` has TLC evaluate
`PointersDead` on the bodies of the run: all that the peephole matches have it.
For the arrays, `BasesRead` says that the first line to name the register of an
array still reads it.  The rewriting keeps it: an addition overwrites the
register of an array at that line or below it, and renames only what is below
itself.  The
compaction renames the highest register, which is an array's only if all numbers
below it are arrays' and in use, so that there is no gap left.  At the end every
register of an array is in the body, and so below the count (`CountPast`).
`ElementwiseRead` has TLC evaluate `ArraysRead` on all bodies of the run.

**CopySequencing.**  `Untouched` (registers not written yet hold what they held)
makes `SourcesIntact` inductive.  `SequenceRefines` maps `regs` to the state
before the assignment until the last copy, and to the state after it then; the
last copy is the step of `ParallelCopy` and every other one a stutter.

**Writeback.**  `WInv` relates the parser to the program.  While statements are
parsed (`Assigned`), there is an end for every value and a rank that falls along
each copy, and what a variable holds is the end of its current value; so `_root`,
which stops at a value it has met, and `identity_fold`, which stops at a
variable, both arrive there (`RootFound`, `FoldedFound`), by induction on the
steps of their walks and because ranks cannot fall forever.  The job of the
writeback is therefore traced right.  While copies are emitted (`Copying`), the
invariant of `CopySequencing` carries it to the registers.  When a first value
is a copy of a parameter, and in a second body, a variable's register is itself
in the chain: `_root` goes on through it and the folding stops there, and so
does the proof.

**Preprocess.**  `Enclosed` compares neighbours on the stack, and an `#elif`
asks about the whole of it.  `IInv` is `TypeOK`, `Enclosed` and `TakenSeen`: an
entry that is taken is marked as having had a taken group, so that `#else`
takes a group only where none was and the stack below is taken.

**Only model-checked:**

* `EveryCopyEmitted` is liveness under fairness, which the prover cannot do.
* `OutputsKept` and `BranchesLand` (`Optimize`), `OutcomeKept` and
  `VerifierAccepts` (`Lowering`) are about modules that evaluate units and
  programs with recursive operators, over the families of inputs for which they
  hold; outside these families section 4 has counterexamples, and a theorem
  would have to describe the families first.  `BranchesLand` is not inductive:
  unrolling and the if-conversion remove blocks without asking who else
  branches to them, which is right only for the shapes the parser builds.
* `LinesKept` (`Preprocess`) compares with the tree a source was made from, a
  constant next to it.

The prover has no induction scheme over data.  Where a recursive *function* is
proved about (`BackEdges`, `LiveIn`, `AfterBlocks`, `Root`, `Lines`), its values
are first characterised step by step (`Induction!RecursionExists`), and the set
of steps for which a fact holds is shown to contain 0 and to be closed under
successor (`Induction!UpTo`).

## 6. Not modelled

* **Opcode selection and the peepholes over text** (`emit.py`, other than the
  two modelled): one instruction at a time, without state besides the registers
  and the cache.  The labels skipped at `emit.py:526` belong to them.
* **goto and labels**; coercions, pointers, arrays and structs in the parser:
  sequential translation of data the models abstract.  The checks of types in
  `verify_kernel` go with them.
* **Other widths**: `Optimize` has one width of integers.  The bias of a signed
  division of a type other than 32 bits wide (`optimize.py:225`) and the folding
  of conversions are left out; addresses are cells, without computation.
* **Macros with parameters**, operators in `#if` and joined lines.
* **Lexer and driver**: a function of text, and straight-line calls.
* **Runtime**: calls of the Windows kernel driver with captured messages; what
  they do is not in the repository, so a model would check its own assumptions.
* **Benchmark tool**: it only reports.

What could still be proved: the properties of `Writeback` after the first body,
from an invariant on values that copy a variable's register; `LinesKept`, with
the tree of a source as a function of its lines instead of a constant next to
them; that the passes of `Optimize` keep types and well-formedness.
