------------------------------ MODULE Optimize -------------------------------
(***************************************************************************)
(* optimize: the passes of CfgCleanup, ValuePasses and LoopPasses in the   *)
(* order of the code, on one unit, and the if-conversion of ir_to_ptx.     *)
(*                                                                         *)
(* Groups of passes repeat while they change something, at most eight      *)
(* times; here they repeat any number of times.                            *)
(***************************************************************************)
EXTENDS IfConvert

LOCAL INSTANCE SequencesExt

CONSTANTS
  Garbage,    \* bound: what a register may hold before it is written, words
  Units,      \* which of "kernel" and "func" are optimized
  Fuel        \* bound: blocks visited by a run of the unit before optimization

VARIABLES
  unit,    \* "kernel" or "func", a device function
  stage    \* the next pass, a position in PassOrder

passVars == <<vars, unit, stage>>

Pre == <<"unroll", "fold", "dead_block", "dead_inst", "merge">>
Once == <<"fold", "cse", "dead_block", "identity", "fold", "dead_inst", "licm", "fma",
          "cse", "identity", "fold", "dead_inst", "thread", "fold_ret">>
Cleanup == <<"dead_block", "dead_inst", "thread">>
Post == <<"unroll", "fold", "cse", "identity", "fma", "dead_inst", "dead_block", "thread",
          "fold_ret", "merge">>
FuncCleanup == Cleanup \o <<"fold_ret">>

PassOrder == IF unit = "kernel" THEN Pre \o Once \o Cleanup \o Post \o <<"if_convert">>
                                ELSE <<"unroll">> \o Once \o FuncCleanup
End == Len(PassOrder) + 1
Finished == stage = End

\* The stages that may follow when the pass has changed something or not.
NextStages(changed) ==
  LET once == IF unit = "kernel" THEN Len(Pre) ELSE 1
      cleanup == once + Len(Once)
      post == cleanup + Len(Cleanup)
  IN  IF unit = "kernel"
        THEN CASE stage = 1 -> {IF changed THEN 2 ELSE once + 1}
               [] stage = once -> {1, once + 1}
               [] stage = post -> {cleanup + 1, post + 1}
               [] stage = End - 3 -> {End - 2, End - 1}
               [] stage = End - 2 -> {post + 1, End - 1}
               [] OTHER -> {stage + 1}
      ELSE IF stage > cleanup /\ changed THEN {cleanup + 1, End}
      ELSE {stage + 1}

Runs(pass, Pass) ==
  /\ ~Finished
  /\ PassOrder[stage] = pass
  /\ Pass
  /\ stage' \in NextStages(vars' # vars)
  /\ UNCHANGED unit

\* merge_linear_chains merges the first block that can be, until none can.
Chains == SelectSeq(BlockList, LAMBDA b : ENABLED MergeChain(b))
Merge ==
  \/ /\ ~Finished
     /\ PassOrder[stage] = "merge"
     /\ Chains # <<>> /\ MergeChain(Head(Chains))
     /\ UNCHANGED <<unit, stage>>
  \/ Runs("merge", Chains = <<>> /\ UNCHANGED vars)

OptInit == Init /\ unit \in Units /\ stage = 1
OptNext ==
  \/ Runs("unroll", UnrollLoops)
  \/ Runs("fold", ConstantFold)
  \/ Runs("cse", Cse)
  \/ Runs("identity", IdentityFold)
  \/ Runs("dead_inst", DeadInstElim)
  \/ Runs("licm", Licm)
  \/ Runs("fma", FmaFuse)
  \/ Runs("dead_block", DeadBlockElim)
  \/ Runs("thread", ThreadEmptyBlocks)
  \/ Runs("fold_ret", FoldEmptyRetBlocks)
  \/ Runs("if_convert", IfConvertDiamonds)
  \/ Merge
OptSpec == OptInit /\ [][OptNext]_passVars

-----------------------------------------------------------------------------
IsPrefixOf(s, t) == Len(s) <= Len(t) /\ SubSeq(t, 1, Len(s)) = s

\* What each unit does before optimization.
Expected == [k \in Kernels |-> [args \in [Params -> Word] |-> [garbage \in Garbage |->
              Outcome(k.insts, k.term, args, garbage, Fuel)]]]

\* After every pass the unit stores what it stored before optimization, in the
\* same order, and returns the same, whatever its parameters and whatever the
\* registers held.
OutputsKept ==
  \A args \in [Params -> Word], garbage \in Garbage :
    LET before == Expected[source][args][garbage]
        now == Outcome(insts, term, args, garbage, Fuel)
    IN  /\ IsPrefixOf(before.trace, now.trace)
        /\ before.result # <<>> => (now.trace = before.trace /\ now.result = before.result)

\* No block that can run branches to one that unrolling, if-conversion or
\* cleaning up has removed, and the unit still starts at its first block.  A
\* block that cannot run may: unroll_loops leaves what follows a continue.
BranchesLand ==
  LET run == ReachClosure([b \in blocks |-> Targets(term[b]) \intersect blocks], {Entry})
  IN  /\ Entry \in blocks
      /\ \A b \in run : Targets(term[b]) \subseteq blocks \ {Entry}
=============================================================================
