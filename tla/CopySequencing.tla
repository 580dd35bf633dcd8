--------------------------- MODULE CopySequencing ---------------------------
(***************************************************************************)
(* Pass 3 of _loop_writeback (frontend/parser.py): the copies that put the *)
(* new values of variables back into their canonical registers are emitted *)
(* one after the other, a copy only when no other pending copy is known to *)
(* read the register it writes.  When the pending copies form a cycle the  *)
(* first one is emitted all the same.                                      *)
(*                                                                         *)
(* A job is the pending variables, the register each copy reads once       *)
(* identity_fold has removed the intermediate copies, and the register     *)
(* that _root takes it to read.  The code takes the first safe copy in the *)
(* order of the variables; any safe copy may be taken here.  Every round   *)
(* emits a copy, so the bound on their number (line 339) is not modelled.  *)
(***************************************************************************)
CONSTANTS Vars, Others, Assignments

ASSUME JobAssumption ==
  \A job \in Assignments :
    /\ job.pending \subseteq Vars
    /\ job.reads \in [Vars -> Vars \union Others]
    /\ job.root \in [Vars -> Vars \union Others]

VARIABLES
  job,        \* the writeback being emitted
  remaining,  \* variables whose copy is still to be emitted
  regs,       \* register -> content, after the copies emitted so far
  forced      \* whether a copy was emitted out of a cycle

copyVars == <<job, remaining, regs, forced>>

Registers == Vars \union Others

\* Contents are named by the register that held them at first.
Init ==
  /\ job \in Assignments
  /\ remaining = job.pending
  /\ regs = [x \in Registers |-> x]
  /\ forced = FALSE

\* Variants: the copies v reads are looked at; a copy blocks itself.
SafeReversed(v) == \A u \in remaining \ {v} : job.root[v] # u
SafeFromAll(v) == \A u \in remaining : job.root[u] # v

Safe(v) == \A u \in remaining \ {v} : job.root[u] # v

\* Variant: what remains is read off the variables, not off the job.
EmitOfAll(v) ==
  /\ regs' = [regs EXCEPT ![v] = regs[job.reads[v]]]
  /\ remaining' = Vars \ {v}
  /\ UNCHANGED job

Emit(v) ==
  /\ regs' = [regs EXCEPT ![v] = regs[job.reads[v]]]
  /\ remaining' = remaining \ {v}
  /\ UNCHANGED job

EmitSafe(v) == Safe(v) /\ Emit(v) /\ UNCHANGED forced

\* Variant: only a copy of a register to itself breaks a cycle.
EmitFromCycleOfSelf(v) ==
  /\ \A u \in remaining : ~Safe(u)
  /\ job.root[v] = v
  /\ Emit(v)
  /\ forced' = TRUE

EmitFromCycle(v) ==
  /\ \A u \in remaining : ~Safe(u)
  /\ Emit(v)
  /\ forced' = TRUE

Next == \E v \in remaining : EmitSafe(v) \/ EmitFromCycle(v)

Spec == Init /\ [][Next]_copyVars

\* The loop goes on for as long as there is a copy it can take.
FairSpec == Spec /\ WF_copyVars(Next)

-----------------------------------------------------------------------------
\* The tracing of _root finds the register that is read.
TracedRight(j) == \A v \in j.pending : j.root[v] = j.reads[v]

\* The copies can be ordered: among any of them one writes a register that no
\* other one reads.
Orderable(j) ==
  \A S \in SUBSET j.pending :
    S # {} => \E v \in S : \A u \in S \ {v} : j.root[u] # v

\* Copies are taken from the job and contents are those of registers.
TypeOK ==
  /\ job \in Assignments
  /\ remaining \subseteq job.pending
  /\ regs \in [Registers -> Registers]
  /\ forced \in BOOLEAN

\* A pending copy still finds what it reads, and a copy that was made got what
\* its source held at first, unless _root was wrong or the cycle fallback was
\* used: no copy "overwrites a source register that a later copy still needs
\* to read" (parser.py:271-275).
SourcesIntact ==
  (TracedRight(job) /\ ~forced) =>
    /\ \A v \in remaining : regs[job.reads[v]] = job.reads[v]
    /\ \A v \in job.pending \ remaining : regs[v] = job.reads[v]

\* The cycle fallback is used only for jobs no order of copies would do for.
ForcedOnlyInCycles == forced => ~Orderable(job)

\* The loop "while remaining" emits every copy (parser.py:341-361): there is
\* always one to take, whatever reads what and whatever _root makes of it.
EveryCopyEmitted == <>(remaining = {})

\* The abstract writeback: all copies happen when the last one is emitted.
Parallel ==
  INSTANCE ParallelCopy WITH
    copied <- remaining = {} /\ job.pending # {},
    Promised <- {j \in Assignments : TracedRight(j) /\ Orderable(j)},
    regs <- IF remaining = {} THEN regs ELSE [x \in Registers |-> x]

\* One by one, the copies do what they would do all at once; for jobs that can
\* be ordered and that _root has traced right.
SequenceIsParallel == Parallel!Spec
=============================================================================
