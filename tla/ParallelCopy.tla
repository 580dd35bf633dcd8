---------------------------- MODULE ParallelCopy ----------------------------
(***************************************************************************)
(* What a writeback promises: the variables that changed get their new     *)
(* values all at once, each computed from the old ones.  For assignments   *)
(* outside Promised it says only that there is one writeback.              *)
(***************************************************************************)
CONSTANTS
  Vars,         \* variables, named by their canonical registers
  Others,       \* registers no copy writes
  Assignments,  \* [pending, reads, root] a writeback may be asked for
  Promised      \* those among them the promise is made for

VARIABLES job, regs, copied

Init ==
  /\ job \in Assignments
  /\ regs = [x \in Vars \union Others |-> x]
  /\ copied = FALSE

Copy ==
  /\ ~copied
  /\ copied' = TRUE
  /\ job \in Promised =>
       regs' = [x \in Vars \union Others |->
                  IF x \in job.pending THEN regs[job.reads[x]] ELSE regs[x]]
  /\ UNCHANGED job

Spec == Init /\ [][Copy]_<<job, regs, copied>>
=============================================================================
