------------------------------ MODULE Writeback ------------------------------
(***************************************************************************)
(* Assignments in the parser (frontend/parser.py).  A variable has one     *)
(* canonical register and a current value.  An assignment in the branch of *)
(* an if or the body of a loop makes a new value, and when the body ends   *)
(* _loop_writeback emits copies of the current values to the canonical     *)
(* registers, in the order CopySequencing models; the increment of a for   *)
(* loop emits its copies in the order of declaration.                      *)
(*                                                                         *)
(* _emit keeps every copy of a value in chain (_copy_chain_global), and    *)
(* _root follows it.  The registers are those left after identity_fold:    *)
(* a copy made by an assignment is read at the register it copies.         *)
(***************************************************************************)
EXTENDS CopySequencing, Naturals, Sequences, FiniteSets

CONSTANTS
  None,       \* not the copy of a value
  Inits,      \* values a declaration may copy: parameters, None for a constant
  Bodies,     \* which of "body" and "for_inc" there are
  DeclOrder,  \* the variables in the order of their declarations
  MaxBodies   \* bound: bodies parsed one after the other

Temps == Others

\* Every variable has one place among the declarations.
ASSUME WritebackAssumption ==
  /\ IsFiniteSet(Vars) /\ IsFiniteSet(Temps) /\ Vars \intersect Temps = {}
  /\ None \notin Registers
  /\ Inits \subseteq Temps
  /\ Bodies \subseteq {"body", "for_inc"}
  /\ DeclOrder \in Seq(Vars)
  /\ \A n, m \in DOMAIN DeclOrder : DeclOrder[n] = DeclOrder[m] => n = m
  /\ \A v \in Vars : \E n \in DOMAIN DeclOrder : DeclOrder[n] = v

VARIABLES
  phase,      \* "stmts", or the kind of body whose copies are emitted
  bodies,     \* bodies finished
  fresh,      \* values not made yet
  chain,      \* _copy_chain_global: the value a value copies, or None
  binding,    \* _variables
  content     \* what the variable holds in the source program

wbVars == <<copyVars, phase, bodies, fresh, chain, binding, content>>

-----------------------------------------------------------------------------
NoJob == [pending |-> {}, reads |-> [v \in Vars |-> v], root |-> [v \in Vars |-> v]]

\* The variables are declared.  A register and its first content have the
\* same name.
WbInit ==
  /\ phase = "stmts"
  /\ bodies = 0
  /\ fresh = Temps \ Inits
  /\ chain \in {f \in [Registers -> Inits \union {None}] : \A t \in Temps : f[t] = None}
  /\ binding = [v \in Vars |-> v]
  /\ content = [v \in Vars |-> v]
  /\ job = NoJob
  /\ remaining = {}
  /\ regs = [x \in Registers |-> x]
  /\ forced = FALSE

\* new_value: the next value never made.
NewValue == CHOOSE t \in fresh : TRUE

\* v = u; makes a value that copies the value of u; v = v; makes nothing.
AssignCopy(v, u) ==
  /\ phase = "stmts"
  /\ u # v
  /\ fresh # {}
  /\ fresh' = fresh \ {NewValue}
  /\ chain' = [chain EXCEPT ![NewValue] = binding[u]]
  /\ binding' = [binding EXCEPT ![v] = NewValue]
  /\ content' = [content EXCEPT ![v] = content[u]]
  /\ UNCHANGED <<copyVars, phase, bodies>>

\* v = ..; makes a value that copies nothing.
AssignNew(v) ==
  /\ phase = "stmts"
  /\ fresh # {}
  /\ fresh' = fresh \ {NewValue}
  /\ binding' = [binding EXCEPT ![v] = NewValue]
  /\ content' = [content EXCEPT ![v] = NewValue]
  /\ UNCHANGED <<copyVars, phase, bodies, chain>>

\* Variant: intermediate copies are not traced through.
RootUntraced(x) == x

\* _root: follow the copies until one copies nothing or is met again, which is
\* the case after as many copies as there are registers.
Root(x) ==
  LET walk[n \in 0..Cardinality(Registers)] ==
        IF n = 0 THEN [at |-> x, seen |-> {}]
        ELSE LET prev == walk[n - 1]
             IN  IF prev.at \in prev.seen \/ chain[prev.at] = None THEN prev
                 ELSE [at |-> chain[prev.at], seen |-> prev.seen \union {prev.at}]
  IN  walk[Cardinality(Registers)].at

\* The register read after identity_fold: canonical registers are written in
\* more than one place, so copies of them are where the folding stops.
Folded(x) ==
  LET walk[n \in 0..Cardinality(Registers)] ==
        IF n = 0 THEN x
        ELSE LET prev == walk[n - 1]
             IN  IF prev \in Vars \/ chain[prev] = None THEN prev ELSE chain[prev]
  IN  walk[Cardinality(Registers)]

\* The end of a body: the copies of _loop_writeback, or of the increment.
StartWriteback(kind) ==
  /\ phase = "stmts"
  /\ bodies < MaxBodies
  /\ phase' = kind
  /\ remaining' = {v \in Vars : binding[v] # v}
  /\ job' = [pending |-> remaining',
             reads |-> [v \in Vars |-> Folded(binding[v])],
             root |-> [v \in Vars |-> Root(binding[v])]]
  /\ UNCHANGED <<regs, forced, bodies, fresh, chain, binding, content>>

\* A copy is emitted: the variable is bound to its canonical value again.
Rebind(v) ==
  /\ chain' = [chain EXCEPT ![v] = binding[v]]
  /\ binding' = [binding EXCEPT ![v] = v]
  /\ UNCHANGED <<phase, bodies, fresh, content>>

CopyBack(v) == phase = "body" /\ (EmitSafe(v) \/ EmitFromCycle(v)) /\ Rebind(v)

\* The place of a variable's declaration.
Declared(v) == CHOOSE n \in DOMAIN DeclOrder : DeclOrder[n] = v

\* Variant: the copies are emitted in the opposite order.
IsFirstFromLast(v) == \A u \in remaining : Declared(u) <= Declared(v)

IsFirst(v) == \A u \in remaining : Declared(v) <= Declared(u)

CopyBackInOrder(v) ==
  /\ phase = "for_inc"
  /\ IsFirst(v)
  /\ Emit(v)
  /\ UNCHANGED forced
  /\ Rebind(v)

FinishBody ==
  /\ phase # "stmts"
  /\ remaining = {}
  /\ phase' = "stmts"
  /\ bodies' = bodies + 1
  /\ UNCHANGED <<copyVars, fresh, chain, binding, content>>

WbNext ==
  \/ \E v, u \in Vars : AssignCopy(v, u)
  \/ \E v \in Vars : AssignNew(v)
  \/ \E kind \in Bodies : StartWriteback(kind)
  \/ \E v \in remaining : CopyBack(v) \/ CopyBackInOrder(v)
  \/ FinishBody

WbSpec == WbInit /\ [][WbNext]_wbVars

-----------------------------------------------------------------------------
\* When a body has been written back, every variable has in its register what
\* the source program put into it, and is bound to that register.
Written == phase # "stmts" /\ remaining = {}
AllBack == \A v \in Vars : regs[v] = content[v] /\ binding[v] = v

WrittenBack == Written => AllBack

\* The same where _loop_writeback did not fall back on a copy of a cycle, which
\* the comment at parser.py:356-357 says would need a temporary.
WrittenBackUnlessCyclic == (phase = "body" /\ Written /\ ~forced) => AllBack

\* The increment of a for loop, whose copies are not sequenced, is right when no
\* variable takes its value from one that is declared before it and copied too.
InDeclOrder ==
  \A u, v \in job.pending : job.reads[v] = u => Declared(v) <= Declared(u)

IncrementWrittenBack == (phase = "for_inc" /\ Written /\ InDeclOrder) => AllBack
=============================================================================
