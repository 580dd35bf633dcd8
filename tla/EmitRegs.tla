------------------------------ MODULE EmitRegs ------------------------------
(***************************************************************************)
(* Register names of one PTXEmitter over a module: device functions, then  *)
(* kernels, each scanned by LinearScan and then printed.  While a body is  *)
(* printed the emitter asks for registers of scanned values, which have    *)
(* theirs, of values it makes up as it goes (widened indices, call         *)
(* temporaries) and of scratch predicates.  What the printed lines go      *)
(* through afterwards is in InPlaceAdds.                                   *)
(***************************************************************************)
EXTENDS LinearScan

CONSTANTS
  Kinds,       \* which of "func" and "kernel" the module contains
  Temps,       \* emission-time values of one unit
  TempClass,   \* temp -> prefix
  PredPrefix,  \* the prefix of predicates, "p"
  MaxScratch,  \* bound: scratch predicates per unit
  MaxUnits     \* bound: units emitted by one emitter

ASSUME EmitAssumption ==
  /\ Kinds \subseteq {"func", "kernel"}
  /\ TempClass \in [Temps -> Prefixes]
  /\ PredPrefix \in Prefixes
  /\ MaxScratch \in Nat /\ MaxUnits \in Nat

VARIABLES
  phase,           \* "idle", "scan", "body" or "done"
  kind,            \* the kind of the unit
  units,           \* units started
  base,            \* the emitter's _alloc_max
  fallback_alloc,  \* temp -> index, Unassigned if absent
  fallback_count,  \* prefix -> indices given to temps and scratch predicates
  scratch          \* indices _alloc_pred has returned

bodyVars == <<fallback_alloc, fallback_count, scratch>>
unitVars == <<phase, kind, units, base>>
emitVars == <<vars, bodyVars, unitVars>>

Idle ==
  /\ phase = "idle"
  /\ kind = "func"
  /\ units = 0
  /\ base = [p \in Prefixes |-> 0]
  /\ fallback_alloc = [t \in Temps |-> Unassigned]
  /\ fallback_count = [p \in Prefixes |-> 0]
  /\ scratch = {}

EmitInit == Init /\ Idle

-----------------------------------------------------------------------------
\* emit_device_function and emit_kernel up to the call of _build_alloc_map.
\* Device functions come first.  Neither resets _alloc_max by itself.
StartUnit(k) ==
  /\ phase \in {"idle", "done"}
  /\ units < MaxUnits
  /\ k = "func" => kind = "func"
  /\ phase' = "scan"
  /\ kind' = k
  /\ units' = units + 1
  /\ ranges' \in InitialRanges
  /\ buckets' = {ranges'[v].prefix : v \in Vals'}
  /\ bucket' \in Prefixes
  /\ todo' = {}
  /\ active' = {}
  /\ free_list' = {}
  /\ next_reg' = 0
  /\ alloc' = [v \in Vals' |-> Unassigned]
  /\ alloc_max' = [p \in Prefixes |-> 0]
  /\ fallback_alloc' = [t \in Temps |-> Unassigned]
  /\ fallback_count' = [p \in Prefixes |-> 0]
  /\ scratch' = {}
  /\ UNCHANGED base

ScanUnit == phase = "scan" /\ ScanNext /\ UNCHANGED <<bodyVars, unitVars>>

\* Variant: the base of the first unit is kept for all.
StartBodyFirstBase ==
  /\ phase = "scan"
  /\ ScanDone
  /\ phase' = "body"
  /\ base' = IF units = 1 THEN alloc_max ELSE base
  /\ UNCHANGED <<vars, bodyVars, kind, units>>

\* The result of the scan: emit_kernel keeps alloc_max in self._alloc_max,
\* emit_device_function in a local of its own.
StartBody ==
  /\ phase = "scan"
  /\ ScanDone
  /\ phase' = "body"
  /\ base' = IF kind = "kernel" THEN alloc_max ELSE base
  /\ UNCHANGED <<vars, bodyVars, kind, units>>

NextAbove(p) == base[p] + fallback_count[p]

\* _reg of an emission-time value: the first request takes the next index.
RegTemp(t) ==
  LET p == TempClass[t] IN
  /\ phase = "body"
  /\ fallback_alloc[t] = Unassigned
  /\ fallback_alloc' = [fallback_alloc EXCEPT ![t] = NextAbove(p)]
  /\ fallback_count' = [fallback_count EXCEPT ![p] = @ + 1]
  /\ UNCHANGED <<vars, unitVars, scratch>>

AllocPred ==
  /\ phase = "body"
  /\ Cardinality(scratch) < MaxScratch
  /\ scratch' = scratch \union {NextAbove(PredPrefix)}
  /\ fallback_count' = [fallback_count EXCEPT ![PredPrefix] = @ + 1]
  /\ UNCHANGED <<vars, unitVars, fallback_alloc>>

\* The body is printed.
FinishUnit ==
  /\ phase = "body"
  /\ phase' = "done"
  /\ UNCHANGED <<vars, bodyVars, kind, units, base>>

EmitNext ==
  \/ \E k \in Kinds : StartUnit(k)
  \/ ScanUnit
  \/ StartBody
  \/ \E t \in Temps : RegTemp(t)
  \/ AllocPred
  \/ FinishUnit

EmitSpec == EmitInit /\ [][EmitNext]_emitVars

-----------------------------------------------------------------------------
\* A register printed for something made up during emission is nobody else's:
\* not a scanned value's of the class, not another temporary's, not a scratch
\* predicate's ("above the linear-scan allocated range", emit.py:378-379).
Placed(t) == fallback_alloc[t] # Unassigned

TempsApart ==
  phase \in {"body", "done"} =>
    /\ \A t \in Temps : Placed(t) =>
         /\ \A v \in Vals : ranges[v].prefix = TempClass[t] => alloc[v] # fallback_alloc[t]
         /\ \A u \in Temps : (u # t /\ Placed(u) /\ TempClass[u] = TempClass[t])
              => fallback_alloc[u] # fallback_alloc[t]
         /\ TempClass[t] = PredPrefix => fallback_alloc[t] \notin scratch
    /\ \A v \in Vals : ranges[v].prefix = PredPrefix => alloc[v] \notin scratch
=============================================================================
