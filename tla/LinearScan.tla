----------------------------- MODULE LinearScan -----------------------------
(***************************************************************************)
(* The linear scan of _build_alloc_map (codegen/emit.py): the live ranges  *)
(* of a kernel are grouped by PTX register prefix, and every group is      *)
(* walked in order of its start points.  A range that ended strictly       *)
(* before the next start gives its register back, unless the prefix is one *)
(* whose registers are never reused ('r', see _allow_reuse).               *)
(*                                                                         *)
(* Data abstraction: the code keeps active and free_list as Python lists   *)
(* and takes the first free register; the lists are sets here and any free *)
(* register may be taken, so each behaviour of the code is one of these.   *)
(* An entry (end, phys, id) of active is its id: its end is in live_end    *)
(* and its register in alloc.  Ranges with equal starts come in dictionary *)
(* order in the code and in any order here, and so do the groups.          *)
(***************************************************************************)
EXTENDS Integers, FiniteSets

CONSTANTS
  Prefixes,       \* register classes: "r", "rd", "f", "fd", "h", "p"
  NoReuse,        \* the prefixes whose registers are never handed out twice
  InitialRanges   \* the live-range maps a scan may be started on

\* A value's live range in flat instruction indices, and its register class.
LiveRange == [prefix : Prefixes, start : Nat, end : Nat]

IsRangeMap(m) ==
  \A v \in DOMAIN m : m[v] \in LiveRange /\ m[v].start <= m[v].end

ASSUME LinearScanAssumption ==
  /\ NoReuse \subseteq Prefixes
  /\ \A m \in InitialRanges : IsRangeMap(m)

VARIABLES
  ranges,     \* val_id -> LiveRange: live_start, live_end and the bucket
  buckets,    \* prefixes whose bucket is still to be scanned
  bucket,     \* the prefix being scanned
  todo,       \* its ranges not reached yet
  active,     \* ranges holding a register
  free_list,  \* registers given back
  next_reg,   \* first register never used in this bucket
  alloc,      \* val_id -> physical index, Unassigned if absent
  alloc_max   \* prefix -> registers used, 0 if absent

scanVars == <<buckets, bucket, todo, active, free_list, next_reg, alloc, alloc_max>>
vars == <<ranges, scanVars>>

Unassigned == -1

Vals == DOMAIN ranges
InBucket(p) == {v \in Vals : ranges[v].prefix = p}
Overlap(u, v) == /\ ranges[u].start <= ranges[v].end
                 /\ ranges[v].start <= ranges[u].end

-----------------------------------------------------------------------------
\* Everything a scan of the current ranges starts from.
ScanInit ==
  /\ buckets = {ranges[v].prefix : v \in Vals}
  /\ bucket \in Prefixes
  /\ todo = {}
  /\ active = {}
  /\ free_list = {}
  /\ next_reg = 0
  /\ alloc = [v \in Vals |-> Unassigned]
  /\ alloc_max = [p \in Prefixes |-> 0]

Init == ranges \in InitialRanges /\ ScanInit

\* Variant: the ranges of the last bucket stay active.
StartBucketStillActive(p) ==
  /\ todo = {}
  /\ p \in buckets
  /\ buckets' = buckets \ {p}
  /\ bucket' = p
  /\ todo' = InBucket(p)
  /\ free_list' = {}
  /\ next_reg' = 0
  /\ UNCHANGED <<ranges, active, alloc, alloc_max>>

\* The outer loop enters the next bucket with an empty register file.
StartBucket(p) ==
  /\ todo = {}
  /\ p \in buckets
  /\ buckets' = buckets \ {p}
  /\ bucket' = p
  /\ todo' = InBucket(p)
  /\ active' = {}
  /\ free_list' = {}
  /\ next_reg' = 0
  /\ UNCHANGED <<ranges, alloc, alloc_max>>

\* Variant: a range that ends where v starts has expired.
ExpiredTouching(v) == {a \in active : ranges[a].end <= ranges[v].start}

Expired(v) == {a \in active : ranges[a].end < ranges[v].start}

\* Variants: NoReuse is not asked for; expired registers are not given back.
PoolOfAllClasses(v) == free_list \union {alloc[a] : a \in Expired(v)}
PoolWithoutExpired(v) == free_list

\* The free registers once the ranges that ended before v have expired.
Pool(v) ==
  IF bucket \in NoReuse THEN free_list
                        ELSE free_list \union {alloc[a] : a \in Expired(v)}

\* Variant: the bucket's count is its highest register.
TakeUncounted(v, phys) ==
  /\ alloc' = [alloc EXCEPT ![v] = phys]
  /\ alloc_max' = [alloc_max EXCEPT ![bucket] = IF @ < phys THEN phys ELSE @]

\* Register phys goes to v, and the bucket's count covers it.
Take(v, phys) ==
  /\ alloc' = [alloc EXCEPT ![v] = phys]
  /\ alloc_max' = [alloc_max EXCEPT
                     ![bucket] = IF @ < phys + 1 THEN phys + 1 ELSE @]

\* One round of the inner loop: expire, then assign a register to v.
Assign(v) ==
  /\ v \in todo
  /\ \A u \in todo : ranges[v].start <= ranges[u].start
  /\ todo' = todo \ {v}
  /\ active' = (active \ Expired(v)) \union {v}
  /\ \/ \E phys \in Pool(v) : /\ Take(v, phys)
                              /\ free_list' = Pool(v) \ {phys}
                              /\ next_reg' = next_reg
     \/ /\ Pool(v) = {}
        /\ Take(v, next_reg)
        /\ free_list' = {}
        /\ next_reg' = next_reg + 1
  /\ UNCHANGED <<ranges, buckets, bucket>>

ScanNext == (\E p \in buckets : StartBucket(p)) \/ (\E v \in todo : Assign(v))

ScanDone == buckets = {} /\ todo = {}

Next == ScanNext
Spec == Init /\ [][Next]_vars

-----------------------------------------------------------------------------
Assigned(v) == alloc[v] # Unassigned

TypeOK ==
  /\ IsRangeMap(ranges)
  /\ buckets \subseteq Prefixes
  /\ bucket \in Prefixes
  /\ todo \subseteq InBucket(bucket)
  /\ active \subseteq InBucket(bucket)
  /\ free_list \subseteq Nat
  /\ next_reg \in Nat
  /\ alloc \in [Vals -> Nat \union {Unassigned}]
  /\ alloc_max \in [Prefixes -> Nat]

\* Two values of one register class whose live ranges share an instruction
\* never share a register, whatever order expiry, reuse and buckets take:
\* what lines 320-340 of emit.py are for.
NoClash ==
  \A u, v \in Vals :
    (/\ u # v
     /\ ranges[u].prefix = ranges[v].prefix
     /\ Overlap(u, v)
     /\ Assigned(u) /\ Assigned(v)) => alloc[u] # alloc[v]

\* A class in NoReuse keeps one register per value, overlapping or not: the
\* identity the comment at emit.py:301-307 promises to the assembler.
IdentityKept ==
  \A u, v \in Vals :
    (/\ u # v
     /\ ranges[u].prefix = ranges[v].prefix
     /\ ranges[u].prefix \in NoReuse
     /\ Assigned(u) /\ Assigned(v)) => alloc[u] # alloc[v]

\* A reusing class is allocated optimally: it ends with exactly as many
\* registers as the largest number of its ranges live at one instruction
\* (BASELINE_v0.3.md measures this gap; for intervals the scan closes it).
Pressure(p) ==
  LET at(t) == {v \in InBucket(p) : ranges[v].start <= t /\ t <= ranges[v].end}
      peaks == {Cardinality(at(ranges[v].start)) : v \in InBucket(p)}
  IN  IF peaks = {} THEN 0 ELSE CHOOSE n \in peaks : \A k \in peaks : k <= n

Scanned(p) == p \notin buckets /\ (p = bucket => todo = {})

OptimalCount ==
  \A p \in Prefixes \ NoReuse : Scanned(p) => alloc_max[p] = Pressure(p)

\* No register handed out lies outside the count the emitter declares and
\* starts its own temporaries from (_reg and _alloc_pred add to alloc_max).
CountCovers ==
  \A v \in Vals : Assigned(v) => alloc[v] < alloc_max[ranges[v].prefix]
=============================================================================
