--------------------------- MODULE RegAllocProofs ---------------------------
(***************************************************************************)
(* What is proved of register allocation, in three parts: of one scan      *)
(* (LinearScan), of the allocation of a kernel, liveness included          *)
(* (RegAlloc), and of the registers of an emission, whose units are each   *)
(* scanned and then given more registers while they are printed            *)
(* (EmitRegs).                                                             *)
(***************************************************************************)
EXTENDS RegAlloc, EmitRegs, Induction

(***************************************************************************)
(* NoClash, IdentityKept and CountCovers for every set of live ranges and  *)
(* every number of registers and values.                                   *)
(*                                                                         *)
(* NoClash is not inductive: why a register taken from the free list is    *)
(* free of clashes depends on the order of the walk.  The strengthening    *)
(* says which values have been reached (Reached), that a reached value     *)
(* that lost its register ended before every range still to come           *)
(* (ExpiredBehind), that the walk goes forward (Forward), and that the     *)
(* registers below next_reg are split between active and free_list         *)
(* without repetition (ActiveDistinct, FreeApart).                         *)
(***************************************************************************)

\* The values the scan has passed: their bucket was started, they left todo.
Passed(v) == v \in Vals /\ ranges[v].prefix \notin buckets /\ v \notin todo
PassedNow(v) == Passed(v) /\ ranges[v].prefix = bucket

Reached == \A v \in Vals : Assigned(v) <=> Passed(v)
TodoOpen == todo # {} => bucket \notin buckets
ActivePassed == \A a \in active : Passed(a)
ActiveBelow == \A a \in active : alloc[a] \in 0..(next_reg - 1)
ActiveDistinct == \A a, b \in active : a # b => alloc[a] # alloc[b]
FreeApart == /\ free_list \subseteq 0..(next_reg - 1)
             /\ \A a \in active : alloc[a] \notin free_list
ExpiredBehind ==
  \A v \in Vals \ active : PassedNow(v) =>
    \A w \in todo : ranges[v].end < ranges[w].start
Forward == \A v \in Vals : PassedNow(v) => \A w \in todo : ranges[v].start <= ranges[w].start
KeptBelow ==
  /\ bucket \in NoReuse => free_list = {}
  /\ bucket \in NoReuse =>
       \A v \in Vals : PassedNow(v) => alloc[v] < next_reg

\* The inductive invariant.
IInv ==
  /\ TypeOK
  /\ Reached
  /\ TodoOpen
  /\ ActivePassed
  /\ ActiveBelow
  /\ ActiveDistinct
  /\ FreeApart
  /\ ExpiredBehind
  /\ Forward
  /\ KeptBelow
  /\ NoClash
  /\ IdentityKept
  /\ CountCovers
-----------------------------------------------------------------------------
(***************************************************************************)
(* Facts about one Assign step.                                            *)
(***************************************************************************)

\* The type of what is read from the range map.
LEMMA RangeFacts ==
  ASSUME IsRangeMap(ranges), NEW v \in Vals
  PROVE  /\ ranges[v].prefix \in Prefixes
         /\ ranges[v].start \in Nat
         /\ ranges[v].end \in Nat
         /\ ranges[v].start <= ranges[v].end
  BY DEF IsRangeMap, Vals, LiveRange

\* A scan that has not begun satisfies the invariant: nothing is passed or
\* assigned.
LEMMA ScanInitIInv == IsRangeMap(ranges) /\ ScanInit => IInv
<1> SUFFICES ASSUME IsRangeMap(ranges), ScanInit PROVE IInv
  OBVIOUS
<1> USE DEF ScanInit
<1>1. \A v \in Vals : ranges[v].prefix \in Prefixes
  BY RangeFacts
<1>2. \A v \in Vals : ~Assigned(v) /\ ~Passed(v)
  BY DEF Assigned, Passed, Unassigned
<1>3. TypeOK
  BY <1>1 DEF TypeOK, InBucket, Unassigned
<1>4. Reached /\ TodoOpen /\ ActivePassed /\ ActiveBelow /\ ActiveDistinct /\ FreeApart
  BY <1>2 DEF Reached, TodoOpen, ActivePassed, ActiveBelow, ActiveDistinct, FreeApart
<1>5. ExpiredBehind /\ Forward /\ KeptBelow
  BY <1>2 DEF ExpiredBehind, Forward, KeptBelow, PassedNow
<1>6. NoClash /\ IdentityKept /\ CountCovers
  BY <1>2 DEF NoClash, IdentityKept, CountCovers
<1> QED
  BY <1>3, <1>4, <1>5, <1>6 DEF IInv

\* So does the initial state.
LEMMA InitIInv == Init => IInv
  BY ScanInitIInv, LinearScanAssumption DEF Init

\* Entering a bucket: none of its values is assigned, all others stay passed.
LEMMA StartBucketIInv ==
  ASSUME IInv, NEW p \in buckets, StartBucket(p)
  PROVE  IInv'
<1> USE DEF IInv, StartBucket
<1>1. ranges' = ranges /\ Vals' = Vals /\ alloc' = alloc
  BY DEF Vals
<1>2. \A v \in Vals : Passed(v)' <=> Passed(v)
  BY <1>1 DEF Passed, InBucket, Vals
<1>3. \A v \in Vals : ~PassedNow(v)'
  BY <1>1 DEF PassedNow, Passed, InBucket, Vals
<1>4. TypeOK'
  BY <1>1 DEF TypeOK, InBucket, Vals
<1>5. Reached' /\ TodoOpen'
  BY <1>1, <1>2 DEF Reached, TodoOpen, Assigned
<1>6. ActivePassed' /\ ActiveBelow' /\ ActiveDistinct' /\ FreeApart'
  BY DEF ActivePassed, ActiveBelow, ActiveDistinct, FreeApart
<1>7. ExpiredBehind' /\ Forward' /\ KeptBelow'
  BY <1>1, <1>3 DEF ExpiredBehind, Forward, KeptBelow
<1>8. NoClash' /\ IdentityKept' /\ CountCovers'
  BY <1>1 DEF NoClash, IdentityKept, CountCovers, Assigned, Overlap, Vals
<1> QED
  BY <1>4, <1>5, <1>6, <1>7, <1>8

\* One round of the inner loop, the heart of the argument: the register v
\* takes is either new or was given back by a range that ended before v
\* starts, and by Forward and ExpiredBehind every other holder of it did too.
LEMMA AssignIInv ==
  ASSUME IInv, NEW v \in todo, Assign(v)
  PROVE  IInv'
<1> DEFINE phys == alloc'[v]
<1> USE DEF IInv
<1>0. /\ v \in Vals /\ ranges[v].prefix = bucket /\ bucket \notin buckets
      /\ ranges' = ranges /\ Vals' = Vals /\ buckets' = buckets /\ bucket' = bucket
      /\ bucket \in Prefixes
  BY DEF Assign, TypeOK, TodoOpen, InBucket, Vals
<1>1. /\ \A u \in Vals : /\ ranges[u].prefix \in Prefixes
                         /\ ranges[u].start \in Nat /\ ranges[u].end \in Nat
                         /\ ranges[u].start <= ranges[u].end
  BY RangeFacts DEF TypeOK
<1>2. \A u \in Vals : Passed(u)' <=> (Passed(u) \/ u = v)
  BY <1>0 DEF Passed, Assign, Vals
<1>3. \A u \in Vals : PassedNow(u)' <=> (PassedNow(u) \/ u = v)
  BY <1>0, <1>2 DEF PassedNow
<1>4. ~Passed(v) /\ ~Assigned(v) /\ v \notin active
  BY <1>0 DEF Passed, Reached, ActivePassed
<1>5. /\ \A a \in active : alloc[a] \in 0..(next_reg - 1) /\ Passed(a) /\ PassedNow(a) /\ a \in Vals
      /\ next_reg \in Nat
      /\ free_list \subseteq 0..(next_reg - 1)
  BY DEF ActiveBelow, FreeApart, TypeOK, ActivePassed, PassedNow, InBucket
<1>6. Pool(v) \subseteq 0..(next_reg - 1)
  BY <1>5 DEF Pool, Expired
<1>7. /\ alloc' = [alloc EXCEPT ![v] = phys]
      /\ phys \in Nat
      /\ alloc_max' = [alloc_max EXCEPT ![bucket] = IF @ < phys + 1 THEN phys + 1 ELSE @]
      /\ \/ phys \in Pool(v) /\ free_list' = Pool(v) \ {phys} /\ next_reg' = next_reg
         \/ Pool(v) = {} /\ phys = next_reg /\ free_list' = {} /\ next_reg' = next_reg + 1
  <2>1. alloc \in [Vals -> Nat \union {Unassigned}]
    BY DEF TypeOK
  <2> QED
    BY <1>0, <1>5, <1>6, <2>1 DEF Assign, Take
<1>8. \A u \in Vals \ {v} : alloc'[u] = alloc[u]
  BY <1>7 DEF TypeOK
<1>9. /\ next_reg' \in Nat /\ next_reg <= next_reg' /\ phys \in 0..(next_reg' - 1)
      /\ free_list' \subseteq 0..(next_reg' - 1) /\ phys \notin free_list'
      /\ free_list' \subseteq Pool(v)
  BY <1>5, <1>6, <1>7
<1>10. active' = (active \ Expired(v)) \union {v} /\ todo' = todo \ {v}
  BY DEF Assign
<1>11. \A a \in active \ Expired(v) : alloc[a] \notin Pool(v) /\ alloc[a] # phys
  <2> SUFFICES ASSUME NEW a \in active \ Expired(v)
               PROVE  alloc[a] \notin Pool(v) /\ alloc[a] # phys
    OBVIOUS
  <2>1. alloc[a] \notin Pool(v)
    BY DEF Pool, Expired, FreeApart, ActiveDistinct
  <2> QED
    BY <2>1, <1>5, <1>7
<1>12. TypeOK'
  <2>1. alloc' \in [Vals -> Nat \union {Unassigned}]
    BY <1>0, <1>7 DEF TypeOK
  <2>2. alloc_max' \in [Prefixes -> Nat]
    BY <1>7, <1>0 DEF TypeOK
  <2>3. todo' \subseteq InBucket(bucket)' /\ active' \subseteq InBucket(bucket)'
    BY <1>0, <1>10 DEF TypeOK, InBucket, Vals
  <2>4. free_list' \subseteq Nat
    <3>1. \A r \in free_list' : r \in 0..(next_reg' - 1)
      BY <1>9
    <3> QED
      BY <3>1
  <2> QED
    BY <2>1, <2>2, <2>3, <2>4, <1>0, <1>9 DEF TypeOK
<1>13. Reached' /\ TodoOpen'
  <2>1. Assigned(v)' /\ \A u \in Vals \ {v} : Assigned(u)' <=> Assigned(u)
    BY <1>7, <1>8 DEF Assigned, Unassigned
  <2> QED
    BY <2>1, <1>0, <1>2, <1>10 DEF Reached, TodoOpen
<1>14. ActivePassed' /\ ActiveBelow'
  BY <1>0, <1>2, <1>5, <1>8, <1>9, <1>10 DEF ActivePassed, ActiveBelow
<1>15. ActiveDistinct'
  BY <1>5, <1>8, <1>10, <1>11, <1>4 DEF ActiveDistinct
<1>16. FreeApart'
  BY <1>4, <1>5, <1>8, <1>9, <1>10, <1>11 DEF FreeApart
<1>17. ExpiredBehind'
  <2> SUFFICES ASSUME NEW u \in Vals \ active', PassedNow(u)', NEW w \in todo'
               PROVE  ranges[u].end < ranges[w].start
    BY <1>0 DEF ExpiredBehind
  <2>1. u # v /\ PassedNow(u) /\ w \in todo /\ w \in Vals /\ ranges[v].start <= ranges[w].start
    BY <1>3, <1>10 DEF Assign, TypeOK, InBucket
  <2>2. CASE u \in active
    BY <2>1, <2>2, <1>0, <1>1, <1>10 DEF Expired
  <2>3. CASE u \notin active
    BY <2>1, <2>3 DEF ExpiredBehind
  <2> QED
    BY <2>2, <2>3
<1>18. Forward'
  BY <1>0, <1>3, <1>10 DEF Forward, Assign
<1>19. KeptBelow'
  <2>1. ASSUME bucket \in NoReuse PROVE Pool(v) = {} /\ free_list' = {} /\ next_reg' = next_reg + 1 /\ phys = next_reg
    BY <2>1, <1>7 DEF Pool, KeptBelow
  <2>2. ASSUME bucket \in NoReuse, NEW u \in Vals, PassedNow(u)' PROVE alloc'[u] < next_reg'
    <3>1. CASE u = v
      BY <3>1, <1>9
    <3>2. CASE u # v
      <4>1. alloc[u] < next_reg /\ alloc[u] \in Nat \union {Unassigned}
        BY <3>2, <2>2, <1>3 DEF KeptBelow, TypeOK
      <4> QED
        BY <4>1, <3>2, <2>1, <2>2, <1>8, <1>5 DEF Unassigned
    <3> QED
      BY <3>1, <3>2
  <2> QED
    BY <2>1, <2>2, <1>0 DEF KeptBelow
\* The values that could clash with v: the other values passed in its bucket.
<1>20. \A u \in Vals \ {v} :
        (Assigned(u)' /\ ranges[u].prefix = ranges[v].prefix) => PassedNow(u)
  BY <1>0, <1>8 DEF Assigned, Reached, PassedNow
<1>21. ASSUME NEW u \in Vals \ {v}, Assigned(u)', ranges[u].prefix = ranges[v].prefix,
              Overlap(u, v)
       PROVE  alloc'[u] # phys
  <2>1. PassedNow(u)
    BY <1>20, <1>21
  <2>2. u \in active /\ u \notin Expired(v)
    <3>1. ~(ranges[u].end < ranges[v].start)
      BY <1>21, <1>1, <1>0 DEF Overlap
    <3> QED
      BY <3>1, <2>1 DEF ExpiredBehind, Expired
  <2> QED
    BY <2>2, <1>11, <1>8
<1>22. NoClash'
  <2> SUFFICES ASSUME NEW u \in Vals, NEW w \in Vals, u # w,
                      ranges[u].prefix = ranges[w].prefix, Overlap(u, w),
                      Assigned(u)', Assigned(w)'
               PROVE  alloc'[u] # alloc'[w]
    BY <1>0 DEF NoClash, Overlap
  <2>1. CASE u = v
    <3>1. Overlap(w, v)
      BY <2>1 DEF Overlap
    <3> QED
      BY <3>1, <2>1, <1>21
  <2>2. CASE w = v
    BY <2>2, <1>21
  <2>3. CASE u # v /\ w # v
    BY <2>3, <1>8 DEF NoClash, Assigned
  <2> QED
    BY <2>1, <2>2, <2>3
<1>23. IdentityKept'
  <2> SUFFICES ASSUME NEW u \in Vals, NEW w \in Vals, u # w,
                      ranges[u].prefix = ranges[w].prefix, ranges[u].prefix \in NoReuse,
                      Assigned(u)', Assigned(w)'
               PROVE  alloc'[u] # alloc'[w]
    BY <1>0 DEF IdentityKept
  <2>1. ASSUME NEW x \in Vals \ {v}, Assigned(x)', ranges[x].prefix = bucket, bucket \in NoReuse
        PROVE  alloc'[x] # phys
    <3>1. alloc[x] < next_reg /\ alloc[x] \in Nat \union {Unassigned}
      BY <2>1, <1>0, <1>20 DEF KeptBelow, TypeOK
    <3>2. phys = next_reg
      BY <2>1, <1>7 DEF Pool, KeptBelow
    <3> QED
      BY <3>1, <3>2, <1>5, <1>8, <2>1 DEF Unassigned
  <2>2. CASE u = v
    BY <2>2, <2>1, <1>0
  <2>3. CASE w = v
    BY <2>3, <2>1, <1>0
  <2>4. CASE u # v /\ w # v
    BY <2>4, <1>8 DEF IdentityKept, Assigned
  <2> QED
    BY <2>2, <2>3, <2>4
<1>24. CountCovers'
  <2> SUFFICES ASSUME NEW u \in Vals, Assigned(u)'
               PROVE  alloc'[u] < alloc_max'[ranges[u].prefix]
    BY <1>0 DEF CountCovers
  <2>1. \A p \in Prefixes : alloc_max[p] \in Nat /\ alloc_max[p] <= alloc_max'[p]
    BY <1>7, <1>0 DEF TypeOK
  <2>2. phys < alloc_max'[bucket]
    BY <1>7, <1>0 DEF TypeOK
  <2>3. CASE u = v
    BY <2>3, <2>2, <1>0
  <2>4. CASE u # v
    <3>1. alloc[u] < alloc_max[ranges[u].prefix] /\ alloc[u] \in Nat \union {Unassigned}
      BY <2>4, <1>8 DEF CountCovers, Assigned, TypeOK
    <3>2. ranges[u].prefix \in Prefixes
      BY <1>1
    <3>3. alloc_max'[ranges[u].prefix] \in Nat
      BY <1>12, <3>2, <1>0 DEF TypeOK
    <3> QED
      BY <3>1, <3>2, <3>3, <2>1, <2>4, <1>8 DEF Unassigned
  <2> QED
    BY <2>3, <2>4
<1> QED
  BY <1>12, <1>13, <1>14, <1>15, <1>16, <1>17, <1>18, <1>19, <1>22, <1>23, <1>24

-----------------------------------------------------------------------------
\* The scan's invariant when its variables do not change.
LEMMA StutterIInv ==
  ASSUME IInv, UNCHANGED vars
  PROVE  IInv'
  BY DEF vars, scanVars, IInv, TypeOK, IsRangeMap, Reached, TodoOpen, ActivePassed,
     ActiveBelow, ActiveDistinct, FreeApart, ExpiredBehind, Forward, KeptBelow, NoClash, IdentityKept,
     CountCovers, Assigned, Passed, PassedNow, Overlap, InBucket, Vals

\* Every step of a scan keeps the invariant.
LEMMA StepIInv == IInv /\ [Next]_vars => IInv'
<1> SUFFICES ASSUME IInv, [Next]_vars PROVE IInv'
  OBVIOUS
<1>1. ASSUME NEW p \in buckets, StartBucket(p) PROVE IInv'
  BY <1>1, StartBucketIInv
<1>2. ASSUME NEW v \in todo, Assign(v) PROVE IInv'
  BY <1>2, AssignIInv
<1>3. CASE UNCHANGED vars
  BY <1>3, StutterIInv
<1> QED
  BY <1>1, <1>2, <1>3 DEF Next, ScanNext

\* The invariant holds throughout every scan.
LEMMA Invariance == Spec => []IInv
  BY InitIInv, StepIInv, PTL DEF Spec

\* Every variable keeps its type: ids, indices and counts stay in range.
THEOREM TypeCorrect == Spec => []TypeOK
  BY Invariance, PTL DEF IInv

\* Values of one class that are live together are in different registers,
\* for every kernel, whatever the order of equal starts and of free registers.
THEOREM NoClashAlways == Spec => []NoClash
  BY Invariance, PTL DEF IInv

\* In a class without reuse no register is ever handed out twice.
THEOREM IdentityKeptAlways == Spec => []IdentityKept
  BY Invariance, PTL DEF IInv

\* alloc_max is above every register handed out, so the registers _reg and
\* _alloc_pred number from alloc_max on are nobody's.
THEOREM CountCoversAlways == Spec => []CountCovers
  BY Invariance, PTL DEF IInv
-----------------------------------------------------------------------------
(***************************************************************************)
(* The register count is optimal.  A count never exceeds what some         *)
(* instruction needs, because a new register is taken only when the free   *)
(* list is empty and nothing has expired: then every register below        *)
(* next_reg is held (Covered) by a range live at the start of the next     *)
(* one, and these ranges witness the count (Tight).  It is never smaller,  *)
(* because ranges live together are in different registers (NoClash) below *)
(* the count (CountCovers).  No assumption says that the kernel has        *)
(* finitely many values: what the scan has passed is finite (PassedFinite).*)
(***************************************************************************)
Untouched == \A p \in buckets : alloc_max[p] = 0
CountIsNext == alloc_max[bucket] = next_reg
Covered ==
  bucket \notin NoReuse =>
    \A r \in 0..(next_reg - 1) : r \in free_list \/ \E a \in active : alloc[a] = r
PassedFinite == IsFiniteSet({v \in Vals : PassedNow(v)})

\* A set of passed ranges that are all live where one of them starts.
Peak(S) ==
  /\ S \subseteq {v \in Vals : PassedNow(v)}
  /\ S # {} => \E v \in S : \A u \in S : ranges[u].start <= ranges[v].start
                                         /\ ranges[v].start <= ranges[u].end

Tight ==
  bucket \notin NoReuse =>
    \E S \in SUBSET Vals : Peak(S) /\ IsFiniteSet(S) /\ next_reg <= Cardinality(S)

CInv == Untouched /\ CountIsNext /\ Covered /\ PassedFinite /\ Tight /\ OptimalCount

\* An empty register file needs no range.
LEMMA EmptyTight ==
  ASSUME next_reg = 0
  PROVE  Tight
<1>1. {} \in SUBSET Vals /\ Peak({}) /\ IsFiniteSet({}) /\ 0 <= Cardinality({})
  BY FS_EmptySet DEF Peak
<1> QED
  BY <1>1 DEF Tight

\* Values of one class live at one point fit into the count.
LEMMA LiveTogetherFit ==
  ASSUME IInv, NEW p \in Prefixes, NEW S \in SUBSET InBucket(p), NEW t \in Nat,
         \A u \in S : Assigned(u) /\ ranges[u].start <= t /\ t <= ranges[u].end
  PROVE  IsFiniteSet(S) /\ Cardinality(S) <= alloc_max[p]
<1> USE DEF IInv
<1> DEFINE f == [u \in S |-> alloc[u]]
           R == 0..(alloc_max[p] - 1)
<1>1. alloc_max[p] \in Nat
  BY DEF TypeOK
<1>2. ASSUME NEW u \in S PROVE alloc[u] \in R
  <2>1. alloc[u] < alloc_max[p]
    BY DEF CountCovers, InBucket
  <2>2. alloc[u] \in Nat
    BY DEF TypeOK, Assigned, InBucket
  <2> QED
    BY <2>1, <2>2, <1>1
<1>3. ASSUME NEW u \in S, NEW w \in S, alloc[u] = alloc[w] PROVE u = w
  <2>1. u \in Vals /\ w \in Vals /\ ranges[u].prefix = ranges[w].prefix
    BY DEF InBucket
  <2>2. /\ ranges[u].start \in Nat /\ ranges[u].end \in Nat
        /\ ranges[w].start \in Nat /\ ranges[w].end \in Nat
    BY <2>1, RangeFacts DEF TypeOK
  <2>3. Overlap(u, w)
    BY <2>2 DEF Overlap
  <2> QED
    BY <2>1, <2>3, <1>3 DEF NoClash
<1>4. f \in Injection(S, R)
  BY <1>2, <1>3 DEF Injection, IsInjective
<1>5. IsFiniteSet(R) /\ Cardinality(R) = alloc_max[p]
  <2>1. 0 \in Int /\ alloc_max[p] - 1 \in Int
    BY <1>1
  <2>2. /\ IsFiniteSet(R)
        /\ Cardinality(R) = IF 0 > alloc_max[p] - 1 THEN 0 ELSE (alloc_max[p] - 1) - 0 + 1
    BY <2>1, FS_Interval
  <2> HIDE DEF R
  <2> QED
    BY <2>2, <1>1
<1> QED
  BY <1>4, <1>5, FS_Injection

\* The count of a scanned bucket is its pressure.
LEMMA CountIsPressure ==
  ASSUME IInv, PassedFinite, CountIsNext, Tight,
         bucket \notin NoReuse, bucket \notin buckets, todo = {}
  PROVE  alloc_max[bucket] = Pressure(bucket)
<1> USE DEF IInv
<1> DEFINE B == InBucket(bucket)
           at(t) == {v \in B : ranges[v].start <= t /\ t <= ranges[v].end}
           peaks == {Cardinality(at(ranges[v].start)) : v \in B}
           n == alloc_max[bucket]
<1>1. /\ bucket \in Prefixes /\ n \in Nat
      /\ B = {v \in Vals : PassedNow(v)}
      /\ \A v \in B : Assigned(v) /\ ranges[v].start \in Nat /\ ranges[v].end \in Nat
                      /\ ranges[v].start <= ranges[v].end
  <2>1. B = {v \in Vals : PassedNow(v)}
    BY DEF InBucket, PassedNow, Passed
  <2>2. \A v \in B : Assigned(v)
    BY <2>1 DEF Reached, PassedNow
  <2>3. \A v \in B : v \in Vals
    BY DEF InBucket
  <2> QED
    BY <2>1, <2>2, <2>3, RangeFacts DEF TypeOK
<1>2. IsFiniteSet(B)
  BY <1>1 DEF PassedFinite
<1>3. ASSUME NEW v \in B
      PROVE  /\ IsFiniteSet(at(ranges[v].start))
             /\ Cardinality(at(ranges[v].start)) \in Nat
             /\ Cardinality(at(ranges[v].start)) <= n
  <2>1. at(ranges[v].start) \in SUBSET B
    OBVIOUS
  <2>2. IsFiniteSet(at(ranges[v].start))
    BY <2>1, <1>2, FS_Subset
  <2>3. Cardinality(at(ranges[v].start)) \in Nat
    BY <2>2, FS_CardinalityType
  <2>4. ranges[v].start \in Nat /\ \A u \in at(ranges[v].start) :
          Assigned(u) /\ ranges[u].start <= ranges[v].start /\ ranges[v].start <= ranges[u].end
    BY <1>1
  <2> QED
    BY <2>1, <2>2, <2>3, <2>4, <1>1, LiveTogetherFit
<1>4. CASE B = {}
  <2>1. PICK S \in SUBSET Vals : Peak(S) /\ IsFiniteSet(S) /\ next_reg <= Cardinality(S)
    BY DEF Tight
  <2>2. S = {}
    BY <2>1, <1>1, <1>4 DEF Peak
  <2>3. n = 0
    BY <2>1, <2>2, <1>1, FS_EmptySet DEF CountIsNext
  <2>4. peaks = {}
    BY <1>4
  <2> QED
    BY <2>3, <2>4 DEF Pressure
<1>5. CASE B # {}
  <2>1. PICK S \in SUBSET Vals : Peak(S) /\ IsFiniteSet(S) /\ next_reg <= Cardinality(S)
    BY DEF Tight
  <2>2. \E v \in B : n <= Cardinality(at(ranges[v].start))
    <3>1. CASE S = {}
      <4>1. n <= 0
        BY <2>1, <3>1, FS_EmptySet DEF CountIsNext
      <4>2. PICK v \in B : TRUE
        BY <1>5
      <4>3. Cardinality(at(ranges[v].start)) \in Nat
        BY <1>3
      <4>4. n <= Cardinality(at(ranges[v].start))
        BY <4>1, <4>3, <1>1
      <4> QED
        BY <4>4
    <3>2. CASE S # {}
      <4>1. PICK v \in S : \A u \in S : ranges[u].start <= ranges[v].start
                                        /\ ranges[v].start <= ranges[u].end
        BY <2>1, <3>2 DEF Peak
      <4>2. S \subseteq B /\ v \in B
        BY <2>1, <1>1 DEF Peak
      <4>3. S \in SUBSET at(ranges[v].start)
        BY <4>1, <4>2
      <4>4. Cardinality(S) <= Cardinality(at(ranges[v].start))
        BY <4>2, <4>3, <1>3, FS_Subset
      <4>5. n <= Cardinality(at(ranges[v].start))
        BY <4>2, <4>4, <2>1, <1>1, <1>3, FS_CardinalityType DEF CountIsNext
      <4> QED
        BY <4>2, <4>5
    <3> QED
      BY <3>1, <3>2
  <2>3. n \in peaks /\ \A k \in peaks : k \in Nat /\ k <= n
    <3>1. \A k \in peaks : k \in Nat /\ k <= n
      BY <1>3
    <3>2. PICK v \in B : n <= Cardinality(at(ranges[v].start))
      BY <2>2
    <3>3. n = Cardinality(at(ranges[v].start))
      BY <3>2, <1>1, <1>3
    <3> QED
      BY <3>1, <3>3
  <2>4. peaks # {}
    BY <2>3
  <2>5. Pressure(bucket) = CHOOSE m \in peaks : \A k \in peaks : k <= m
    BY <2>4 DEF Pressure
  <2> HIDE DEF peaks
  <2>6. (CHOOSE m \in peaks : \A k \in peaks : k <= m) = n
    BY <2>3, <1>1
  <2> QED
    BY <2>5, <2>6
<1> QED
  BY <1>4, <1>5

\* The same, as a formula.
LEMMA ScannedIsPressure ==
  (/\ IInv /\ PassedFinite /\ CountIsNext /\ Tight
   /\ bucket \notin NoReuse /\ bucket \notin buckets /\ todo = {})
  => alloc_max[bucket] = Pressure(bucket)
  BY CountIsPressure

\* Before the scan.
LEMMA ScanInitCInv == IsRangeMap(ranges) /\ ScanInit => CInv
<1> SUFFICES ASSUME IsRangeMap(ranges), ScanInit PROVE CInv
  OBVIOUS
<1> USE DEF ScanInit
<1>1. /\ buckets \subseteq Prefixes /\ bucket \in Prefixes
      /\ \A p \in Prefixes : alloc_max[p] = 0
      /\ next_reg = 0 /\ next_reg \in Nat
  BY RangeFacts
<1>2. {v \in Vals : PassedNow(v)} = {}
  BY DEF PassedNow, Passed
<1>3. Untouched /\ CountIsNext /\ PassedFinite
  BY <1>1, <1>2, FS_EmptySet DEF Untouched, CountIsNext, PassedFinite
<1>4. Covered /\ Tight
  BY <1>1, EmptyTight DEF Covered
<1>5. OptimalCount
  <2> SUFFICES ASSUME NEW p \in Prefixes, Scanned(p) PROVE alloc_max[p] = Pressure(p)
    BY DEF OptimalCount
  <2>1. InBucket(p) = {}
    BY DEF Scanned, InBucket
  <2>2. Pressure(p) = 0
    BY <2>1 DEF Pressure
  <2> QED
    BY <2>2, <1>1
<1> QED
  BY <1>3, <1>4, <1>5 DEF CInv

\* The pressure is a matter of the ranges.
LEMMA PressureFixed ==
  ASSUME ranges' = ranges, NEW q
  PROVE  Pressure(q)' = Pressure(q)
<1> DEFINE at(t) == {v \in InBucket(q) : ranges[v].start <= t /\ t <= ranges[v].end}
           peaks == {Cardinality(at(ranges[v].start)) : v \in InBucket(q)}
<1>1. InBucket(q)' = InBucket(q)
  BY DEF InBucket, Vals
<1>2. \A t : at(t)' = at(t)
  BY <1>1
<1> HIDE DEF at
<1>3. peaks' = peaks
  BY <1>1, <1>2
<1> HIDE DEF peaks
<1>4. Pressure(q) = IF peaks = {} THEN 0 ELSE CHOOSE n \in peaks : \A k \in peaks : k <= n
  BY DEF Pressure, peaks, at
<1>5. Pressure(q)' = IF peaks' = {} THEN 0 ELSE CHOOSE n \in peaks' : \A k \in peaks' : k <= n
  BY DEF Pressure, peaks, at
<1> QED
  BY <1>3, <1>4, <1>5

\* A new bucket starts with nothing passed.
LEMMA StartBucketCInv ==
  ASSUME IInv, CInv, NEW p \in buckets, StartBucket(p)
  PROVE  CInv'
<1> USE DEF IInv, CInv, StartBucket
<1>1. /\ ranges' = ranges /\ Vals' = Vals /\ alloc_max' = alloc_max /\ bucket' = p /\ next_reg' = 0
      /\ p \in Prefixes /\ alloc_max[p] = 0
  BY DEF Vals, TypeOK, Untouched
<1>2. \A q : InBucket(q)' = InBucket(q)
  BY <1>1 DEF InBucket
<1>3. {v \in Vals : PassedNow(v)}' = {}
  BY <1>1 DEF PassedNow, Passed, InBucket, Vals
<1>4. Untouched' /\ CountIsNext' /\ PassedFinite' /\ Covered'
  BY <1>1, <1>3, FS_EmptySet DEF Untouched, CountIsNext, PassedFinite, Covered
<1>5. Tight'
  <2>1. (next_reg = 0 => Tight)'
    BY EmptyTight, PTL
  <2> QED
    BY <2>1, <1>1
<1>6. \A q : Pressure(q)' = Pressure(q)
  BY <1>1, PressureFixed
<1>7. OptimalCount'
  <2> SUFFICES ASSUME NEW q \in Prefixes \ NoReuse, Scanned(q)'
               PROVE  alloc_max[q] = Pressure(q)
    BY <1>1, <1>6 DEF OptimalCount
  <2>1. CASE q = p
    <3>1. InBucket(p) = {}
      BY <2>1 DEF Scanned
    <3> QED
      BY <3>1, <2>1, <1>1 DEF Pressure
  <2>2. CASE q # p
    BY <2>2, <1>1 DEF Scanned, OptimalCount
  <2> QED
    BY <2>1, <2>2
<1> QED
  BY <1>4, <1>5, <1>7

\* One round: a new register is witnessed by the ranges that hold the others.
LEMMA AssignCInv ==
  ASSUME IInv, CInv, NEW v \in todo, Assign(v)
  PROVE  CInv'
<1> DEFINE phys == alloc'[v]
           Now == {u \in Vals : PassedNow(u)}
<1> USE DEF IInv, CInv
<1>1. /\ v \in Vals /\ ranges[v].prefix = bucket /\ bucket \notin buckets
      /\ ranges' = ranges /\ Vals' = Vals /\ buckets' = buckets /\ bucket' = bucket
      /\ bucket \in Prefixes /\ next_reg \in Nat /\ alloc_max[bucket] = next_reg
      /\ active' = (active \ Expired(v)) \union {v} /\ todo' = todo \ {v}
  BY DEF Assign, TypeOK, TodoOpen, InBucket, Vals, CountIsNext
<1>2. IInv'
  BY AssignIInv
<1>3. Now' = Now \union {v} /\ v \notin Now
  <2>1. \A u \in Vals : PassedNow(u)' <=> (PassedNow(u) \/ u = v)
    BY <1>1 DEF PassedNow, Passed, Vals
  <2> QED
    BY <2>1, <1>1 DEF PassedNow, Passed
<1>4. /\ v \notin active /\ active \subseteq Now /\ Now \subseteq Vals
      /\ \A a \in active : alloc[a] \in 0..(next_reg - 1)
      /\ Pool(v) \subseteq 0..(next_reg - 1)
  <2>1. active \subseteq Now
    BY DEF ActivePassed, TypeOK, PassedNow, Passed, InBucket
  <2>2. \A a \in active : alloc[a] \in 0..(next_reg - 1)
    BY DEF ActiveBelow
  <2>3. Pool(v) \subseteq 0..(next_reg - 1)
    BY <2>2 DEF Pool, Expired, FreeApart
  <2> QED
    BY <2>1, <2>2, <2>3, <1>3
<1>5. /\ alloc' = [alloc EXCEPT ![v] = phys]
      /\ alloc_max' = [alloc_max EXCEPT ![bucket] = next_reg']
      /\ \/ phys \in Pool(v) /\ free_list' = Pool(v) \ {phys} /\ next_reg' = next_reg
         \/ Pool(v) = {} /\ phys = next_reg /\ free_list' = {} /\ next_reg' = next_reg + 1
  <2>1. /\ alloc' = [alloc EXCEPT ![v] = phys]
        /\ alloc_max' = [alloc_max EXCEPT ![bucket] = IF @ < phys + 1 THEN phys + 1 ELSE @]
        /\ \/ phys \in Pool(v) /\ free_list' = Pool(v) \ {phys} /\ next_reg' = next_reg
           \/ Pool(v) = {} /\ phys = next_reg /\ free_list' = {} /\ next_reg' = next_reg + 1
    <3>1. alloc \in [Vals -> Nat \union {Unassigned}]
      BY DEF TypeOK
    <3> QED
      BY <1>1, <1>4, <3>1 DEF Assign, Take
  <2>2. (IF next_reg < phys + 1 THEN phys + 1 ELSE next_reg) = next_reg'
    <3>1. CASE phys \in Pool(v) /\ next_reg' = next_reg
      <4>1. phys \in 0..(next_reg - 1)
        BY <3>1, <1>4
      <4> QED
        BY <3>1, <4>1, <1>1
    <3>2. CASE phys = next_reg /\ next_reg' = next_reg + 1
      BY <3>2, <1>1
    <3> QED
      BY <2>1, <3>1, <3>2
  <2> QED
    BY <2>1, <2>2, <1>1
<1>6. /\ \A u \in Vals \ {v} : alloc'[u] = alloc[u]
      /\ \A p \in Prefixes \ {bucket} : alloc_max'[p] = alloc_max[p]
      /\ alloc_max'[bucket] = next_reg'
  BY <1>1, <1>5 DEF TypeOK
<1>7. Untouched' /\ CountIsNext'
  BY <1>1, <1>6 DEF Untouched, CountIsNext, TypeOK
<1>8. Covered'
  <2> SUFFICES ASSUME bucket \notin NoReuse, NEW r \in 0..(next_reg' - 1)
               PROVE  r \in free_list' \/ \E a \in active' : alloc'[a] = r
    BY <1>1 DEF Covered
  <2>1. CASE r = phys
    BY <2>1, <1>1
  <2>2. CASE r # phys
    <3>1. r \in 0..(next_reg - 1)
      BY <2>2, <1>1, <1>5
    <3>2. CASE r \in Pool(v)
      BY <3>2, <2>2, <1>5
    <3>3. CASE r \notin Pool(v)
      <4>1. r \notin free_list /\ \A a \in Expired(v) : alloc[a] # r
        BY <3>3 DEF Pool
      <4>2. PICK a \in active : alloc[a] = r
        BY <3>1, <4>1 DEF Covered
      <4>3. a \in active' /\ alloc'[a] = r
        BY <4>1, <4>2, <1>1, <1>4, <1>6
      <4> QED
        BY <4>3
    <3> QED
      BY <3>2, <3>3
  <2> QED
    BY <2>1, <2>2
<1>9. PassedFinite'
  <2>1. IsFiniteSet(Now \union {v})
    BY FS_AddElement DEF PassedFinite
  <2> QED
    BY <2>1, <1>3 DEF PassedFinite
<1>10. Tight'
  <2> SUFFICES ASSUME bucket \notin NoReuse
               PROVE  \E S \in SUBSET Vals : Peak(S)' /\ IsFiniteSet(S) /\ next_reg' <= Cardinality(S)
    BY <1>1 DEF Tight
  <2>1. CASE next_reg' = next_reg
    <3>1. PICK S \in SUBSET Vals : Peak(S) /\ IsFiniteSet(S) /\ next_reg <= Cardinality(S)
      BY DEF Tight
    <3>2. Peak(S)'
      BY <3>1, <1>1, <1>3 DEF Peak
    <3> QED
      BY <2>1, <3>1, <3>2
  <2>2. CASE Pool(v) = {} /\ next_reg' = next_reg + 1
    <3>1. PICK S : S = active \union {v}
      OBVIOUS
    <3> DEFINE f == [a \in active |-> alloc[a]]
           R == 0..(next_reg - 1)
    <3>2. free_list = {} /\ Expired(v) = {}
      BY <2>2 DEF Pool
    <3>3. IsFiniteSet(active)
      BY <1>4, FS_Subset DEF PassedFinite
    <3>4. f \in Surjection(active, R)
      <4>1. f \in [active -> R]
        BY <1>4
      <4>2. \A r \in R : \E a \in active : f[a] = r
        BY <3>2 DEF Covered
      <4> QED
        BY <4>1, <4>2 DEF Surjection
    <3>5. IsFiniteSet(R) /\ Cardinality(R) = next_reg
      <4>1. 0 \in Int /\ next_reg - 1 \in Int
        BY <1>1
      <4>2. /\ IsFiniteSet(R)
            /\ Cardinality(R) = IF 0 > next_reg - 1 THEN 0 ELSE (next_reg - 1) - 0 + 1
        BY <4>1, FS_Interval
      <4> HIDE DEF R
      <4> QED
        BY <4>2, <1>1
    <3> HIDE DEF f, R
    <3>6. next_reg <= Cardinality(active)
      BY <3>3, <3>4, <3>5, FS_Surjection
    <3>7. IsFiniteSet(S) /\ Cardinality(S) = Cardinality(active) + 1
      BY <3>1, <3>3, <1>4, FS_AddElement
    <3>8. next_reg' <= Cardinality(S)
      <4>1. Cardinality(active) \in Nat
        BY <3>3, FS_CardinalityType
      <4> QED
        BY <4>1, <2>2, <3>6, <3>7, <1>1
    <3>9. ASSUME NEW u \in S
          PROVE  ranges[u].start <= ranges[v].start /\ ranges[v].start <= ranges[u].end
      <4>1. /\ u \in Vals
            /\ ranges[u].start \in Nat /\ ranges[u].end \in Nat
            /\ ranges[v].start \in Nat /\ ranges[v].end \in Nat
            /\ ranges[v].start <= ranges[v].end
        <5>1. u \in Vals
          BY <3>1, <1>1, <1>4
        <5> QED
          BY <5>1, <1>1, RangeFacts DEF TypeOK
      <4>2. CASE u = v
        BY <4>1, <4>2
      <4>3. CASE u \in active
        <5>1. PassedNow(u) /\ u \notin Expired(v)
          BY <4>3, <3>2, <1>4
        <5>2. ranges[u].start <= ranges[v].start
          BY <4>1, <5>1 DEF Forward
        <5>3. ~(ranges[u].end < ranges[v].start)
          BY <4>3, <5>1 DEF Expired
        <5> QED
          BY <4>1, <5>2, <5>3
      <4> QED
        BY <3>1, <4>2, <4>3
    <3>10. Peak(S)'
      <4>1. S \subseteq Now'
        BY <3>1, <1>3, <1>4
      <4>2. v \in S
        BY <3>1
      <4> QED
        BY <4>1, <4>2, <3>9, <1>1 DEF Peak
    <3>11. S \in SUBSET Vals
      BY <3>1, <1>1, <1>4
    <3> QED
      BY <3>7, <3>8, <3>10, <3>11
  <2> QED
    BY <2>1, <2>2, <1>5
<1>11. OptimalCount'
  <2>1. \A q : Pressure(q)' = Pressure(q)
    BY <1>1, PressureFixed
  <2> SUFFICES ASSUME NEW q \in Prefixes \ NoReuse, Scanned(q)'
               PROVE  alloc_max'[q] = Pressure(q)'
    BY DEF OptimalCount
  <2>2. CASE q = bucket
    <3>1. ((/\ IInv /\ PassedFinite /\ CountIsNext /\ Tight
            /\ bucket \notin NoReuse /\ bucket \notin buckets /\ todo = {})
           => alloc_max[bucket] = Pressure(bucket))'
      BY ScannedIsPressure, PTL
    <3>2. todo' = {}
      BY <2>2, <1>1 DEF Scanned
    <3> QED
      BY <3>1, <3>2, <2>2, <1>1, <1>2, <1>7, <1>9, <1>10
  <2>3. CASE q # bucket
    BY <2>1, <2>3, <1>1, <1>6 DEF Scanned, OptimalCount
  <2> QED
    BY <2>2, <2>3
<1> QED
  BY <1>7, <1>8, <1>9, <1>10, <1>11

\* A stutter.
LEMMA StutterCInv ==
  ASSUME CInv, UNCHANGED vars
  PROVE  CInv'
<1>1. /\ ranges' = ranges /\ buckets' = buckets /\ bucket' = bucket /\ todo' = todo
      /\ active' = active /\ free_list' = free_list /\ next_reg' = next_reg
      /\ alloc' = alloc /\ alloc_max' = alloc_max
  BY DEF vars, scanVars
<1>2. OptimalCount'
  BY <1>1, PressureFixed DEF CInv, OptimalCount, Scanned
<1>3. \A v : PassedNow(v)' <=> PassedNow(v)
  BY <1>1 DEF PassedNow, Passed, Vals
<1>4. Vals' = Vals /\ {v \in Vals : PassedNow(v)}' = {v \in Vals : PassedNow(v)}
  BY <1>1, <1>3 DEF Vals
<1>5. \A S : Peak(S)' <=> Peak(S)
  BY <1>1, <1>4 DEF Peak
<1>6. Tight'
  BY <1>1, <1>4, <1>5 DEF CInv, Tight
<1> QED
  BY <1>1, <1>2, <1>4, <1>6 DEF CInv, Untouched, CountIsNext, Covered, PassedFinite

\* Every step of a scan keeps the count invariant.
LEMMA StepCInv == IInv /\ CInv /\ [Next]_vars => CInv'
<1> SUFFICES ASSUME IInv, CInv, [Next]_vars PROVE CInv'
  OBVIOUS
<1>1. ASSUME NEW p \in buckets, StartBucket(p) PROVE CInv'
  BY <1>1, StartBucketCInv
<1>2. ASSUME NEW v \in todo, Assign(v) PROVE CInv'
  BY <1>2, AssignCInv
<1>3. CASE UNCHANGED vars
  BY <1>3, StutterCInv
<1> QED
  BY <1>1, <1>2, <1>3 DEF Next, ScanNext

\* A class whose registers are reused ends with exactly as many registers as
\* the largest number of its ranges live at one instruction, for any ranges.
THEOREM OptimalCountAlways == Spec => []OptimalCount
<1>1. Init => CInv
  BY ScanInitCInv, LinearScanAssumption DEF Init
<1>2. Spec => []CInv
  BY <1>1, StepCInv, Invariance, PTL DEF Spec
<1>3. CInv => OptimalCount
  BY DEF CInv
<1> QED
  BY <1>2, <1>3, PTL

-----------------------------------------------------------------------------
(***************************************************************************)
(* NoClobber for every kernel whose blocks are in the parser's order.      *)
(***************************************************************************)

Blocks == kernel.blocks
Triples == Nat \X Nat \X Nat

\* The indices of a branch are flat indices.
LEMMA EdgeFacts ==
  ASSUME KernelOK(kernel), NEW b \in 1..Len(Blocks), NEW k \in 1..Len(Blocks[b].to)
  PROVE  /\ Edge(b, k) \in Triples
         /\ Edge(b, k)[3] = Blocks[b].last
         /\ Blocks[b].to[k] \in 1..Len(Blocks)
         /\ Edge(b, k)[1] = Blocks[Blocks[b].to[k]].first
<1>1. Blocks[b].to[k] \in 1..Len(Blocks)
  BY DEF KernelOK, Blocks
<1>2. /\ Blocks[Blocks[b].to[k]].first \in Nat
      /\ Blocks[Blocks[b].to[k]].last \in Nat
      /\ Blocks[b].last \in Nat
  BY <1>1 DEF KernelOK, Blocks
<1> QED
  BY <1>1, <1>2 DEF Edge, Blocks, Triples

\* The backward branches of one block: all of them, each with its last index.
EdgesOfBlock(b, s, upTo) ==
  /\ s \in Seq(Triples)
  /\ \A x \in 1..Len(s) : s[x][3] = Blocks[b].last
  /\ \A k \in 1..upTo : GoesBack(b, k) => \E x \in 1..Len(s) : s[x] = Edge(b, k)

\* One more target of a block: if it goes back, its edge is in the list (emit.py:250-271).
LEMMA AppendEdge ==
  ASSUME KernelOK(kernel), NEW b \in 1..Len(Blocks), NEW s,
         NEW k \in 0..Len(Blocks[b].to), k < Len(Blocks[b].to), EdgesOfBlock(b, s, k)
  PROVE  EdgesOfBlock(b, IF GoesBack(b, k + 1) THEN Append(s, Edge(b, k + 1)) ELSE s, k + 1)
<1>1. k + 1 \in 1..Len(Blocks[b].to)
  BY DEF KernelOK, Blocks
<1> DEFINE e == Edge(b, k + 1)
<1>2. e \in Triples /\ e[3] = Blocks[b].last
  BY <1>1, EdgeFacts
<1>3. CASE GoesBack(b, k + 1)
  <2> DEFINE t == Append(s, e)
  <2>0. s \in Seq(Triples)
    BY DEF EdgesOfBlock
  <2> HIDE DEF e
  <2>1. /\ t \in Seq(Triples) /\ Len(t) = Len(s) + 1 /\ Len(s) \in Nat
        /\ \A x \in 1..Len(s) : t[x] = s[x]
        /\ t[Len(s) + 1] = e
    BY <1>2, <2>0
  <2> HIDE DEF t
  <2>2. \A x \in 1..Len(t) : t[x][3] = Blocks[b].last
    <3> SUFFICES ASSUME NEW x \in 1..Len(t) PROVE t[x][3] = Blocks[b].last
      OBVIOUS
    <3>1. x \in 1..Len(s) \/ x = Len(s) + 1
      BY <2>1
    <3> QED
      BY <3>1, <2>1, <1>2 DEF EdgesOfBlock
  <2>3. ASSUME NEW j \in 1..(k + 1), GoesBack(b, j)
        PROVE  \E x \in 1..Len(t) : t[x] = Edge(b, j)
    <3>1. CASE j = k + 1
      <4>1. Len(s) + 1 \in 1..Len(t)
        BY <2>1
      <4> QED
        BY <4>1, <2>1, <3>1 DEF e
    <3>2. CASE j # k + 1
      <4>1. j \in 1..k
        BY <3>2
      <4>2. PICK x \in 1..Len(s) : s[x] = Edge(b, j)
        BY <4>1, <2>3 DEF EdgesOfBlock
      <4>3. x \in 1..Len(t)
        BY <2>1
      <4> QED
        BY <4>2, <4>3, <2>1
    <3> QED
      BY <3>1, <3>2
  <2> QED
    BY <1>3, <2>1, <2>2, <2>3 DEF EdgesOfBlock, e, t
<1>4. CASE ~GoesBack(b, k + 1)
  <2>1. ASSUME NEW j \in 1..(k + 1), GoesBack(b, j)
        PROVE  j \in 1..k
    <3>1. j # k + 1
      BY <2>1, <1>4
    <3> QED
      BY <3>1
  <2> QED
    BY <1>4, <2>1 DEF EdgesOfBlock
<1> QED
  BY <1>3, <1>4

\* The inner loop of the search for back edges.
LEMMA EdgesOfFacts ==
  ASSUME KernelOK(kernel), NEW b \in 1..Len(Blocks)
  PROVE  EdgesOfBlock(b, EdgesOf(b), Len(Blocks[b].to))
<1> DEFINE m == Len(Blocks[b].to)
           From(f) == f = [k \in 0..m |->
                             IF k = 0 THEN <<>>
                             ELSE IF GoesBack(b, k) THEN Append(f[k - 1], Edge(b, k)) ELSE f[k - 1]]
           from == CHOOSE f : From(f)
           D == [x \in Seq(Triples) \X (1..m) |->
                   IF GoesBack(b, x[2]) THEN Append(x[1], Edge(b, x[2])) ELSE x[1]]
<1>1. m \in Nat
  BY DEF KernelOK, Blocks
<1>2. \E f : From(f)
  <2>1. \A k \in 1..m : Edge(b, k) \in Triples
    BY EdgeFacts
  <2>2. <<>> \in Seq(Triples)
    OBVIOUS
  <2>3. D \in [Seq(Triples) \X (1..m) -> Seq(Triples)]
    <3> SUFFICES ASSUME NEW x \in Seq(Triples) \X (1..m)
                 PROVE  (IF GoesBack(b, x[2]) THEN Append(x[1], Edge(b, x[2])) ELSE x[1])
                           \in Seq(Triples)
      OBVIOUS
    <3>1. x[1] \in Seq(Triples) /\ x[2] \in 1..m
      OBVIOUS
    <3>2. Append(x[1], Edge(b, x[2])) \in Seq(Triples)
      BY <2>1, <3>1
    <3> QED
      BY <3>1, <3>2
  <2> HIDE DEF D
  <2>4. PICK g \in [0..m -> Seq(Triples)] : Recursive(m, <<>>, D, g)
    BY <1>1, <2>2, <2>3, RecursionExists
  <2>5. ASSUME NEW i \in 0..m
        PROVE  g[i]
             = (IF i = 0 THEN <<>>
                ELSE IF GoesBack(b, i) THEN Append(g[i - 1], Edge(b, i)) ELSE g[i - 1])
    <3>1. CASE i # 0
      <4>1. i \in 1..m /\ g[i - 1] \in Seq(Triples)
        BY <3>1, <1>1
      <4> QED
        BY <4>1, <3>1, <2>4 DEF D, Recursive
    <3> QED
      BY <3>1, <2>4 DEF Recursive
  <2>6. From(g)
    BY <2>4, <2>5
  <2> QED
    BY <2>6
<1>3. From(from)
  BY <1>2
<1>4. EdgesOf(b) = from[m]
  BY DEF EdgesOf, Blocks
<1> HIDE DEF from
<1> DEFINE Good == {k \in 0..m : EdgesOfBlock(b, from[k], k)}
<1>5. 0 \in Good
  <2>1. 0 \in 0..m /\ from[0] = <<>>
    BY <1>1, <1>3
  <2>2. EdgesOfBlock(b, <<>>, 0)
    BY DEF EdgesOfBlock
  <2> QED
    BY <2>1, <2>2
<1>6. \A k \in 0..m : k \in Good /\ k < m => k + 1 \in Good
  <2> SUFFICES ASSUME NEW k \in 0..m, k \in Good, k < m PROVE k + 1 \in Good
    OBVIOUS
  <2>1. k + 1 \in 0..m /\ k + 1 # 0 /\ (k + 1) - 1 = k
    BY <1>1
  <2>2. from[k + 1] = IF GoesBack(b, k + 1) THEN Append(from[k], Edge(b, k + 1)) ELSE from[k]
    BY <2>1, <1>3
  <2>3. EdgesOfBlock(b, from[k + 1], k + 1)
    BY <2>2, AppendEdge
  <2> QED
    BY <2>1, <2>3
<1> HIDE DEF Good
<1>7. 0..m \subseteq Good
  BY <1>1, <1>5, <1>6, UpTo
<1> QED
  BY <1>1, <1>7, <1>4 DEF Good

\* Blocks later in the list are later in the flat order.
LEMMA BlocksAscend ==
  ASSUME KernelOK(kernel), NEW b \in 1..Len(Blocks), NEW c \in 1..Len(Blocks), b < c
  PROVE  Blocks[b].last < Blocks[c].first
<1> DEFINE m == Len(Blocks)
           Good == {n \in 0..m : \A i \in 1..(n - 1) : Blocks[i].last < Blocks[n].first}
<1>1. /\ m \in Nat
      /\ \A i \in 1..m : /\ Blocks[i].first \in Nat /\ Blocks[i].last \in Nat
                         /\ Blocks[i].first <= Blocks[i].last
      /\ \A i \in 2..m : Blocks[i].first = Blocks[i - 1].last + 1
  BY DEF KernelOK, Blocks
<1> HIDE DEF m
<1>2. 0 \in Good
  BY <1>1
<1>3. \A n \in 0..m : n \in Good /\ n < m => n + 1 \in Good
  <2> SUFFICES ASSUME NEW n \in 0..m, n \in Good, n < m
               PROVE  n + 1 \in Good
    OBVIOUS
  <2> SUFFICES ASSUME NEW i \in 1..((n + 1) - 1)
               PROVE  Blocks[i].last < Blocks[n + 1].first
    BY <1>1
  <2>1. n \in 1..m /\ i \in 1..m /\ n + 1 \in 2..m /\ (n + 1) - 1 = n
    BY <1>1
  <2>2. Blocks[n + 1].first = Blocks[n].last + 1
    BY <2>1, <1>1
  <2>3. CASE i = n
    BY <2>1, <2>2, <2>3, <1>1
  <2>4. CASE i # n
    <3>1. i \in 1..(n - 1)
      BY <2>1, <2>4
    <3>2. Blocks[i].last < Blocks[n].first
      BY <3>1
    <3> QED
      BY <3>2, <2>1, <2>2, <1>1
  <2> QED
    BY <2>3, <2>4
<1> HIDE DEF Good
<1>4. 0..m \subseteq Good
  BY <1>1, <1>2, <1>3, UpTo
<1>5. c \in 0..m /\ b \in 1..(c - 1)
  BY <1>1 DEF m
<1>6. c \in Good
  BY <1>4, <1>5
<1> QED
  BY <1>5, <1>6 DEF Good

\* The backward branches of the first blocks, by growing last index.
EdgesUpTo(s, upTo) ==
  /\ s \in Seq(Triples)
  /\ \A x \in 1..Len(s) : \E c \in 1..upTo : s[x][3] = Blocks[c].last
  /\ \A x, y \in 1..Len(s) : x <= y => s[x][3] <= s[y][3]
  /\ \A b \in 1..upTo : \A k \in 1..Len(Blocks[b].to) :
       GoesBack(b, k) => \E x \in 1..Len(s) : s[x] = Edge(b, k)

\* The edges of the first n blocks and those of the next are those of the first n + 1.
LEMMA JoinEdges ==
  ASSUME KernelOK(kernel), NEW n \in 0..Len(Blocks), n < Len(Blocks), NEW s,
         EdgesUpTo(s, n)
  PROVE  EdgesUpTo(s \o EdgesOf(n + 1), n + 1)
<1>1. n + 1 \in 1..Len(Blocks)
  BY DEF KernelOK, Blocks
<1> DEFINE e == EdgesOf(n + 1)
           t == s \o e
<1>2. EdgesOfBlock(n + 1, e, Len(Blocks[n + 1].to))
  BY <1>1, EdgesOfFacts
<1>3. /\ s \in Seq(Triples) /\ e \in Seq(Triples)
  BY <1>2 DEF EdgesUpTo, EdgesOfBlock
<1> HIDE DEF e
<1>4. /\ t \in Seq(Triples) /\ Len(t) = Len(s) + Len(e) /\ Len(s) \in Nat /\ Len(e) \in Nat
      /\ \A x \in 1..Len(s) : t[x] = s[x]
      /\ \A x \in 1..Len(e) : t[Len(s) + x] = e[x]
  BY <1>3
<1> HIDE DEF t
<1>5. ASSUME NEW x \in 1..Len(t), x > Len(s)
      PROVE  t[x][3] = Blocks[n + 1].last
  <2>1. x - Len(s) \in 1..Len(e) /\ Len(s) + (x - Len(s)) = x
    BY <1>4, <1>5
  <2>2. t[x] = e[x - Len(s)]
    BY <2>1, <1>4
  <2> QED
    BY <2>1, <2>2, <1>2 DEF EdgesOfBlock
<1>6. ASSUME NEW x \in 1..Len(t), ~(x > Len(s))
      PROVE  x \in 1..Len(s) /\ t[x] = s[x]
  BY <1>4, <1>6
<1>7. ASSUME NEW x \in 1..Len(t)
      PROVE  \E c \in 1..(n + 1) : t[x][3] = Blocks[c].last
  <2>1. CASE x > Len(s)
    <3>1. n + 1 \in 1..(n + 1)
      BY <1>1
    <3> QED
      BY <2>1, <3>1, <1>5
  <2>2. CASE ~(x > Len(s))
    <3>1. PICK c \in 1..n : s[x][3] = Blocks[c].last
      BY <2>2, <1>6 DEF EdgesUpTo
    <3>2. c \in 1..(n + 1)
      OBVIOUS
    <3> QED
      BY <3>1, <3>2, <2>2, <1>6
  <2> QED
    BY <2>1, <2>2
<1>8. ASSUME NEW x \in 1..Len(t), NEW y \in 1..Len(t), x <= y
      PROVE  t[x][3] <= t[y][3]
  <2>0. \A c \in 1..Len(Blocks) :
          Blocks[c].first \in Nat /\ Blocks[c].last \in Nat /\ Blocks[c].first <= Blocks[c].last
    BY DEF KernelOK, Blocks
  <2>1. CASE x > Len(s)
    <3>1. y > Len(s)
      BY <2>1, <1>8, <1>4
    <3> QED
      BY <2>1, <3>1, <1>5, <2>0, <1>1
  <2>2. CASE ~(x > Len(s)) /\ y > Len(s)
    <3>1. PICK c \in 1..n : s[x][3] = Blocks[c].last
      BY <2>2, <1>6 DEF EdgesUpTo
    <3>2. c \in 1..Len(Blocks) /\ c < n + 1
      BY <1>1
    <3>3. Blocks[c].last < Blocks[n + 1].first
      BY <3>2, <1>1, BlocksAscend
    <3>4. t[x][3] = Blocks[c].last /\ t[y][3] = Blocks[n + 1].last
      BY <3>1, <2>2, <1>5, <1>6
    <3> QED
      BY <3>2, <3>3, <3>4, <2>0, <1>1
  <2>3. CASE ~(x > Len(s)) /\ ~(y > Len(s))
    BY <2>3, <1>6, <1>8 DEF EdgesUpTo
  <2> QED
    BY <2>1, <2>2, <2>3
<1>9. ASSUME NEW b \in 1..(n + 1), NEW k \in 1..Len(Blocks[b].to), GoesBack(b, k)
      PROVE  \E x \in 1..Len(t) : t[x] = Edge(b, k)
  <2>1. CASE b = n + 1
    <3>1. PICK x \in 1..Len(e) : e[x] = Edge(b, k)
      BY <2>1, <1>9, <1>2 DEF EdgesOfBlock
    <3>2. Len(s) + x \in 1..Len(t) /\ t[Len(s) + x] = e[x]
      BY <1>4
    <3> QED
      BY <3>1, <3>2
  <2>2. CASE b # n + 1
    <3>1. b \in 1..n
      BY <2>2
    <3>2. PICK x \in 1..Len(s) : s[x] = Edge(b, k)
      BY <3>1, <1>9 DEF EdgesUpTo
    <3>3. x \in 1..Len(t) /\ t[x] = s[x]
      BY <1>4
    <3> QED
      BY <3>2, <3>3
  <2> QED
    BY <2>1, <2>2
<1> QED
  BY <1>4, <1>7, <1>8, <1>9 DEF EdgesUpTo, t, e

\* The outer loop.
LEMMA BackEdgesFacts ==
  ASSUME KernelOK(kernel)
  PROVE  EdgesUpTo(BackEdges, Len(Blocks))
<1> DEFINE m == Len(Blocks)
           From(f) == f = [b \in 0..m |-> IF b = 0 THEN <<>> ELSE f[b - 1] \o EdgesOf(b)]
           upTo == CHOOSE f : From(f)
           D == [x \in Seq(Triples) \X (1..m) |-> x[1] \o EdgesOf(x[2])]
<1>1. m \in Nat
  BY DEF KernelOK, Blocks
<1>2. \E f : From(f)
  <2>1. \A b \in 1..m : EdgesOf(b) \in Seq(Triples)
    BY EdgesOfFacts DEF EdgesOfBlock
  <2>2. <<>> \in Seq(Triples)
    OBVIOUS
  <2>3. D \in [Seq(Triples) \X (1..m) -> Seq(Triples)]
    <3> SUFFICES ASSUME NEW x \in Seq(Triples) \X (1..m)
                 PROVE  x[1] \o EdgesOf(x[2]) \in Seq(Triples)
      OBVIOUS
    <3>1. x[1] \in Seq(Triples) /\ x[2] \in 1..m
      OBVIOUS
    <3> QED
      BY <2>1, <3>1
  <2> HIDE DEF D
  <2>4. PICK g \in [0..m -> Seq(Triples)] : Recursive(m, <<>>, D, g)
    BY <1>1, <2>2, <2>3, RecursionExists
  <2>5. ASSUME NEW i \in 0..m
        PROVE  g[i] = IF i = 0 THEN <<>> ELSE g[i - 1] \o EdgesOf(i)
    <3>1. CASE i # 0
      <4>1. i \in 1..m /\ g[i - 1] \in Seq(Triples)
        BY <3>1, <1>1
      <4> QED
        BY <4>1, <3>1, <2>4 DEF D, Recursive
    <3> QED
      BY <3>1, <2>4 DEF Recursive
  <2>6. From(g)
    BY <2>4, <2>5
  <2> QED
    BY <2>6
<1>3. From(upTo)
  BY <1>2
<1>4. BackEdges = upTo[m]
  BY DEF BackEdges, Blocks
<1> HIDE DEF upTo
<1> DEFINE Good == {n \in 0..m : EdgesUpTo(upTo[n], n)}
<1>5. 0 \in Good
  <2>1. 0 \in 0..m /\ upTo[0] = <<>>
    BY <1>1, <1>3
  <2>2. EdgesUpTo(<<>>, 0)
    BY DEF EdgesUpTo
  <2> QED
    BY <2>1, <2>2
<1>6. \A n \in 0..m : n \in Good /\ n < m => n + 1 \in Good
  <2> SUFFICES ASSUME NEW n \in 0..m, n \in Good, n < m PROVE n + 1 \in Good
    OBVIOUS
  <2>1. n + 1 \in 0..m /\ n + 1 # 0 /\ (n + 1) - 1 = n
    BY <1>1
  <2>2. upTo[n + 1] = upTo[n] \o EdgesOf(n + 1)
    BY <2>1, <1>3
  <2>3. EdgesUpTo(upTo[n + 1], n + 1)
    BY <2>2, JoinEdges
  <2> QED
    BY <2>1, <2>3
<1> HIDE DEF Good
<1>7. 0..m \subseteq Good
  BY <1>1, <1>5, <1>6, UpTo
<1> QED
  BY <1>1, <1>7, <1>4 DEF Good

-----------------------------------------------------------------------------
(***************************************************************************)
(* LiveIn is the least set with the reads of the value that is closed      *)
(* under going back over an instruction that does not write it.            *)
(***************************************************************************)
\* The flat indices.
LEMMA PointsFinite ==
  ASSUME KernelOK(kernel)
  PROVE  /\ FlatLen \in Nat \ {0}
         /\ Points \subseteq Nat
         /\ IsFiniteSet(Points) /\ Cardinality(Points) <= FlatLen
<1>1. FlatLen \in Nat \ {0}
  BY DEF KernelOK, FlatLen
<1>2. IsFiniteSet(0..(FlatLen - 1)) /\ Cardinality(0..(FlatLen - 1)) = (FlatLen - 1) - 0 + 1
  BY <1>1, FS_Interval
<1> QED
  BY <1>1, <1>2 DEF Points

\* The rounds LiveIn is computed by.
LEMMA LiveInRounds ==
  ASSUME KernelOK(kernel), NEW v
  PROVE  \E g \in [0..FlatLen -> SUBSET Points] :
           /\ g[0] = Reads(v)
           /\ \A n \in 1..FlatLen : g[n] = g[n - 1] \union Back(v, g[n - 1])
           /\ LiveIn(v) = g[FlatLen]
<1> DEFINE Grown(f) == f = [n \in 0..FlatLen |->
                              IF n = 0 THEN Reads(v)
                              ELSE LET prev == f[n - 1] IN prev \union Back(v, prev)]
           grown == CHOOSE f : Grown(f)
           D == [x \in (SUBSET Points) \X (1..FlatLen) |-> x[1] \union Back(v, x[1])]
<1>1. FlatLen \in Nat
  BY PointsFinite
<1>2. ASSUME NEW X \in SUBSET Points
      PROVE  X \union Back(v, X) \in SUBSET Points
  BY DEF Back
<1>3. Reads(v) \in SUBSET Points
  BY DEF Reads
<1>4. D \in [(SUBSET Points) \X (1..FlatLen) -> SUBSET Points]
  BY <1>2
<1>5. PICK g \in [0..FlatLen -> SUBSET Points] : Recursive(FlatLen, Reads(v), D, g)
  <2> HIDE DEF D
  <2> QED
    BY <1>1, <1>3, <1>4, RecursionExists
<1>6. ASSUME NEW n \in 1..FlatLen
      PROVE  g[n] = g[n - 1] \union Back(v, g[n - 1])
  <2>1. n - 1 \in 0..FlatLen /\ n \in 0..FlatLen /\ n # 0
    BY <1>1
  <2>2. g[n - 1] \in SUBSET Points
    BY <2>1
  <2> QED
    BY <2>1, <2>2, <1>5 DEF Recursive
<1>7. g[0] = Reads(v)
  <2>1. 0 \in 0..FlatLen
    BY <1>1
  <2> HIDE DEF D
  <2> QED
    BY <2>1, <1>5 DEF Recursive
<1>8. Grown(g)
  <2>1. ASSUME NEW n \in 0..FlatLen
        PROVE  g[n] = IF n = 0 THEN Reads(v) ELSE g[n - 1] \union Back(v, g[n - 1])
    <3>1. CASE n = 0
      BY <3>1, <1>7
    <3>2. CASE n # 0
      <4>1. n \in 1..FlatLen /\ n - 1 \in 0..FlatLen
        BY <3>2, <1>1
      <4>2. g[n - 1] \in SUBSET Points
        BY <4>1
      <4> QED
        BY <4>1, <4>2, <3>2, <1>6
    <3> QED
      BY <3>1, <3>2
  <2> QED
    BY <2>1
<1>9. Grown(grown)
  <2> HIDE DEF Grown
  <2>1. \E f : Grown(f)
    BY <1>8
  <2> QED
    BY <2>1
<1>10. LiveIn(v) = grown[FlatLen]
  BY DEF LiveIn
<1> HIDE DEF grown
<1>11. ASSUME NEW n \in 1..FlatLen, grown[n - 1] \in SUBSET Points
       PROVE  grown[n] = grown[n - 1] \union Back(v, grown[n - 1])
  <2>1. n \in 0..FlatLen /\ n # 0
    BY <1>1
  <2> QED
    BY <2>1, <1>9
<1>12. grown[0] = Reads(v)
  BY <1>1, <1>9
<1> DEFINE Good == {n \in 0..FlatLen : grown[n] = g[n]}
<1>13. 0 \in Good
  BY <1>1, <1>7, <1>12
<1>14. \A n \in 0..FlatLen : n \in Good /\ n < FlatLen => n + 1 \in Good
  <2> SUFFICES ASSUME NEW n \in 0..FlatLen, n \in Good, n < FlatLen
               PROVE  n + 1 \in Good
    OBVIOUS
  <2>1. n + 1 \in 1..FlatLen /\ n + 1 \in 0..FlatLen /\ (n + 1) - 1 = n
    BY <1>1
  <2>2. grown[n] \in SUBSET Points
    OBVIOUS
  <2>3. grown[n + 1] = grown[n] \union Back(v, grown[n])
    BY <2>1, <2>2, <1>11
  <2>4. g[n + 1] = g[n] \union Back(v, g[n])
    BY <2>1, <1>6
  <2> QED
    BY <2>1, <2>3, <2>4
<1> HIDE DEF Good
<1>15. 0..FlatLen \subseteq Good
  BY <1>1, <1>13, <1>14, UpTo
<1>16. grown[FlatLen] = g[FlatLen]
  BY <1>1, <1>15 DEF Good
<1> QED
  BY <1>6, <1>7, <1>10, <1>16

\* The rounds suffice: LiveIn is closed.
LEMMA LiveInClosed ==
  ASSUME KernelOK(kernel), NEW v
  PROVE  /\ LiveIn(v) \subseteq Points
         /\ Reads(v) \subseteq LiveIn(v)
         /\ Back(v, LiveIn(v)) \subseteq LiveIn(v)
<1>1. PICK g \in [0..FlatLen -> SUBSET Points] :
        /\ g[0] = Reads(v)
        /\ \A n \in 1..FlatLen : g[n] = g[n - 1] \union Back(v, g[n - 1])
        /\ LiveIn(v) = g[FlatLen]
  BY LiveInRounds
<1> DEFINE F == [X \in SUBSET Points |-> X \union Back(v, X)]
<1>2. FlatLen \in Nat /\ IsFiniteSet(Points) /\ Cardinality(Points) <= FlatLen
  BY PointsFinite
<1>3. \A X \in SUBSET Points : X \union Back(v, X) \in SUBSET Points
  BY DEF Back
<1>4. F \in [SUBSET Points -> SUBSET Points] /\ \A X \in SUBSET Points : X \subseteq F[X]
  BY <1>3
<1>5. \A n \in 1..FlatLen : g[n] = F[g[n - 1]]
  <2> SUFFICES ASSUME NEW n \in 1..FlatLen PROVE g[n] = F[g[n - 1]]
    OBVIOUS
  <2>1. n - 1 \in 0..FlatLen
    BY <1>2
  <2>2. g[n - 1] \in SUBSET Points
    BY <2>1
  <2> QED
    BY <2>2, <1>1
<1>6. F[g[FlatLen]] = g[FlatLen]
  <2> HIDE DEF F
  <2> QED
    BY <1>2, <1>4, <1>5, FixpointReached
<1>7. LiveIn(v) \in SUBSET Points
  BY <1>1, <1>2
<1>8. LiveIn(v) \union Back(v, LiveIn(v)) = LiveIn(v)
  BY <1>1, <1>6, <1>7
<1> DEFINE Good == {n \in 0..FlatLen : Reads(v) \subseteq g[n]}
<1>9. 0 \in Good
  BY <1>1, <1>2
<1>10. \A n \in 0..FlatLen : n \in Good /\ n < FlatLen => n + 1 \in Good
  <2> SUFFICES ASSUME NEW n \in 0..FlatLen, n \in Good, n < FlatLen PROVE n + 1 \in Good
    OBVIOUS
  <2>1. n + 1 \in 1..FlatLen /\ n + 1 \in 0..FlatLen /\ (n + 1) - 1 = n
    BY <1>2
  <2>2. g[n + 1] = g[n] \union Back(v, g[n])
    BY <2>1, <1>1
  <2> QED
    BY <2>1, <2>2
<1> HIDE DEF Good
<1>11. FlatLen \in Good
  <2>1. 0..FlatLen \subseteq Good
    BY <1>2, <1>9, <1>10, UpTo
  <2> QED
    BY <2>1, <1>2
<1> QED
  BY <1>1, <1>7, <1>8, <1>11 DEF Good

\* A set with the reads that contains every point of LiveIn that leads to it
\* contains LiveIn.
LEMMA LiveInLeast ==
  ASSUME KernelOK(kernel), NEW v, NEW X, Reads(v) \subseteq X,
         \A i \in LiveIn(v) : i \in Back(v, X \cap LiveIn(v)) => i \in X
  PROVE  LiveIn(v) \subseteq X
<1>1. PICK g \in [0..FlatLen -> SUBSET Points] :
        /\ g[0] = Reads(v)
        /\ \A n \in 1..FlatLen : g[n] = g[n - 1] \union Back(v, g[n - 1])
        /\ LiveIn(v) = g[FlatLen]
  BY LiveInRounds
<1>2. FlatLen \in Nat
  BY PointsFinite
<1>3. /\ LiveIn(v) \subseteq Points
      /\ Reads(v) \subseteq LiveIn(v)
      /\ Back(v, LiveIn(v)) \subseteq LiveIn(v)
  BY LiveInClosed
<1> DEFINE Good == {n \in 0..FlatLen : g[n] \subseteq X \cap LiveIn(v)}
<1>4. 0 \in Good
  BY <1>1, <1>2, <1>3
<1>5. \A n \in 0..FlatLen : n \in Good /\ n < FlatLen => n + 1 \in Good
  <2> SUFFICES ASSUME NEW n \in 0..FlatLen, n \in Good, n < FlatLen PROVE n + 1 \in Good
    OBVIOUS
  <2>1. n + 1 \in 1..FlatLen /\ n + 1 \in 0..FlatLen /\ (n + 1) - 1 = n
    BY <1>2
  <2>2. g[n + 1] = g[n] \union Back(v, g[n])
    BY <2>1, <1>1
  <2>3. Back(v, g[n]) \subseteq Back(v, LiveIn(v)) /\ Back(v, g[n]) \subseteq Back(v, X \cap LiveIn(v))
    BY DEF Back
  <2>4. Back(v, g[n]) \subseteq X \cap LiveIn(v)
    BY <2>3, <1>3
  <2> QED
    BY <2>1, <2>2, <2>4
<1> HIDE DEF Good
<1>6. FlatLen \in Good
  <2>1. 0..FlatLen \subseteq Good
    BY <1>2, <1>4, <1>5, UpTo
  <2> QED
    BY <2>1, <1>2
<1> QED
  BY <1>1, <1>6 DEF Good

-----------------------------------------------------------------------------
(***************************************************************************)
(* The edges of the flat kernel.                                           *)
(***************************************************************************)
LEMMA BlockFacts ==
  ASSUME KernelOK(kernel)
  PROVE  /\ Len(Blocks) \in Nat \ {0}
         /\ \A b \in 1..Len(Blocks) :
              /\ Blocks[b].first \in Nat /\ Blocks[b].last \in Nat
              /\ Blocks[b].first \in Points /\ Blocks[b].last \in Points
              /\ Blocks[b].first <= Blocks[b].last
              /\ Len(Blocks[b].to) \in Nat
              /\ \A k \in 1..Len(Blocks[b].to) : Blocks[b].to[k] \in 1..Len(Blocks)
         /\ Blocks[Len(Blocks)].last = FlatLen - 1
         /\ \A b \in 2..Len(Blocks) : Blocks[b].first = Blocks[b - 1].last + 1
  BY DEF KernelOK, Blocks, Points, FlatLen

\* After the last instruction of a block comes the first of one of its targets.
LEMMA SuccessorsOfLast ==
  ASSUME KernelOK(kernel), NEW b \in 1..Len(Blocks)
  PROVE  Successors(Blocks[b].last)
           = {Blocks[Blocks[b].to[k]].first : k \in 1..Len(Blocks[b].to)}
<1> DEFINE c == CHOOSE x \in 1..Len(Blocks) : Blocks[x].last = Blocks[b].last
<1>1. c \in 1..Len(Blocks) /\ Blocks[c].last = Blocks[b].last
  OBVIOUS
<1>2. c = b
  <2> HIDE DEF c
  <2>1. ASSUME c < b PROVE FALSE
    BY <2>1, <1>1, BlocksAscend, BlockFacts
  <2>2. ASSUME b < c PROVE FALSE
    BY <2>2, <1>1, BlocksAscend, BlockFacts
  <2>3. c \in Int /\ b \in Int
    BY <1>1
  <2> QED
    BY <2>1, <2>2, <2>3
<1> QED
  BY <1>2 DEF Successors, Blocks

\* Elsewhere the next instruction in the list is the next executed.
LEMMA SuccessorInside ==
  ASSUME NEW i, \A b \in 1..Len(Blocks) : Blocks[b].last # i
  PROVE  Successors(i) = {i + 1}
  BY DEF Successors, Blocks

\* With the blocks in order every point but the first follows an earlier one.
LEMMA Predecessor ==
  ASSUME KernelOK(kernel), BlocksInOrder, NEW j \in Points, j # 0
  PROVE  \E i \in Points : i < j /\ j \in Successors(i)
<1>1. /\ j \in Nat /\ j - 1 \in Points /\ j - 1 < j /\ FlatLen \in Nat /\ j <= FlatLen - 1
  BY PointsFinite DEF Points
<1>2. CASE \A b \in 1..Len(Blocks) : Blocks[b].last # j - 1
  <2>1. Successors(j - 1) = {(j - 1) + 1}
    BY <1>2, SuccessorInside
  <2>2. j \in Successors(j - 1)
    BY <2>1, <1>1
  <2> QED
    BY <1>1, <2>2
<1>3. ASSUME NEW x \in 1..Len(Blocks), Blocks[x].last = j - 1
      PROVE  \E i \in Points : i < j /\ j \in Successors(i)
  <2>1. x # Len(Blocks)
    BY <1>1, <1>3, BlockFacts
  <2>2. x + 1 \in 2..Len(Blocks) /\ (x + 1) - 1 = x
    BY <2>1, BlockFacts
  <2>3. Blocks[x + 1].first = j
    BY <2>2, <1>1, <1>3, BlockFacts
  <2>4. PICK c \in 1..x : \E k \in 1..Len(Blocks[c].to) : Blocks[c].to[k] = x + 1
    BY <2>2 DEF BlocksInOrder, Blocks
  <2>5. c \in 1..Len(Blocks)
    BY BlockFacts
  <2>6. j \in Successors(Blocks[c].last)
    BY <2>3, <2>4, <2>5, SuccessorsOfLast
  <2>7. Blocks[c].last < j
    <3>1. CASE c = x
      BY <3>1, <1>1, <1>3
    <3>2. CASE c # x
      <4>1. c < x
        BY <3>2
      <4>2. Blocks[c].last < Blocks[x].first
        BY <4>1, <2>5, BlocksAscend
      <4>3. /\ Blocks[c].last \in Nat /\ Blocks[x].first \in Nat /\ Blocks[x].last \in Nat
            /\ Blocks[x].first <= Blocks[x].last
        BY <2>5, BlockFacts
      <4> QED
        BY <4>2, <4>3, <1>1, <1>3
    <3> QED
      BY <3>1, <3>2
  <2> QED
    BY <2>5, <2>6, <2>7, BlockFacts
<1> QED
  BY <1>2, <1>3

\* A step backwards is along one of the back edges.
LEMMA BackwardStep ==
  ASSUME KernelOK(kernel), NEW i \in Points, NEW j \in Successors(i), j <= i
  PROVE  \E x \in 1..Len(BackEdges) : BackEdges[x][1] = j /\ BackEdges[x][3] = i
<1>1. PICK b \in 1..Len(Blocks) : Blocks[b].last = i
  <2> SUFFICES ASSUME \A b \in 1..Len(Blocks) : Blocks[b].last # i PROVE FALSE
    OBVIOUS
  <2>1. j = i + 1 /\ i \in Nat
    BY SuccessorInside, PointsFinite
  <2> QED
    BY <2>1
<1>2. PICK k \in 1..Len(Blocks[b].to) : j = Blocks[Blocks[b].to[k]].first
  BY <1>1, SuccessorsOfLast
<1> DEFINE t == Blocks[b].to[k]
<1>3. /\ t \in 1..Len(Blocks)
      /\ Edge(b, k)[3] = i /\ Edge(b, k)[1] = j
  BY <1>1, <1>2, EdgeFacts
<1>4. ~(b < t)
  <2> SUFFICES ASSUME b < t PROVE FALSE
    OBVIOUS
  <2>1. Blocks[b].last < Blocks[t].first
    BY <1>3, BlocksAscend
  <2> QED
    BY <2>1, <1>1, <1>2, <1>3, BlockFacts
<1>5. GoesBack(b, k)
  <2>1. CASE t = b
    BY <2>1, <1>2, <1>3, BlockFacts DEF GoesBack, Blocks
  <2>2. CASE t # b
    <3>1. t < b
      BY <2>2, <1>3, <1>4
    <3>2. Blocks[t].last < Blocks[b].first
      BY <3>1, <1>3, BlocksAscend
    <3>3. Blocks[t].first <= Blocks[b].first
      BY <3>2, <1>3, BlockFacts
    <3> QED
      BY <3>3, <1>2, <1>3 DEF GoesBack, Blocks
  <2> QED
    BY <2>1, <2>2
<1>6. PICK x \in 1..Len(BackEdges) : BackEdges[x] = Edge(b, k)
  BY <1>5, BackEdgesFacts DEF EdgesUpTo
<1> QED
  BY <1>3, <1>6

-----------------------------------------------------------------------------
(***************************************************************************)
(* The invariant of the walk.  What the extension loop keeps is Followed:  *)
(* a range that reaches over the header of an edge already taken reaches   *)
(* its source.  It is inductive because the edges come by growing source,  *)
(* so stretching a range for a later edge never takes it off an earlier    *)
(* one.                                                                    *)
(***************************************************************************)
Walked ==
  /\ live_start \in [Values -> Nat]
  /\ live_end \in [Values -> Nat]
  /\ \A v \in Values : live_start[v] <= live_end[v]
  /\ \A v \in kernel.decls : live_start[v] = 0
  /\ \A v \in Values : \A i \in Points :
       v \in Mentioned(i) => live_start[v] <= i /\ i <= live_end[v]

Followed ==
  /\ edge \in Nat \ {0}
  /\ \A x \in 1..Len(BackEdges) : x < edge =>
       \A v \in Values :
         (live_start[v] <= BackEdges[x][1] /\ BackEdges[x][1] <= live_end[v])
            => BackEdges[x][3] <= live_end[v]

NotWalked ==
  /\ edge = 1
  /\ ranges = NoRange
  /\ live_start = [v \in kernel.decls |-> 0]
  /\ live_end = [v \in kernel.decls |-> 0]

NotScanned ==
  /\ buckets = {}
  /\ bucket \in Prefixes
  /\ todo = {}
  /\ active = {}
  /\ free_list = {}
  /\ next_reg = 0
  /\ alloc_max = [p \in Prefixes |-> 0]

Grouped ==
  /\ pos = FlatLen
  /\ edge > Len(BackEdges)
  /\ ranges = [v \in Values |-> [prefix |-> kernel.class[v], start |-> live_start[v],
                                 end |-> live_end[v]]]

AInv ==
  /\ KernelOK(kernel)
  /\ pos \in {0, FlatLen}
  /\ pos = 0 => NotWalked
  /\ pos = FlatLen => Walked /\ Followed
  /\ ranges = NoRange => NotScanned
  /\ ranges # NoRange => Grouped
  /\ IInv

\* Nothing the walk computes from the kernel changes while the kernel does not.
LEMMA KernelFixed ==
  ASSUME kernel' = kernel
  PROVE  /\ FlatLen' = FlatLen /\ Points' = Points /\ Values' = Values
         /\ Blocks' = Blocks /\ BackEdges' = BackEdges
         /\ \A i : Mentioned(i)' = Mentioned(i)
         /\ FromParser' = FromParser
<1>1. FlatLen' = FlatLen /\ Blocks' = Blocks
  BY DEF FlatLen, Blocks
<1>2. \A i : InstAt(i)' = InstAt(i)
  BY DEF InstAt
<1>3. \A i : Mentioned(i)' = Mentioned(i)
  BY <1>2 DEF Mentioned
<1>4. Points' = Points
  BY <1>1 DEF Points
<1>5. Values' = Values
  BY <1>3, <1>4 DEF Values
<1>6. \A b, k : Edge(b, k)' = Edge(b, k)
  BY DEF Edge
<1>7. \A b, k : GoesBack(b, k)' = GoesBack(b, k)
  BY <1>6 DEF GoesBack
<1>8. \A b : EdgesOf(b)' = EdgesOf(b)
  BY <1>6, <1>7 DEF EdgesOf
<1>9. BackEdges' = BackEdges
  BY <1>8 DEF BackEdges
<1>10. \A i : Successors(i)' = Successors(i)
  BY DEF Successors
<1>11. \A v : LiveIn(v)' = LiveIn(v)
  <2>1. \A v : Reads(v)' = Reads(v)
    BY <1>2, <1>4 DEF Reads
  <2>2. \A v, S : Back(v, S)' = Back(v, S)
    BY <1>2, <1>4, <1>10 DEF Back
  <2> QED
    BY <2>1, <2>2, <1>1 DEF LiveIn
<1>12. BlocksInOrder' = BlocksInOrder
  BY DEF BlocksInOrder
<1>13. ReadsAreDefined' = ReadsAreDefined
  BY <1>5, <1>11 DEF ReadsAreDefined
<1> QED
  BY <1>1, <1>3, <1>4, <1>5, <1>9, <1>12, <1>13 DEF FromParser

\* The declared and the mentioned values.
LEMMA ValuesFacts ==
  ASSUME KernelOK(kernel)
  PROVE  /\ \A v \in Values : kernel.class[v] \in Prefixes
         /\ kernel.decls \subseteq Values
         /\ \A v \in Values : v \notin kernel.decls => \E i \in Points : v \in Mentioned(i)
         /\ \A i \in Points : Mentioned(i) \subseteq Values
<1>1. \A i \in Points : i + 1 \in 1..Len(kernel.flat)
  BY PointsFinite DEF Points, FlatLen
<1>2. Values \subseteq kernel.decls \union
                   UNION {kernel.flat[i].def \union kernel.flat[i].use : i \in 1..Len(kernel.flat)}
  BY <1>1 DEF Values, Mentioned, InstAt
<1>3. \A v \in Values : kernel.class[v] \in Prefixes
  BY <1>2 DEF KernelOK
<1> QED
  BY <1>3 DEF Values

\* Before the walk no range is set and the scan has nothing to do.
LEMMA AllocInitAInv == AllocInit => AInv
<1> SUFFICES ASSUME AllocInit PROVE AInv
  OBVIOUS
<1> USE DEF AllocInit, AllocStart
<1>1. KernelOK(kernel)
  BY RegAllocAssumption
<1>2. bucket \in Prefixes
  BY RegAllocAssumption
<1>3. Vals = {} /\ IsRangeMap(ranges)
  BY DEF Vals, NoRange, IsRangeMap
<1>4. ScanInit
  BY <1>2, <1>3 DEF ScanInit, NoRange
<1>5. IInv
  BY <1>3, <1>4, ScanInitIInv
<1>6. FlatLen # 0
  BY <1>1, PointsFinite
<1> QED
  BY <1>1, <1>2, <1>5, <1>6 DEF AInv, NotWalked, NotScanned

\* The ends of a range are its first and its last mention.
LEMMA NoteInstsAInv ==
  ASSUME AInv, NoteInsts
  PROVE  AInv'
<1> USE DEF AInv
<1> DEFINE mentions(v) == {i \in Points : v \in Mentioned(i)}
<1>1. /\ FlatLen \in Nat \ {0} /\ Points \subseteq Nat
      /\ kernel' = kernel /\ FlatLen' = FlatLen /\ Points' = Points /\ Values' = Values
      /\ \A i : Mentioned(i)' = Mentioned(i)
      /\ pos = 0 /\ pos' = FlatLen /\ edge' = edge
  <2>1. kernel' = kernel /\ pos = 0 /\ pos' = FlatLen /\ edge' = edge
    BY DEF NoteInsts
  <2> QED
    BY <2>1, PointsFinite, KernelFixed DEF Points
<1>2. NotWalked /\ NotScanned
  BY <1>1 DEF NotWalked
<1>3. IInv'
  BY StutterIInv DEF NoteInsts
<1>4. ASSUME NEW v, mentions(v) # {}
      PROVE  /\ \E i \in mentions(v) : \A j \in mentions(v) : i <= j
             /\ \E i \in mentions(v) : \A j \in mentions(v) : j <= i
  <2>1. mentions(v) \subseteq Nat /\ \A j \in mentions(v) : j <= FlatLen
    BY <1>1 DEF Points
  <2> HIDE DEF mentions
  <2> QED
    BY <2>1, <1>1, <1>4, LeastNat, GreatestNat
<1> HIDE DEF mentions
<1>5. ASSUME NEW v \in Values
      PROVE  /\ live_start'[v] \in Nat /\ live_end'[v] \in Nat
             /\ live_start'[v] <= live_end'[v]
             /\ v \in kernel.decls => live_start'[v] = 0
             /\ \A i \in mentions(v) : live_start'[v] <= i /\ i <= live_end'[v]
  <2>1. live_start'[v] = IF v \in kernel.decls THEN 0
                         ELSE CHOOSE i \in mentions(v) : \A j \in mentions(v) : i <= j
    BY <1>2 DEF NoteInsts, NotWalked, mentions
  <2>2. live_end'[v] = IF mentions(v) = {} THEN live_end[v]
                       ELSE CHOOSE i \in mentions(v) : \A j \in mentions(v) : j <= i
    BY DEF NoteInsts, mentions
  <2>3. mentions(v) \subseteq Nat
    BY <1>1 DEF mentions
  <2>4. mentions(v) = {} => v \in kernel.decls /\ live_end[v] = 0
    BY <1>2, ValuesFacts DEF NotWalked, mentions
  <2>5. mentions(v) # {} => live_end'[v] \in mentions(v) /\ \A j \in mentions(v) : j <= live_end'[v]
    BY <2>2, <1>4
  <2>6. v \notin kernel.decls =>
          live_start'[v] \in mentions(v) /\ \A j \in mentions(v) : live_start'[v] <= j
    BY <2>1, <2>4, <1>4
  <2> QED
    BY <2>1, <2>2, <2>3, <2>4, <2>5, <2>6
<1>6. live_start' = [v \in Values |-> live_start'[v]] /\ live_end' = [v \in Values |-> live_end'[v]]
  BY DEF NoteInsts
<1>7. Walked'
  <2>1. live_start' \in [Values -> Nat] /\ live_end' \in [Values -> Nat]
    BY <1>5, <1>6
  <2>2. \A v \in kernel.decls : live_start'[v] = 0
    BY <1>1, <1>5, ValuesFacts
  <2>3. ASSUME NEW v \in Values, NEW i \in Points, v \in Mentioned(i)
        PROVE  live_start'[v] <= i /\ i <= live_end'[v]
    BY <2>3, <1>5 DEF mentions
  <2> QED
    BY <1>1, <1>5, <2>1, <2>2, <2>3 DEF Walked
<1>8. Followed'
  <2>1. edge' = 1
    BY <1>1, <1>2 DEF NotWalked
  <2>2. ASSUME NEW x \in 1..Len(BackEdges'), x < edge' PROVE FALSE
    BY <2>1, <2>2
  <2> QED
    BY <2>1, <2>2 DEF Followed
<1> QED
  BY <1>1, <1>2, <1>3, <1>7, <1>8 DEF NoteInsts, vars, scanVars, NotWalked, NotScanned

\* Taking the next edge.
LEMMA ExtendAInv ==
  ASSUME AInv, ExtendAlongEdge
  PROVE  AInv'
<1> USE DEF AInv
<1>1. /\ kernel' = kernel /\ FlatLen' = FlatLen /\ Points' = Points /\ Values' = Values
      /\ Blocks' = Blocks /\ BackEdges' = BackEdges
      /\ \A i : Mentioned(i)' = Mentioned(i)
      /\ pos = FlatLen /\ pos' = FlatLen /\ edge' = edge + 1 /\ live_start' = live_start
      /\ UNCHANGED vars
  <2>1. kernel' = kernel
    BY DEF ExtendAlongEdge
  <2> QED
    BY <2>1, KernelFixed DEF ExtendAlongEdge
<1>2. Walked /\ Followed /\ FlatLen # 0
  BY <1>1, PointsFinite
<1>3. IInv'
  BY <1>1, StutterIInv
<1>4. /\ edge \in 1..Len(BackEdges)
      /\ \A x \in 1..Len(BackEdges) : BackEdges[x] \in Triples
      /\ \A x \in 1..Len(BackEdges) : x <= edge => BackEdges[x][3] <= BackEdges[edge][3]
  <2>1. edge \in 1..Len(BackEdges)
    BY <1>2, BackEdgesFacts DEF ExtendAlongEdge, EdgesUpTo, Followed
  <2> QED
    BY <2>1, BackEdgesFacts DEF EdgesUpTo
<1> DEFINE e == BackEdges[edge]
<1>5. ASSUME NEW v \in Values
      PROVE  /\ live_start[v] \in Nat /\ live_end[v] \in Nat /\ live_end'[v] \in Nat
             /\ live_end[v] <= live_end'[v]
             /\ live_end'[v] = live_end[v] \/ live_end'[v] = e[3]
             /\ (live_start[v] <= e[1] /\ e[1] <= live_end'[v]) => e[3] <= live_end'[v]
  <2>1. live_start[v] \in Nat /\ live_end[v] \in Nat
    BY <1>2 DEF Walked
  <2>2. live_end'[v] = IF Stretches(e, live_start[v], live_end[v]) THEN e[3] ELSE live_end[v]
    BY <1>2 DEF ExtendAlongEdge, Walked
  <2>3. e[1] \in Nat /\ e[2] \in Nat /\ e[3] \in Nat
    BY <1>4 DEF Triples
  <2> HIDE DEF e
  <2>4. CASE Stretches(e, live_start[v], live_end[v])
    BY <2>1, <2>2, <2>3, <2>4 DEF Stretches
  <2>5. CASE ~Stretches(e, live_start[v], live_end[v])
    BY <2>1, <2>2, <2>3, <2>5 DEF Stretches
  <2> QED
    BY <2>4, <2>5
<1>6. Walked'
  <2>1. live_end' = [v \in Values |-> live_end'[v]]
    BY <1>2 DEF ExtendAlongEdge, Walked
  <2>2. live_end' \in [Values -> Nat]
    BY <2>1, <1>5
  <2>3. ASSUME NEW v \in Values, NEW i \in Points, v \in Mentioned(i)
        PROVE  live_start[v] <= i /\ i <= live_end'[v]
    <3>1. live_start[v] <= i /\ i <= live_end[v] /\ i \in Nat
      BY <2>3, <1>2, PointsFinite DEF Walked
    <3> QED
      BY <3>1, <1>5
  <2>4. \A v \in Values : live_start[v] <= live_end'[v]
    BY <1>2, <1>5 DEF Walked
  <2> QED
    BY <1>1, <1>2, <2>2, <2>3, <2>4 DEF Walked
<1>7. ASSUME NEW x \in 1..Len(BackEdges), x < edge + 1, NEW v \in Values,
             live_start[v] <= BackEdges[x][1], BackEdges[x][1] <= live_end'[v]
      PROVE  BackEdges[x][3] <= live_end'[v]
  <2>1. CASE x = edge
    BY <2>1, <1>5, <1>7
  <2>2. CASE x # edge /\ live_end'[v] = live_end[v]
    BY <2>2, <1>2, <1>4, <1>7 DEF Followed
  <2>3. CASE x # edge /\ live_end'[v] = e[3]
    BY <2>3, <1>4, <1>7
  <2> QED
    BY <2>1, <2>2, <2>3, <1>5
<1>8. Followed'
  BY <1>1, <1>2, <1>7 DEF Followed
<1>9. ranges = NoRange
  <2> SUFFICES ASSUME Grouped PROVE FALSE
    OBVIOUS
  <2>1. edge > Len(BackEdges) /\ edge \in 1..Len(BackEdges)
    BY <1>4 DEF Grouped
  <2> QED
    BY <2>1
<1> QED
  BY <1>1, <1>2, <1>3, <1>6, <1>8, <1>9 DEF vars, scanVars, NotScanned

\* The ranges handed to the scan are a range map, and the scan starts on them.
LEMMA GroupStartsScan ==
  ASSUME AInv, GroupRanges
  PROVE  /\ ranges' = [v \in Values |-> [prefix |-> kernel.class[v], start |-> live_start[v],
                                         end |-> live_end[v]]]
         /\ IsRangeMap(ranges)' /\ ScanInit'
<1> USE DEF AInv
<1>1. pos = FlatLen /\ kernel' = kernel /\ live_start' = live_start /\ live_end' = live_end
  BY DEF GroupRanges
<1>2. Walked /\ Followed /\ FlatLen # 0 /\ NotScanned
  BY <1>1, PointsFinite DEF GroupRanges
<1>3. ranges' = [v \in Values |-> [prefix |-> kernel.class[v], start |-> live_start[v],
                                  end |-> live_end[v]]]
  BY <1>2 DEF GroupRanges, Walked
<1>4. IsRangeMap(ranges')
  <2> SUFFICES ASSUME NEW v \in Values
               PROVE  ranges'[v] \in LiveRange /\ ranges'[v].start <= ranges'[v].end
    BY <1>3 DEF IsRangeMap
  <2> QED
    BY <1>2, <1>3, ValuesFacts DEF LiveRange, Walked
<1>5. ScanInit'
  <2>1. Vals' = Values /\ DOMAIN live_start = Values
    BY <1>2, <1>3 DEF Vals, Walked
  <2>2. buckets' = {ranges'[v].prefix : v \in Vals'}
    BY <2>1, <1>3 DEF GroupRanges
  <2> QED
    BY <2>1, <2>2, <1>2 DEF GroupRanges, ScanInit, NotScanned
<1> QED
  BY <1>3, <1>4, <1>5 DEF IsRangeMap

\* So the scan's invariant starts to hold.
LEMMA GroupAInv ==
  ASSUME AInv, GroupRanges
  PROVE  AInv'
<1> USE DEF AInv
<1>1. /\ kernel' = kernel /\ FlatLen' = FlatLen /\ Points' = Points /\ Values' = Values
      /\ Blocks' = Blocks /\ BackEdges' = BackEdges
      /\ \A i : Mentioned(i)' = Mentioned(i)
      /\ pos = FlatLen /\ pos' = FlatLen /\ edge' = edge
      /\ live_start' = live_start /\ live_end' = live_end
  <2>1. kernel' = kernel
    BY DEF GroupRanges
  <2> QED
    BY <2>1, KernelFixed DEF GroupRanges
<1>2. Walked /\ Followed /\ FlatLen # 0 /\ NotScanned
  BY <1>1, PointsFinite DEF GroupRanges
<1>3. ranges' = [v \in Values |-> [prefix |-> kernel.class[v], start |-> live_start[v],
                                  end |-> live_end[v]]]
  BY GroupStartsScan
<1>4. IInv'
  <2>1. IsRangeMap(ranges)' /\ ScanInit' => IInv'
    BY ScanInitIInv, PTL
  <2> QED
    BY <2>1, GroupStartsScan
<1>5. Walked' /\ Followed'
  BY <1>1, <1>2 DEF Walked, Followed
<1>6. Grouped'
  BY <1>1, <1>3 DEF Grouped, GroupRanges
<1>7. ranges' = NoRange => NotScanned'
  <2> SUFFICES ASSUME ranges' = NoRange PROVE NotScanned'
    OBVIOUS
  <2>1. DOMAIN live_start = {}
    BY <1>2, <1>3 DEF NoRange, Walked
  <2>2. buckets' = {}
    BY <2>1 DEF GroupRanges
  <2> QED
    BY <2>2, <1>2 DEF GroupRanges, NotScanned
<1> QED
  BY <1>1, <1>2, <1>4, <1>5, <1>6, <1>7

\* The scan.
LEMMA ScanAInv ==
  ASSUME AInv, Scan
  PROVE  AInv'
<1> USE DEF AInv
<1>1. /\ kernel' = kernel /\ FlatLen' = FlatLen /\ Points' = Points /\ Values' = Values
      /\ Blocks' = Blocks /\ BackEdges' = BackEdges
      /\ \A i : Mentioned(i)' = Mentioned(i)
      /\ pos' = pos /\ edge' = edge /\ live_start' = live_start /\ live_end' = live_end
      /\ ranges' = ranges /\ ranges # NoRange
  <2>1. /\ kernel' = kernel /\ pos' = pos /\ edge' = edge
        /\ live_start' = live_start /\ live_end' = live_end
    BY DEF Scan
  <2>2. ranges' = ranges /\ ranges # NoRange
    BY DEF Scan, ScanNext, StartBucket, Assign
  <2> QED
    BY <2>1, <2>2, KernelFixed
<1>2. IInv'
  BY StepIInv DEF Scan, Next
<1>3. Grouped /\ FlatLen # 0
  BY <1>1, PointsFinite
<1>4. Walked' /\ Followed' /\ Grouped'
  BY <1>1, <1>3 DEF Walked, Followed, Grouped
<1>5. NoRange' = NoRange
  BY DEF NoRange
<1> QED
  BY <1>1, <1>2, <1>3, <1>4, <1>5 DEF Grouped

\* The invariant holds of every allocation.
LEMMA AllocInvariance == AllocSpec => []AInv
<1>1. AInv /\ [AllocNext]_allocVars => AInv'
  <2> SUFFICES ASSUME AInv, [AllocNext]_allocVars PROVE AInv'
    OBVIOUS
  <2>1. CASE UNCHANGED allocVars
    <3>1. IInv'
      BY <2>1, StutterIInv DEF AInv, allocVars
    <3>2. /\ UNCHANGED vars
          /\ kernel' = kernel /\ FlatLen' = FlatLen /\ Points' = Points /\ Values' = Values
          /\ BackEdges' = BackEdges
          /\ \A i : Mentioned(i)' = Mentioned(i)
          /\ pos' = pos /\ edge' = edge /\ live_start' = live_start /\ live_end' = live_end
      <4>1. kernel' = kernel
        BY <2>1 DEF allocVars
      <4> QED
        BY <2>1, <4>1, KernelFixed DEF allocVars
    <3> QED
      BY <3>1, <3>2 DEF AInv, Walked, Followed, Grouped, NotWalked, NotScanned, vars, scanVars
  <2> QED
    BY <2>1, NoteInstsAInv, ExtendAInv, GroupAInv, ScanAInv DEF AllocNext
<1> QED
  BY AllocInitAInv, <1>1, PTL DEF AllocSpec

-----------------------------------------------------------------------------
(***************************************************************************)
(* What the ranges are for.  A point a value is live at lies inside its    *)
(* range: not before it, because walking back along the block order from   *)
(* there stays live down to the entry, where nothing is; not after it,     *)
(* because the points up to the end of the range are closed under going    *)
(* back along the branches, the backward ones by Followed.                 *)
(***************************************************************************)
LEMMA LiveFromStart ==
  ASSUME KernelOK(kernel), FromParser, Walked,
         NEW v \in Values, NEW i \in LiveIn(v)
  PROVE  live_start[v] <= i
<1>1. /\ LiveIn(v) \subseteq Points /\ Points \subseteq Nat
      /\ Back(v, LiveIn(v)) \subseteq LiveIn(v)
  BY LiveInClosed, PointsFinite DEF Points
<1>2. live_start[v] \in Nat /\ i \in Nat
  <2>1. i \in Nat
    BY <1>1
  <2> QED
    BY <2>1 DEF Walked
<1>3. CASE v \in kernel.decls
  <2>1. live_start[v] = 0
    BY <1>3 DEF Walked
  <2> QED
    BY <2>1, <1>2
<1>4. CASE v \notin kernel.decls
  <2> DEFINE Early == {j \in LiveIn(v) : j < live_start[v]}
  <2> SUFFICES ASSUME Early # {} PROVE FALSE
    <3>1. i \in Early \/ live_start[v] <= i
      BY <1>2
    <3> QED
      BY <3>1
  <2>1. Early \subseteq Nat
    BY <1>1
  <2> HIDE DEF Early
  <2>2. PICK m \in Early : \A j \in Early : m <= j
    BY <2>1, LeastNat
  <2>3. m \in LiveIn(v) /\ m < live_start[v] /\ m \in Points /\ m \in Nat
    BY <2>2, <1>1 DEF Early
  <2>4. m # 0
    BY <2>3, <1>4 DEF FromParser, ReadsAreDefined
  <2>5. PICK j \in Points : j < m /\ m \in Successors(j)
    BY <2>3, <2>4, Predecessor DEF FromParser
  <2>6. j \in Nat /\ j < live_start[v]
    BY <2>3, <2>5, <1>1, <1>2
  <2>7. v \notin InstAt(j).def
    BY <2>6, <1>2 DEF Walked, Mentioned
  <2>8. j \in LiveIn(v)
    BY <2>3, <2>5, <2>7, <1>1 DEF Back
  <2>9. j \in Early
    BY <2>6, <2>8 DEF Early
  <2> QED
    BY <2>2, <2>3, <2>5, <2>6, <2>9
<1> QED
  BY <1>3, <1>4

\* A value is live at no point after the end of its range: reads lie within it, and an
\* edge back from inside it was followed.
LEMMA LiveToEnd ==
  ASSUME KernelOK(kernel), FromParser, Walked, Followed, edge > Len(BackEdges),
         NEW v \in Values, NEW i \in LiveIn(v)
  PROVE  i <= live_end[v]
<1> DEFINE X == {j \in Points : j <= live_end[v]}
<1>1. /\ LiveIn(v) \subseteq Points /\ Points \subseteq Nat
      /\ live_start[v] \in Nat /\ live_end[v] \in Nat
  BY LiveInClosed, PointsFinite DEF Points, Walked
<1>2. Reads(v) \subseteq X
  BY DEF Reads, Walked, Mentioned
<1>3. ASSUME NEW j \in LiveIn(v), j \in Back(v, X \cap LiveIn(v))
      PROVE  j \in X
  <2>1. PICK m \in Successors(j) : m \in Points /\ m \in LiveIn(v) /\ m <= live_end[v]
    BY <1>3 DEF Back
  <2>2. j \in Points /\ j \in Nat /\ m \in Nat
    BY <1>1, <2>1
  <2>3. CASE j < m
    BY <2>1, <2>2, <2>3, <1>1
  <2>4. CASE m <= j
    <3>1. PICK x \in 1..Len(BackEdges) : BackEdges[x][1] = m /\ BackEdges[x][3] = j
      BY <2>2, <2>4, BackwardStep
    <3>2. x < edge
      BY <3>1, BackEdgesFacts DEF EdgesUpTo, Followed
    <3>3. live_start[v] <= m
      BY <2>1, LiveFromStart
    <3> QED
      BY <2>1, <2>2, <3>1, <3>2, <3>3 DEF Followed
  <2> QED
    BY <2>2, <2>3, <2>4
<1> HIDE DEF X
<1>4. LiveIn(v) \subseteq X
  BY <1>2, <1>3, LiveInLeast
<1> QED
  BY <1>4 DEF X

\* An instruction that would clobber a live value lies in the value's range.
LEMMA ClobberInside ==
  ASSUME AInv, FromParser, Grouped, NEW v \in Values, NEW i \in Points,
         Successors(i) \cap LiveIn(v) # {}
  PROVE  live_start[v] <= i /\ i <= live_end[v]
<1>1. Walked /\ Followed /\ KernelOK(kernel) /\ edge > Len(BackEdges)
  BY DEF AInv, Grouped
<1>2. CASE v \in InstAt(i).def
  BY <1>1, <1>2 DEF Walked, Mentioned
<1>3. CASE v \notin InstAt(i).def
  <2>1. i \in Back(v, LiveIn(v))
    BY <1>3 DEF Back
  <2>2. i \in LiveIn(v)
    BY <2>1, <1>1, LiveInClosed
  <2> QED
    BY <2>2, <1>1, LiveFromStart, LiveToEnd
<1> QED
  BY <1>2, <1>3

\* A finished allocation gives interfering values different registers.
LEMMA FinishedNoClobber == AInv /\ FromParser => NoClobber
<1> SUFFICES ASSUME AInv, FromParser, Allocated,
                    NEW d \in Vals, NEW v \in Vals, d # v,
                    kernel.class[d] = kernel.class[v], alloc[d] = alloc[v],
                    Interfere(d, v)
             PROVE  FALSE
  BY DEF NoClobber
<1>1. Grouped /\ Walked /\ IInv
  BY DEF AInv, Allocated, Grouped
<1>2. /\ Vals = Values
      /\ \A u \in Vals : /\ ranges[u].prefix = kernel.class[u]
                         /\ ranges[u].start = live_start[u]
                         /\ ranges[u].end = live_end[u]
  BY <1>1 DEF Grouped, Vals
<1>3. PICK i \in Points : d \in InstAt(i).def /\ Successors(i) \cap LiveIn(v) # {}
  BY DEF Interfere
<1>4. live_start[v] <= i /\ i <= live_end[v]
  BY <1>1, <1>2, <1>3, ClobberInside
<1>5. live_start[d] <= i /\ i <= live_end[d]
  BY <1>1, <1>2, <1>3 DEF Walked, Mentioned
<1>6. /\ i \in Nat
      /\ live_start[d] \in Nat /\ live_end[d] \in Nat
      /\ live_start[v] \in Nat /\ live_end[v] \in Nat
  BY <1>1, <1>2, PointsFinite DEF Points, Walked
<1>7. Overlap(d, v)
  BY <1>2, <1>4, <1>5, <1>6 DEF Overlap
<1>8. Assigned(d) /\ Assigned(v)
  BY <1>1 DEF Allocated, ScanDone, IInv, Reached, Passed
<1> QED
  BY <1>1, <1>2, <1>7, <1>8 DEF IInv, NoClash

-----------------------------------------------------------------------------
\* The scan that _build_alloc_map runs keeps its types on every kernel.
THEOREM AllocTypeCorrect == AllocSpec => []TypeOK
  BY AllocInvariance, PTL DEF AInv, IInv

\* Overlapping ranges of one class get different registers (emit.py:308-340),
\* whatever the kernel.
THEOREM AllocNoClash == AllocSpec => []NoClash
  BY AllocInvariance, PTL DEF AInv, IInv

\* Values of a class that is never reused keep their own register
\* (emit.py:301-307), whatever the kernel.
THEOREM AllocIdentityKept == AllocSpec => []IdentityKept
  BY AllocInvariance, PTL DEF AInv, IInv

\* The register count covers every register handed out, whatever the kernel.
THEOREM AllocCountCovers == AllocSpec => []CountCovers
  BY AllocInvariance, PTL DEF AInv, IInv

\* A class whose registers are reused is allocated with exactly as many as the
\* largest number of its stretched ranges that meet, whatever the kernel.
THEOREM AllocOptimalCount == AllocSpec => []OptimalCount
<1>1. AllocInit => CInv
  <2> SUFFICES ASSUME AllocInit PROVE CInv
    OBVIOUS
  <2>1. bucket \in Prefixes
    BY RegAllocAssumption DEF AllocInit, AllocStart
  <2>2. Vals = {} /\ IsRangeMap(ranges)
    BY DEF AllocInit, AllocStart, Vals, NoRange, IsRangeMap
  <2>3. ScanInit
    BY <2>1, <2>2 DEF AllocInit, AllocStart, ScanInit, NoRange
  <2> QED
    BY <2>2, <2>3, ScanInitCInv
<1>2. AInv /\ CInv /\ [AllocNext]_allocVars => CInv'
  <2> SUFFICES ASSUME AInv, CInv, [AllocNext]_allocVars PROVE CInv'
    OBVIOUS
  <2>1. CASE NoteInsts \/ ExtendAlongEdge \/ UNCHANGED allocVars
    BY <2>1, StutterCInv DEF NoteInsts, ExtendAlongEdge, allocVars
  <2>2. CASE GroupRanges
    <3>1. IsRangeMap(ranges)' /\ ScanInit' => CInv'
      BY ScanInitCInv, PTL
    <3> QED
      BY <2>2, <3>1, GroupStartsScan
  <2>3. CASE Scan
    BY <2>3, StepCInv DEF Scan, Next, AInv
  <2> QED
    BY <2>1, <2>2, <2>3 DEF AllocNext
<1>3. CInv => OptimalCount
  BY DEF CInv
<1> QED
  BY <1>1, <1>2, <1>3, AllocInvariance, PTL DEF AllocSpec

\* On a kernel whose blocks come in order and whose reads are all defined, no
\* write destroys a value that is still to be read, on any path and for any
\* nest of loops: flat ranges with the back-edge extension of emit.py:237-283
\* are enough.
THEOREM NoClobberAlways == ParserSpec => []NoClobber
<1>1. FromParser /\ AInv /\ [AllocNext]_allocVars => FromParser'
  <2> SUFFICES ASSUME FromParser, [AllocNext]_allocVars PROVE FromParser'
    OBVIOUS
  <2>1. kernel' = kernel
    BY DEF AllocNext, NoteInsts, ExtendAlongEdge, GroupRanges, Scan, allocVars
  <2> QED
    BY <2>1, KernelFixed
<1>2. ParserSpec => AllocSpec
  BY DEF ParserSpec, AllocSpec
<1>3. ParserSpec => []FromParser
  BY <1>1, <1>2, AllocInvariance, PTL DEF ParserSpec
<1> QED
  BY <1>2, <1>3, AllocInvariance, FinishedNoClobber, PTL

-----------------------------------------------------------------------------
(***************************************************************************)
(* TempsApart for every module of kernels: whatever is made up while a     *)
(* kernel is printed gets registers of its own.                            *)
(*                                                                         *)
(* The argument needs two facts about the scan: its registers are below    *)
(* alloc_max (CountCovers), and base is the alloc_max of this kernel.  The *)
(* second is what emit_device_function does not provide, so the theorem   *)
(* assumes a module without device functions.                              *)
(***************************************************************************)

UnitTypes ==
  /\ phase \in {"idle", "scan", "body", "done"}
  /\ base \in [Prefixes -> Nat]
  /\ fallback_alloc \in [Temps -> Nat \union {Unassigned}]
  /\ fallback_count \in [Prefixes -> Nat]
  /\ scratch \subseteq Nat

\* While a body is printed the scan is over and base is its alloc_max.
BaseCurrent ==
  /\ phase \in {"scan", "body", "done"} => kind = "kernel"
  /\ phase \in {"body", "done"} => base = alloc_max

\* The numbers handed out during emission, per class, are those from base up.
Fresh(p, i) == base[p] <= i /\ i < base[p] + fallback_count[p]
Numbered ==
  phase \in {"body", "done"} =>
    /\ \A t \in Temps : Placed(t) => Fresh(TempClass[t], fallback_alloc[t])
    /\ \A i \in scratch : Fresh(PredPrefix, i)
NothingYet == phase \in {"idle", "scan"} =>
                scratch = {} /\ \A t \in Temps : ~Placed(t)

EInv ==
  /\ IInv
  /\ UnitTypes
  /\ BaseCurrent
  /\ Numbered
  /\ NothingYet
  /\ TempsApart

-----------------------------------------------------------------------------
\* A new emitter has given out no register and printed nothing.
LEMMA InitEInv == EmitInit => EInv
<1> SUFFICES ASSUME EmitInit PROVE EInv
  OBVIOUS
<1>1. IInv
  BY InitIInv DEF EmitInit
<1>2. UnitTypes /\ BaseCurrent /\ Numbered /\ NothingYet /\ TempsApart
  BY DEF EmitInit, Idle, UnitTypes, BaseCurrent, Numbered, NothingYet, TempsApart, Placed
<1> QED
  BY <1>1, <1>2 DEF EInv

\* A unit starts as a scan does.
LEMMA StartUnitScans ==
  ASSUME NEW k, StartUnit(k)
  PROVE  Init'
  BY DEF StartUnit, Init, ScanInit, Vals, InBucket

\* A kernel begins with a scan of its own and without temporaries (emit.py:648-660).
LEMMA StartUnitEInv ==
  ASSUME Kinds \subseteq {"kernel"}, EInv, NEW k \in Kinds, StartUnit(k)
  PROVE  EInv'
<1>1. IInv'
  <2>1. Init' => IInv'
    BY InitIInv, PTL
  <2> QED
    BY <2>1, StartUnitScans
<1>2. UnitTypes' /\ BaseCurrent' /\ Numbered' /\ NothingYet' /\ TempsApart'
  BY DEF EInv, StartUnit, UnitTypes, BaseCurrent, Numbered, NothingYet, TempsApart, Placed
<1> QED
  BY <1>1, <1>2 DEF EInv

\* A step of the scan keeps the invariant of the scan.
LEMMA ScanEInv ==
  ASSUME EInv, ScanUnit
  PROVE  EInv'
<1>1. IInv'
  BY StartBucketIInv, AssignIInv DEF EInv, ScanUnit, ScanNext
<1>2. UnitTypes' /\ BaseCurrent' /\ Numbered' /\ NothingYet' /\ TempsApart'
  BY DEF EInv, ScanUnit, bodyVars, unitVars, UnitTypes, BaseCurrent, Numbered, NothingYet,
     TempsApart, Placed
<1> QED
  BY <1>1, <1>2 DEF EInv

\* When the body starts, the base of the temporaries is the count of the scan just
\* finished.
LEMMA StartBodyEInv ==
  ASSUME EInv, StartBody
  PROVE  EInv'
<1>1. IInv'
  BY StutterIInv DEF EInv, StartBody
<1>2. base' = alloc_max /\ alloc_max \in [Prefixes -> Nat]
  BY DEF EInv, StartBody, BaseCurrent, IInv, TypeOK
<1>3. UnitTypes' /\ BaseCurrent' /\ Numbered' /\ NothingYet' /\ TempsApart'
  BY <1>2 DEF EInv, StartBody, bodyVars, vars, scanVars, UnitTypes, BaseCurrent, Numbered,
     NothingYet, TempsApart, Placed
<1> QED
  BY <1>1, <1>3 DEF EInv

\* While a body is printed, every scanned value's register is below base.
LEMMA ScannedBelow ==
  ASSUME EInv, phase \in {"body", "done"}, NEW v \in Vals
  PROVE  alloc[v] < base[ranges[v].prefix] /\ alloc[v] \in Int /\ ranges[v].prefix \in Prefixes
<1>1. ranges[v].prefix \in Prefixes
  BY RangeFacts DEF EInv, IInv, TypeOK
<1>2. alloc[v] \in Nat \union {Unassigned} /\ base[ranges[v].prefix] \in Nat
  BY <1>1 DEF EInv, IInv, TypeOK, UnitTypes
<1>3. CASE Assigned(v)
  BY <1>1, <1>2, <1>3 DEF EInv, IInv, CountCovers, BaseCurrent, Unassigned
<1>4. CASE ~Assigned(v)
  BY <1>1, <1>2, <1>4 DEF Assigned, Unassigned
<1> QED
  BY <1>1, <1>2, <1>3, <1>4 DEF Unassigned

\* The next number of a class is above every register of it given out so far.
LEMMA NextAboveFresh ==
  ASSUME EInv, phase = "body", NEW p \in Prefixes
  PROVE  /\ NextAbove(p) \in Nat
         /\ \A v \in Vals : ranges[v].prefix = p => alloc[v] # NextAbove(p)
         /\ \A t \in Temps : (Placed(t) /\ TempClass[t] = p) => fallback_alloc[t] # NextAbove(p)
         /\ p = PredPrefix => NextAbove(p) \notin scratch
<1>1. base[p] \in Nat /\ fallback_count[p] \in Nat
  BY DEF EInv, UnitTypes
<1>2. \A v \in Vals : ranges[v].prefix = p => alloc[v] # NextAbove(p)
  BY <1>1, ScannedBelow DEF NextAbove
<1>3. \A t \in Temps : (Placed(t) /\ TempClass[t] = p) => fallback_alloc[t] # NextAbove(p)
  BY <1>1 DEF EInv, UnitTypes, Numbered, Fresh, NextAbove, Placed
<1>4. p = PredPrefix => NextAbove(p) \notin scratch
  BY <1>1 DEF EInv, Numbered, Fresh, NextAbove
<1> QED
  BY <1>1, <1>2, <1>3, <1>4 DEF NextAbove

\* A temporary takes the first index above everything of its class (emit.py:376-385).
LEMMA RegTempEInv ==
  ASSUME EInv, NEW t \in Temps, RegTemp(t)
  PROVE  EInv'
<1> DEFINE p == TempClass[t]
<1> PICK n : n = NextAbove(p)
  OBVIOUS
<1>1. /\ p \in Prefixes /\ phase = "body" /\ phase' = phase /\ base' = base /\ kind' = kind
      /\ scratch' = scratch
      /\ fallback_alloc' = [fallback_alloc EXCEPT ![t] = n]
      /\ fallback_count' = [fallback_count EXCEPT ![p] = fallback_count[p] + 1]
      /\ UNCHANGED vars
  BY EmitAssumption DEF RegTemp, unitVars
<1>2. /\ n \in Nat
      /\ \A v \in Vals : ranges[v].prefix = p => alloc[v] # n
      /\ \A u \in Temps : (Placed(u) /\ TempClass[u] = p) => fallback_alloc[u] # n
      /\ p = PredPrefix => n \notin scratch
  BY <1>1, NextAboveFresh
<1>3. IInv'
  BY <1>1, StutterIInv DEF EInv
<1>4. /\ ranges' = ranges /\ alloc' = alloc /\ alloc_max' = alloc_max /\ Vals' = Vals
  BY <1>1 DEF vars, scanVars, Vals
<1>5. UnitTypes'
  BY <1>1, <1>2 DEF EInv, UnitTypes
<1>6. BaseCurrent' /\ NothingYet'
  BY <1>1, <1>4 DEF EInv, BaseCurrent, NothingYet
<1>7. /\ fallback_alloc'[t] = n
      /\ \A u \in Temps \ {t} : fallback_alloc'[u] = fallback_alloc[u]
      /\ Placed(t)' /\ \A u \in Temps \ {t} : Placed(u)' <=> Placed(u)
  BY <1>1, <1>2 DEF EInv, UnitTypes, Placed, Unassigned
<1>8. Numbered'
  <2>1. \A q \in Prefixes : /\ base[q] \in Nat /\ fallback_count[q] \in Nat
                            /\ fallback_count'[q] \in Nat
                            /\ fallback_count[q] <= fallback_count'[q]
    BY <1>1 DEF EInv, UnitTypes
  <2>2. fallback_count'[p] = fallback_count[p] + 1
    BY <1>1 DEF EInv, UnitTypes
  <2>3. \A q \in Prefixes, i \in Nat : Fresh(q, i) => Fresh(q, i)'
    BY <1>1, <2>1 DEF Fresh
  <2>4. Fresh(p, n)'
    BY <1>1, <2>1, <2>2 DEF Fresh, NextAbove
  <2>5. \A u \in Temps : (Placed(u) => Fresh(TempClass[u], fallback_alloc[u]))'
    <3> SUFFICES ASSUME NEW u \in Temps, Placed(u)'
                 PROVE  Fresh(TempClass[u], fallback_alloc[u])'
      OBVIOUS
    <3>1. CASE u = t
      BY <3>1, <2>4, <1>7
    <3>2. CASE u # t
      <4>1. Placed(u) /\ fallback_alloc[u] \in Nat /\ TempClass[u] \in Prefixes
        BY <3>2, <1>7, EmitAssumption DEF EInv, UnitTypes, Placed
      <4>2. Fresh(TempClass[u], fallback_alloc[u])
        BY <4>1, <1>1 DEF EInv, Numbered
      <4> QED
        BY <4>1, <4>2, <3>2, <2>3, <1>7
    <3> QED
      BY <3>1, <3>2
  <2>6. \A i \in scratch : Fresh(PredPrefix, i)'
    BY <1>1, <2>3, EmitAssumption DEF EInv, Numbered, UnitTypes
  <2> QED
    BY <2>5, <2>6, <1>1 DEF Numbered, Fresh
<1>9. TempsApart'
  <2> SUFFICES ASSUME NEW u \in Temps, Placed(u)'
               PROVE  /\ \A v \in Vals : ranges[v].prefix = TempClass[u] => alloc[v] # fallback_alloc'[u]
                      /\ \A w \in Temps : (w # u /\ Placed(w)' /\ TempClass[w] = TempClass[u])
                           => fallback_alloc'[w] # fallback_alloc'[u]
                      /\ TempClass[u] = PredPrefix => fallback_alloc'[u] \notin scratch
    BY <1>1, <1>4 DEF EInv, TempsApart, Placed
  <2>1. CASE u = t
    BY <2>1, <1>2, <1>7
  <2>2. CASE u # t
    <3>1. Placed(u)
      BY <2>2, <1>7
    <3>2. /\ \A v \in Vals : ranges[v].prefix = TempClass[u] => alloc[v] # fallback_alloc[u]
          /\ \A w \in Temps : (w # u /\ Placed(w) /\ TempClass[w] = TempClass[u])
                => fallback_alloc[w] # fallback_alloc[u]
          /\ TempClass[u] = PredPrefix => fallback_alloc[u] \notin scratch
      BY <3>1, <1>1 DEF EInv, TempsApart
    <3>3. TempClass[u] = p => fallback_alloc[u] # n
      BY <3>1, <1>2
    <3> QED
      BY <2>2, <3>2, <3>3, <1>7
  <2> QED
    BY <2>1, <2>2
<1> QED
  BY <1>3, <1>5, <1>6, <1>8, <1>9 DEF EInv

\* A scratch predicate does too (emit.py:363-369).
LEMMA AllocPredEInv ==
  ASSUME EInv, AllocPred
  PROVE  EInv'
<1> DEFINE p == PredPrefix
<1> PICK n : n = NextAbove(p)
  OBVIOUS
<1>1. /\ p \in Prefixes /\ phase = "body" /\ phase' = phase /\ base' = base /\ kind' = kind
      /\ fallback_alloc' = fallback_alloc
      /\ scratch' = scratch \union {n}
      /\ fallback_count' = [fallback_count EXCEPT ![p] = fallback_count[p] + 1]
      /\ UNCHANGED vars
  BY EmitAssumption DEF AllocPred, unitVars
<1>2. /\ n \in Nat
      /\ \A v \in Vals : ranges[v].prefix = p => alloc[v] # n
      /\ \A u \in Temps : (Placed(u) /\ TempClass[u] = p) => fallback_alloc[u] # n
  BY <1>1, NextAboveFresh
<1>3. IInv'
  BY <1>1, StutterIInv DEF EInv
<1>4. /\ ranges' = ranges /\ alloc' = alloc /\ alloc_max' = alloc_max /\ Vals' = Vals
  BY <1>1 DEF vars, scanVars, Vals
<1>5. UnitTypes'
  <2>1. scratch' \subseteq Nat
    BY <1>1, <1>2 DEF EInv, UnitTypes
  <2>2. fallback_count' \in [Prefixes -> Nat]
    BY <1>1 DEF EInv, UnitTypes
  <2> QED
    BY <1>1, <2>1, <2>2 DEF EInv, UnitTypes
<1>6. BaseCurrent' /\ NothingYet'
  BY <1>1, <1>4 DEF EInv, BaseCurrent, NothingYet
<1>7. \A u \in Temps : Placed(u)' <=> Placed(u)
  BY <1>1 DEF Placed
<1>8. Numbered'
  <2>1. \A q \in Prefixes : /\ base[q] \in Nat /\ fallback_count[q] \in Nat
                            /\ fallback_count'[q] \in Nat
                            /\ fallback_count[q] <= fallback_count'[q]
    BY <1>1 DEF EInv, UnitTypes
  <2>2. fallback_count'[p] = fallback_count[p] + 1
    BY <1>1 DEF EInv, UnitTypes
  <2>3. \A q \in Prefixes, i \in Nat : Fresh(q, i) => Fresh(q, i)'
    BY <1>1, <2>1 DEF Fresh
  <2>4. Fresh(p, n)'
    BY <1>1, <2>1, <2>2 DEF Fresh, NextAbove
  <2>5. \A u \in Temps : (Placed(u) => Fresh(TempClass[u], fallback_alloc[u]))'
    <3> SUFFICES ASSUME NEW u \in Temps, Placed(u)
                 PROVE  Fresh(TempClass[u], fallback_alloc[u])'
      BY <1>7
    <3>1. fallback_alloc[u] \in Nat /\ TempClass[u] \in Prefixes
      BY EmitAssumption DEF EInv, UnitTypes, Placed
    <3>2. Fresh(TempClass[u], fallback_alloc[u])
      BY <1>1 DEF EInv, Numbered
    <3> QED
      BY <3>1, <3>2, <2>3, <1>1
  <2>6. \A i \in scratch : Fresh(PredPrefix, i)'
    BY <1>1, <2>3, EmitAssumption DEF EInv, Numbered, UnitTypes
  <2> QED
    BY <2>4, <2>5, <2>6, <1>1 DEF Numbered, Fresh
<1>9. TempsApart'
  BY <1>1, <1>2, <1>4, <1>7 DEF EInv, TempsApart
<1> QED
  BY <1>3, <1>5, <1>6, <1>8, <1>9 DEF EInv

-----------------------------------------------------------------------------
\* The invariant holds while a module of kernels is emitted.
LEMMA EmitInvariance ==
  ASSUME Kinds \subseteq {"kernel"}
  PROVE  EmitSpec => []EInv
<1>1. EInv /\ [EmitNext]_emitVars => EInv'
  <2> SUFFICES ASSUME EInv, [EmitNext]_emitVars PROVE EInv'
    OBVIOUS
  <2>1. ASSUME NEW k \in Kinds, StartUnit(k) PROVE EInv'
    BY <2>1, StartUnitEInv
  <2>2. CASE ScanUnit
    BY <2>2, ScanEInv
  <2>3. CASE StartBody
    BY <2>3, StartBodyEInv
  <2>4. ASSUME NEW t \in Temps, RegTemp(t) PROVE EInv'
    BY <2>4, RegTempEInv
  <2>5. CASE AllocPred
    BY <2>5, AllocPredEInv
  <2>6. CASE FinishUnit
    <3>1. IInv'
      BY <2>6, StutterIInv DEF EInv, FinishUnit
    <3> QED
      BY <2>6, <3>1 DEF FinishUnit, bodyVars, vars, scanVars, EInv, UnitTypes, BaseCurrent,
         Numbered, NothingYet, TempsApart, Placed, Fresh, Vals
  <2>7. CASE UNCHANGED emitVars
    <3>1. IInv'
      BY <2>7, StutterIInv DEF EInv, emitVars
    <3> QED
      BY <2>7, <3>1 DEF emitVars, unitVars, bodyVars, vars, scanVars, EInv, UnitTypes,
         BaseCurrent, Numbered, NothingYet, TempsApart, Placed, Fresh, Vals
  <2> QED
    BY <2>1, <2>2, <2>3, <2>4, <2>5, <2>6, <2>7 DEF EmitNext
<1> QED
  BY InitEInv, <1>1, PTL DEF EmitSpec

\* In a module of kernels only, a register made up during emission belongs to
\* nothing else: for every kernel and any number of temporaries and scratch
\* predicates.
THEOREM TempsApartAlways ==
  ASSUME Kinds \subseteq {"kernel"}
  PROVE  EmitSpec => []TempsApart
  BY EmitInvariance, PTL DEF EInv
=============================================================================
