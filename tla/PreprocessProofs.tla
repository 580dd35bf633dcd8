-------------------------- MODULE PreprocessProofs ---------------------------
(***************************************************************************)
(* What holds of the stack of conditionals for every source, nesting and   *)
(* set of files.  An entry below the top is never changed, so Enclosed     *)
(* needs only the type of the stack to be inductive; that an #elif is      *)
(* never taken needs that an entry in a kept group has been seen.          *)
(***************************************************************************)
EXTENDS Preprocess, SequenceTheorems, TLAPS

TakenSeen == \A i \in DOMAIN cond_stack : cond_stack[i].inc => cond_stack[i].seen
IInv == TypeOK /\ Enclosed /\ TakenSeen

\* A line that has been reached is a line.
LEMMA LineReached ==
  ASSUME TypeOK, pos <= Len(joined)
  PROVE  joined[pos] \in Line /\ pos + 1 \in 1..(Len(joined) + 1)
<1>1. joined \in Seq(Line) /\ pos \in 1..(Len(joined) + 1)
  BY DEF TypeOK
<1>2. pos \in 1..Len(joined)
  BY <1>1
<1>. QED
  BY <1>1, <1>2

\* Init gives the variables their types.
LEMMA InitTyped ==
  ASSUME Init PROVE IInv
<1>. source.lines \in Seq(Line)
  BY PreprocessAssumption DEF Init
<1>. QED
  BY DEF Init, IInv, TypeOK, Enclosed, TakenSeen

\* Splicing a file in keeps the types and does not touch the stack.
LEMMA ResolveKeeps ==
  ASSUME IInv, Resolve PROVE IInv'
<1>. DEFINE l == Head(todo)
<1>1. todo \in Seq(Line) /\ todo # <<>> /\ joined \in Seq(Line)
  BY DEF IInv, TypeOK, Resolve
<1>2. l \in Line /\ Tail(todo) \in Seq(Line)
  BY <1>1
<1>3. todo' \in Seq(Line) /\ visited' \subseteq DOMAIN Files
  <2>1. CASE l.kind = "include" /\ l.arg \in DOMAIN Files
    <3>1. todo' = (IF l.arg \in visited THEN <<>> ELSE Files[l.arg]) \o Tail(todo)
      BY <2>1 DEF Resolve
    <3>2. Files[l.arg] \in Seq(Line)
      BY <2>1, PreprocessAssumption
    <3>3. (IF l.arg \in visited THEN <<>> ELSE Files[l.arg]) \in Seq(Line)
      BY <3>2
    <3>. QED
      BY <1>2, <2>1, <3>1, <3>3 DEF Resolve, IInv, TypeOK
  <2>2. CASE ~(l.kind = "include" /\ l.arg \in DOMAIN Files)
    BY <1>2, <2>2 DEF Resolve, IInv, TypeOK
  <2>. QED
    BY <2>1, <2>2
<1>4. /\ joined' = joined \/ joined' = Append(joined, l)
      /\ pos' = pos
  BY DEF Resolve
<1>5. joined' \in Seq(Line) /\ Len(joined') >= Len(joined)
  BY <1>1, <1>2, <1>4
<1>6. pos' \in 1..(Len(joined') + 1)
  BY <1>1, <1>4, <1>5 DEF IInv, TypeOK
<1>7. UNCHANGED <<cond_stack, func_defines>>
  BY DEF Resolve, macroVars
<1>. QED
  BY <1>3, <1>5, <1>6, <1>7 DEF IInv, TypeOK, Enclosed, TakenSeen

\* A line taken moves on by one and leaves the includes alone.
LEMMA GoesTyped ==
  ASSUME IInv, NEW kinds, At(kinds), Goes
  PROVE  /\ todo' \in Seq(Line)
         /\ visited' \subseteq DOMAIN Files
         /\ joined' \in Seq(Line)
         /\ pos' \in 1..(Len(joined') + 1)
<1>1. pos <= Len(joined) /\ pos' = pos + 1 /\ UNCHANGED includeVars
  BY DEF At, Goes
<1>2. pos + 1 \in 1..(Len(joined) + 1)
  BY <1>1, LineReached DEF IInv
<1>. QED
  BY <1>1, <1>2 DEF IInv, TypeOK, includeVars

\* What a stack may become in one step keeps its entries enclosed: one more
\* that is taken only if all are, or a new top that is taken only if all below
\* are.
LEMMA StackKept ==
  ASSUME IInv, NEW inc \in BOOLEAN, NEW seen \in BOOLEAN, inc => seen,
         \/ cond_stack' = cond_stack
         \/ cond_stack' = Append(cond_stack, [inc |-> inc, seen |-> seen]) /\ (inc => IsActive)
         \/ /\ cond_stack # <<>>
            /\ cond_stack' = WithTop(inc, seen)
            /\ inc => \A i \in 1..(Depth - 1) : cond_stack[i].inc
         \/ cond_stack # <<>> /\ cond_stack' = SubSeq(cond_stack, 1, Depth - 1)
  PROVE  cond_stack' \in Seq([inc : BOOLEAN, seen : BOOLEAN]) /\ Enclosed' /\ TakenSeen'
<1>. DEFINE Entry == [inc : BOOLEAN, seen : BOOLEAN]
            e == [inc |-> inc, seen |-> seen]
<1>1. cond_stack \in Seq(Entry) /\ Depth \in Nat /\ e \in Entry
  BY DEF IInv, TypeOK, Depth
<1>2. \A i, j \in 1..Depth : i < j /\ cond_stack[j].inc => cond_stack[i].inc
  BY <1>1 DEF IInv, Enclosed, Depth
<1>s. \A i \in 1..Depth : cond_stack[i].inc => cond_stack[i].seen
  BY <1>1 DEF IInv, TakenSeen, Depth
<1>3. CASE cond_stack' = cond_stack
  BY <1>1, <1>2, <1>s, <1>3 DEF Enclosed, TakenSeen, Depth
<1>4. CASE cond_stack' = Append(cond_stack, e) /\ (inc => IsActive)
  <2>1. cond_stack' \in Seq(Entry) /\ Len(cond_stack') = Depth + 1
    BY <1>1, <1>4 DEF Depth
  <2>2. /\ \A i \in 1..Depth : cond_stack'[i] = cond_stack[i]
        /\ cond_stack'[Depth + 1] = e
    BY <1>1, <1>4 DEF Depth
  <2>3. inc => \A i \in 1..Depth : cond_stack[i].inc
    BY <1>1, <1>4 DEF IsActive, Depth
  <2>4. ASSUME NEW i \in DOMAIN cond_stack', NEW j \in DOMAIN cond_stack', i < j, cond_stack'[j].inc
        PROVE  cond_stack'[i].inc
    <3>1. i \in 1..Depth /\ j \in 1..(Depth + 1)
      BY <1>1, <2>1, <2>4
    <3>2. CASE j = Depth + 1
      BY <2>2, <2>3, <2>4, <3>1, <3>2
    <3>3. CASE j # Depth + 1
      BY <1>1, <1>2, <2>2, <2>4, <3>1, <3>3
    <3>. QED
      BY <3>2, <3>3
  <2>5. TakenSeen'
    BY <1>1, <1>s, <2>1, <2>2 DEF TakenSeen
  <2>. QED
    BY <2>1, <2>4, <2>5 DEF Enclosed
<1>5. CASE /\ cond_stack # <<>>
           /\ cond_stack' = WithTop(inc, seen)
           /\ inc => \A i \in 1..(Depth - 1) : cond_stack[i].inc
  <2>1. Depth \in 1..Depth
    BY <1>1, <1>5 DEF Depth
  <2>2. cond_stack' \in Seq(Entry) /\ Len(cond_stack') = Depth
    BY <1>1, <1>5, <2>1 DEF Depth, WithTop
  <2>3. /\ \A i \in 1..(Depth - 1) : cond_stack'[i] = cond_stack[i]
        /\ cond_stack'[Depth] = e
    BY <1>1, <1>5, <2>1 DEF Depth, WithTop
  <2>4. ASSUME NEW i \in DOMAIN cond_stack', NEW j \in DOMAIN cond_stack', i < j, cond_stack'[j].inc
        PROVE  cond_stack'[i].inc
    <3>1. i \in 1..(Depth - 1) /\ j \in 1..Depth
      BY <1>1, <2>2, <2>4
    <3>2. CASE j = Depth
      BY <1>5, <2>3, <2>4, <3>1, <3>2
    <3>3. CASE j # Depth
      BY <1>1, <1>2, <2>3, <2>4, <3>1, <3>3
    <3>. QED
      BY <3>2, <3>3
  <2>5. TakenSeen'
    BY <1>1, <1>s, <2>2, <2>3 DEF TakenSeen
  <2>. QED
    BY <2>2, <2>4, <2>5 DEF Enclosed
<1>6. CASE cond_stack # <<>> /\ cond_stack' = SubSeq(cond_stack, 1, Depth - 1)
  <2>1. Depth - 1 \in Nat
    BY <1>1, <1>6 DEF Depth
  <2>2. cond_stack' \in Seq(Entry) /\ Len(cond_stack') = Depth - 1
    <3>1. \A i \in 1..(Depth - 1) : cond_stack[i] \in Entry
      <4>1. \A i \in 1..Len(cond_stack) : cond_stack[i] \in Entry
        <5>. HIDE DEF Entry
        <5>. QED
          BY <1>1
      <4>. QED
        BY <2>1, <4>1 DEF Depth
    <3>2. /\ SubSeq(cond_stack, 1, Depth - 1) \in Seq(Entry)
          /\ Len(SubSeq(cond_stack, 1, Depth - 1)) = IF 1 <= Depth - 1 THEN Depth - 1 - 1 + 1 ELSE 0
      <4>. HIDE DEF Entry
      <4>. QED
        BY <2>1, <3>1, SubSeqProperties
    <3>. QED
      BY <1>6, <2>1, <3>2
  <2>3. \A i \in 1..(Depth - 1) : cond_stack'[i] = cond_stack[i]
    BY <1>1, <1>6, <2>1 DEF Depth
  <2>. QED
    BY <1>1, <1>2, <1>s, <2>1, <2>2, <2>3 DEF Enclosed, TakenSeen
<1>. QED
  BY <1>3, <1>4, <1>5, <1>6

\* What the directives do to the stack is one of these.
LEMMA DirectiveKeeps ==
  ASSUME IInv, Ifdef \/ If \/ Elif \/ Else \/ Endif PROVE IInv'
<1>1. PICK inc \in BOOLEAN, seen \in BOOLEAN :
       (inc => seen) /\
        (\/ cond_stack' = cond_stack
         \/ cond_stack' = Append(cond_stack, [inc |-> inc, seen |-> seen]) /\ (inc => IsActive)
         \/ /\ cond_stack # <<>>
            /\ cond_stack' = WithTop(inc, seen)
            /\ inc => \A i \in 1..(Depth - 1) : cond_stack[i].inc
         \/ cond_stack # <<>> /\ cond_stack' = SubSeq(cond_stack, 1, Depth - 1))
  <2>1. CASE Ifdef
    <3>. DEFINE t == IsDefined(joined[pos].name) = (joined[pos].kind = "ifdef") /\ IsActive
    <3>1. t \in BOOLEAN /\ (t => IsActive) /\ cond_stack' = Append(cond_stack, [inc |-> t, seen |-> t])
      BY <2>1 DEF Ifdef, Entered
    <3>. HIDE DEF t
    <3>. QED
      BY <3>1
  <2>2. CASE If
    <3>. DEFINE t == Holds(joined[pos]) /\ IsActive
    <3>1. t \in BOOLEAN /\ (t => IsActive) /\ cond_stack' = Append(cond_stack, [inc |-> t, seen |-> t])
      BY <2>2 DEF If, Entered
    <3>. HIDE DEF t
    <3>. QED
      BY <3>1
  <2>3. CASE Elif
    <3>. DEFINE t == Holds(joined[pos]) /\ IsActive
    <3>1. CASE cond_stack = <<>>
      BY <2>3, <3>1 DEF Elif
    <3>2. CASE cond_stack # <<>> /\ Top.seen
      <4>1. cond_stack' = WithTop(FALSE, TRUE)
        BY <2>3, <3>2 DEF Elif
      <4>. QED
        BY <3>2, <4>1
    <3>3. CASE cond_stack # <<>> /\ ~Top.seen
      <4>1. cond_stack' = WithTop(t, t)
        BY <2>3, <3>3 DEF Elif
      <4>2. t => \A i \in 1..(Depth - 1) : cond_stack[i].inc
        BY DEF IsActive, Depth, IInv, TypeOK
      <4>3. t \in BOOLEAN
        OBVIOUS
      <4>. HIDE DEF t
      <4>. QED
        BY <3>3, <4>1, <4>2, <4>3
    <3>. QED
      BY <3>1, <3>2, <3>3
  <2>4. CASE Else
    <3>. DEFINE t == ~Top.seen /\ \A i \in 1..(Depth - 1) : cond_stack[i].inc
    <3>1. CASE cond_stack = <<>>
      BY <2>4, <3>1 DEF Else
    <3>2. CASE cond_stack # <<>>
      <4>1. t \in BOOLEAN /\ (t => \A i \in 1..(Depth - 1) : cond_stack[i].inc)
        OBVIOUS
      <4>2. cond_stack' = WithTop(t, TRUE)
        BY <2>4, <3>2 DEF Else
      <4>. HIDE DEF t
      <4>. QED
        BY <3>2, <4>1, <4>2
    <3>. QED
      BY <3>1, <3>2
  <2>5. CASE Endif
    BY <2>5 DEF Endif
  <2>. QED
    BY <2>1, <2>2, <2>3, <2>4, <2>5
<1>2. cond_stack' \in Seq([inc : BOOLEAN, seen : BOOLEAN]) /\ Enclosed' /\ TakenSeen'
  BY <1>1, StackKept
<1>3. PICK kinds : At(kinds) /\ Goes
  BY DEF Ifdef, If, Elif, Else, Endif
<1>4. func_defines' = func_defines
  BY DEF Ifdef, If, Elif, Else, Endif, macroVars
<1>. QED
  BY <1>2, <1>3, <1>4, GoesTyped DEF IInv, TypeOK

\* Other lines leave the stack alone.
LEMMA LineKeeps ==
  ASSUME IInv, Define \/ DefineFunc \/ Undef \/ Text \/ Skip PROVE IInv'
<1>1. PICK kinds : At(kinds) /\ Goes /\ cond_stack' = cond_stack
  BY DEF Define, DefineFunc, Undef, Text, Skip
<1>2. joined[pos].name \in Words
  <2>1. joined[pos] \in Line
    BY <1>1, LineReached DEF IInv, At
  <2>. QED
    BY <2>1 DEF Line
<1>3. func_defines' \subseteq Words
  BY <1>2 DEF IInv, TypeOK, Define, DefineFunc, Undef, Text, Skip, macroVars
<1>. QED
  BY <1>1, <1>3, GoesTyped DEF IInv, TypeOK, Enclosed, TakenSeen

\* Every step keeps the invariant: a resolution of includes, a directive or a line.
LEMMA NextKeeps ==
  ASSUME IInv, [Next]_vars PROVE IInv'
<1>1. CASE UNCHANGED vars
  BY <1>1 DEF IInv, TypeOK, Enclosed, TakenSeen, vars, includeVars, macroVars
<1>. QED
  BY <1>1, ResolveKeeps, DirectiveKeeps, LineKeeps DEF Next

\* The invariant holds throughout preprocess.
LEMMA IInvAlways == Spec => []IInv
  BY InitTyped, NextKeeps, PTL DEF Spec

-----------------------------------------------------------------------------
\* The walk over the lines is well typed for every source and set of files.
THEOREM TypeCorrect == Spec => []TypeOK
  BY IInvAlways, PTL DEF IInv

\* No group is kept inside one that is left out, for every nesting.
THEOREM EnclosedAlways == Spec => []Enclosed
  BY IInvAlways, PTL DEF IInv

\* The group of an #elif is never kept, whatever its test and the source: the
\* entry _is_active is asked about says that the group before is not kept.
ElifNeverTaken ==
  [][Elif /\ cond_stack' # <<>> => ~cond_stack'[Len(cond_stack')].inc]_vars

\* A group of #elif is left out by every source that has one, not just by those
\* README section 4 names: preprocess.py:253 records nothing else.
THEOREM ElifNeverTakenAlways == Spec => ElifNeverTaken
<1>1. ASSUME IInv, Elif, cond_stack' # <<>>
      PROVE  ~cond_stack'[Len(cond_stack')].inc
  <2>1. cond_stack \in Seq([inc : BOOLEAN, seen : BOOLEAN]) /\ cond_stack # <<>>
    BY <1>1 DEF IInv, TypeOK, Elif
  <2>2. Depth \in 1..Depth /\ Depth \in DOMAIN cond_stack
    BY <2>1 DEF Depth
  <2>3. ~Top.seen => ~IsActive
    BY <1>1, <2>2 DEF IInv, TakenSeen, Top, IsActive
  <2>4. PICK seen : cond_stack' = WithTop(FALSE, seen)
    <3>1. CASE Top.seen
      BY <1>1, <2>1, <3>1 DEF Elif
    <3>2. CASE ~Top.seen
      <4>. DEFINE t == Holds(joined[pos]) /\ IsActive
      <4>1. cond_stack' = WithTop(t, t)
        BY <1>1, <2>1, <3>2 DEF Elif
      <4>2. t = FALSE
        BY <2>3, <3>2
      <4>. QED
        BY <4>1, <4>2
    <3>. QED
      BY <3>1, <3>2
  <2>5. Len(cond_stack') = Depth /\ cond_stack'[Depth] = [inc |-> FALSE, seen |-> seen]
    BY <2>1, <2>2, <2>4 DEF WithTop, Depth
  <2>. QED
    BY <2>5
<1>2. IInv /\ [Next]_vars
      => [Elif /\ cond_stack' # <<>> => ~cond_stack'[Len(cond_stack')].inc]_vars
  BY <1>1
<1>. QED
  BY <1>2, IInvAlways, PTL DEF Spec, ElifNeverTaken
=============================================================================
