-------------------------- MODULE WidenCacheProofs --------------------------
(***************************************************************************)
(* Proofs about WidenCache.  Lines is a recursive function over the        *)
(* instructions of a block; LinesFacts says what it leaves, by induction   *)
(* over them.  Code has that form for every block emitted so far, and the  *)
(* run of the code keeps what has been converted current.                  *)
(***************************************************************************)
EXTENDS WidenCache, Induction, SequenceTheorems, TLAPS

WideRead(v) == [op |-> "wide", src |-> v]
CodeLines == [op : {"def", "wide", "cvt"}, src : Sources]

\* What n instructions leave, from a cache with the entries known.  A wide read
\* is one of theirs, and finds an entry or a conversion before it.
ReadsConverted(insts, n, known, lines) ==
  \A j \in 1..Len(lines) : lines[j].op = "wide" =>
    /\ \E m \in 1..n : insts[m] = lines[j]
    /\ \/ lines[j].src \in known
       \/ \E i \in 1..(j - 1) : lines[i] = Cvt(lines[j].src)

\* A write is one of theirs, and comes after a conversion of what it writes only
\* where it came after a wide read.
WritesInOrder(insts, n, lines) ==
  \A j \in 1..Len(lines) : lines[j].op = "def" =>
    \E m \in 1..n :
      /\ insts[m] = lines[j]
      /\ \A i \in 1..(j - 1) : lines[i] = Cvt(lines[j].src) =>
           \E p \in 1..(m - 1) : insts[p] = WideRead(lines[j].src)

\* A conversion is for a wide read without an entry.
ConvertsNew(insts, n, known, lines) ==
  \A j \in 1..Len(lines) : lines[j].op = "cvt" =>
    /\ lines[j].src \notin known
    /\ \E m \in 1..n : insts[m] = WideRead(lines[j].src)

\* Every wide read finds an entry or is converted.
AllConverted(insts, n, known, lines) ==
  \A m \in 1..n : insts[m].op = "wide" =>
    \/ insts[m].src \in known
    \/ \E j \in 1..Len(lines) : lines[j] = Cvt(insts[m].src)

ConvertsOnce(lines) ==
  \A i, j \in 1..Len(lines) : lines[i].op = "cvt" /\ lines[i] = lines[j] => i = j

Emitted(insts, n, known, lines) ==
  /\ lines \in Seq(CodeLines)
  /\ ReadsConverted(insts, n, known, lines)
  /\ WritesInOrder(insts, n, lines)
  /\ ConvertsNew(insts, n, known, lines)
  /\ AllConverted(insts, n, known, lines)
  /\ ConvertsOnce(lines)

\* The entries of the cache then: those there were, and the sources converted.
Entries(known, lines) ==
  known \union {v \in Sources : \E j \in 1..Len(lines) : lines[j] = Cvt(v)}

OneMore(prev, x) ==
  IF x.op = "wide" /\ x.src \notin prev.known
    THEN [lines |-> prev.lines \o <<Cvt(x.src), x>>, known |-> prev.known \union {x.src}]
    ELSE [prev EXCEPT !.lines = Append(@, x)]

\* An instruction other than the first wide read of a source adds its line.
LEMMA AppendLine ==
  ASSUME NEW insts \in Seq(Instructions), NEW n \in Nat, NEW q \in 1..Len(insts), q = n + 1,
         NEW known, known \subseteq Sources, NEW lines, Emitted(insts, n, known, lines),
         insts[q].op = "wide" => insts[q].src \in Entries(known, lines)
  PROVE  /\ Emitted(insts, q, known, Append(lines, insts[q]))
         /\ Entries(known, Append(lines, insts[q])) = Entries(known, lines)
<1> PICK x, new : x = insts[q] /\ new = Append(lines, x)
  OBVIOUS
<1>1. x \in Instructions /\ x \in CodeLines /\ x.op \in {"def", "wide"} /\ x.src \in Sources
  <2>1. x \in Instructions
    OBVIOUS
  <2> QED
    BY <2>1 DEF Instructions, CodeLines
<1>2. lines \in Seq(CodeLines) /\ Len(lines) \in Nat
  BY DEF Emitted, ReadsConverted, WritesInOrder, ConvertsNew, AllConverted, ConvertsOnce
<1>3. /\ new \in Seq(CodeLines) /\ Len(new) = Len(lines) + 1 /\ new[Len(lines) + 1] = x
      /\ \A j \in 1..Len(lines) : new[j] = lines[j]
  BY <1>1, <1>2
<1>4. \A j \in 1..Len(new) : j \in 1..Len(lines) \/ (j = Len(lines) + 1 /\ new[j] = x)
  BY <1>2, <1>3
<1>5. x.op # "cvt"
  BY <1>1
<1>6. \A v : Cvt(v).op = "cvt" /\ Cvt(v).src = v
  BY DEF Cvt
<1>7. \A v : (\E j \in 1..Len(new) : new[j] = Cvt(v)) <=> (\E j \in 1..Len(lines) : lines[j] = Cvt(v))
  BY <1>2, <1>3, <1>4, <1>5, <1>6
<1>8. Entries(known, new) = Entries(known, lines)
  BY <1>7 DEF Entries
<1>9. ASSUME NEW j \in 1..Len(new), new[j].op = "wide"
      PROVE  /\ \E m \in 1..(n + 1) : insts[m] = new[j]
             /\ new[j].src \in known \/ \E i \in 1..(j - 1) : new[i] = Cvt(new[j].src)
  <2>1. CASE j \in 1..Len(lines)
    <3>1. new[j] = lines[j] /\ \A i \in 1..(j - 1) : new[i] = lines[i]
      BY <1>2, <1>3, <2>1
    <3> QED
      BY <1>9, <2>1, <3>1 DEF Emitted, ReadsConverted, WritesInOrder, ConvertsNew, AllConverted, ConvertsOnce
  <2>2. CASE j = Len(lines) + 1 /\ new[j] = x
    <3>1. x.src \in known \/ \E i \in 1..Len(lines) : lines[i] = Cvt(x.src)
      BY <1>9, <2>2 DEF Entries
    <3> QED
      BY <1>2, <1>3, <2>2, <3>1
  <2> QED
    BY <1>4, <2>1, <2>2
<1>10. ASSUME NEW j \in 1..Len(new), new[j].op = "def"
       PROVE  \E m \in 1..(n + 1) :
                /\ insts[m] = new[j]
                /\ \A i \in 1..(j - 1) : new[i] = Cvt(new[j].src) =>
                     \E p \in 1..(m - 1) : insts[p] = WideRead(new[j].src)
  <2>1. CASE j \in 1..Len(lines)
    <3>1. new[j] = lines[j] /\ \A i \in 1..(j - 1) : new[i] = lines[i]
      BY <1>2, <1>3, <2>1
    <3>2. PICK m \in 1..n :
            /\ insts[m] = lines[j]
            /\ \A i \in 1..(j - 1) : lines[i] = Cvt(lines[j].src) =>
                 \E p \in 1..(m - 1) : insts[p] = WideRead(lines[j].src)
      BY <1>10, <2>1, <3>1 DEF Emitted, ReadsConverted, WritesInOrder, ConvertsNew, AllConverted, ConvertsOnce
    <3> QED
      BY <3>1, <3>2
  <2>2. CASE j = Len(lines) + 1 /\ new[j] = x
    <3>1. ASSUME NEW i \in 1..(j - 1), new[i] = Cvt(x.src)
          PROVE  \E p \in 1..n : insts[p] = WideRead(x.src)
      <4>1. i \in 1..Len(lines) /\ lines[i] = Cvt(x.src)
        BY <1>2, <1>3, <2>2, <3>1
      <4> QED
        BY <4>1, <1>6 DEF Emitted, ConvertsNew
    <3>2. n + 1 \in 1..(n + 1) /\ (n + 1) - 1 = n
      OBVIOUS
    <3> QED
      BY <2>2, <3>1, <3>2
  <2> QED
    BY <1>4, <2>1, <2>2
<1>11. ASSUME NEW j \in 1..Len(new), new[j].op = "cvt"
       PROVE  /\ new[j].src \notin known
              /\ \E m \in 1..(n + 1) : insts[m] = WideRead(new[j].src)
  BY <1>3, <1>4, <1>5, <1>11 DEF Emitted, ReadsConverted, WritesInOrder, ConvertsNew, AllConverted, ConvertsOnce
<1>12. ASSUME NEW m \in 1..(n + 1), insts[m].op = "wide"
       PROVE  insts[m].src \in known \/ \E j \in 1..Len(new) : new[j] = Cvt(insts[m].src)
  <2>1. CASE m \in 1..n
    BY <1>7, <1>12, <2>1 DEF Emitted, ReadsConverted, WritesInOrder, ConvertsNew, AllConverted, ConvertsOnce
  <2>2. CASE m = n + 1
    BY <1>7, <1>12, <2>2 DEF Entries
  <2> QED
    BY <2>1, <2>2
<1>13. ASSUME NEW i \in 1..Len(new), NEW j \in 1..Len(new), new[i].op = "cvt", new[i] = new[j]
       PROVE  i = j
  BY <1>3, <1>4, <1>5, <1>13 DEF Emitted, ReadsConverted, WritesInOrder, ConvertsNew, AllConverted, ConvertsOnce
<1>14. ReadsConverted(insts, n + 1, known, new)
  BY <1>9 DEF ReadsConverted
<1>15. WritesInOrder(insts, n + 1, new)
  BY <1>10 DEF WritesInOrder
<1>16. ConvertsNew(insts, n + 1, known, new)
  BY <1>11 DEF ConvertsNew
<1>17. AllConverted(insts, n + 1, known, new)
  BY <1>12 DEF AllConverted
<1>18. ConvertsOnce(new)
  BY <1>13 DEF ConvertsOnce
<1> QED
  BY <1>3, <1>8, <1>14, <1>15, <1>16, <1>17, <1>18 DEF Emitted

\* The first wide read of a source adds the conversion and its own line.
LEMMA AppendConversion ==
  ASSUME NEW insts \in Seq(Instructions), NEW n \in Nat, NEW q \in 1..Len(insts), q = n + 1,
         NEW known, known \subseteq Sources, NEW lines, Emitted(insts, n, known, lines),
         insts[q].op = "wide", insts[q].src \notin Entries(known, lines)
  PROVE  /\ Emitted(insts, q, known, lines \o <<Cvt(insts[q].src), insts[q]>>)
         /\ Entries(known, lines \o <<Cvt(insts[q].src), insts[q]>>)
              = Entries(known, lines) \union {insts[q].src}
<1> PICK x, new : x = insts[q] /\ new = lines \o <<Cvt(x.src), x>>
  OBVIOUS
<1> PICK L : L = Len(lines)
  OBVIOUS
<1>1. x \in Instructions /\ x \in CodeLines /\ x.op = "wide" /\ x.src \in Sources
      /\ x = WideRead(x.src)
  <2>1. x \in Instructions
    OBVIOUS
  <2>2. x \in CodeLines /\ x.src \in Sources
    BY <2>1 DEF Instructions, CodeLines
  <2>3. x = [op |-> x.op, src |-> x.src]
    BY <2>1 DEF Instructions
  <2> QED
    BY <2>1, <2>2, <2>3 DEF WideRead
<1>2. lines \in Seq(CodeLines) /\ L \in Nat
  BY DEF Emitted, ReadsConverted, WritesInOrder, ConvertsNew, AllConverted, ConvertsOnce
<1>3. Cvt(x.src) \in CodeLines /\ \A v : Cvt(v).op = "cvt" /\ Cvt(v).src = v
  BY <1>1 DEF Cvt, CodeLines
<1>4. /\ new \in Seq(CodeLines) /\ Len(new) = L + 2
      /\ new[L + 1] = Cvt(x.src) /\ new[L + 2] = x
      /\ \A j \in 1..L : new[j] = lines[j]
  <2>1. <<Cvt(x.src), x>> \in Seq(CodeLines) /\ Len(<<Cvt(x.src), x>>) = 2
    BY <1>1, <1>3
  <2> QED
    BY <1>2, <2>1
<1>5. \A j \in 1..Len(new) : \/ j \in 1..L /\ new[j] = lines[j]
                             \/ j = L + 1 /\ new[j] = Cvt(x.src)
                             \/ j = L + 2 /\ new[j] = x
  BY <1>2, <1>4
<1>6. \A v : (\E j \in 1..Len(new) : new[j] = Cvt(v))
               <=> (v = x.src \/ \E j \in 1..L : lines[j] = Cvt(v))
  <2>1. ASSUME NEW v, NEW j \in 1..Len(new), new[j] = Cvt(v)
        PROVE  v = x.src \/ \E i \in 1..L : lines[i] = Cvt(v)
    BY <1>1, <1>3, <1>5, <2>1
  <2>2. ASSUME NEW v, v = x.src \/ \E j \in 1..L : lines[j] = Cvt(v)
        PROVE  \E j \in 1..Len(new) : new[j] = Cvt(v)
    <3>1. L + 1 \in 1..Len(new) /\ 1..L \subseteq 1..Len(new)
      BY <1>2, <1>4
    <3> QED
      BY <1>4, <2>2, <3>1
  <2> QED
    BY <2>1, <2>2
<1>7. Entries(known, new) = Entries(known, lines) \union {x.src}
  BY <1>1, <1>6 DEF Entries
<1>8. x.src \notin known /\ \A j \in 1..L : lines[j] # Cvt(x.src)
  BY <1>1 DEF Entries
<1>9. ASSUME NEW j \in 1..Len(new), new[j].op = "wide"
      PROVE  /\ \E m \in 1..(n + 1) : insts[m] = new[j]
             /\ new[j].src \in known \/ \E i \in 1..(j - 1) : new[i] = Cvt(new[j].src)
  <2>1. CASE j \in 1..L /\ new[j] = lines[j]
    <3>1. \A i \in 1..(j - 1) : new[i] = lines[i]
      BY <1>2, <1>4, <2>1
    <3>2. j \in 1..Len(lines) /\ lines[j].op = "wide"
      BY <1>9, <2>1
    <3>3. /\ \E m \in 1..n : insts[m] = lines[j]
          /\ lines[j].src \in known \/ \E i \in 1..(j - 1) : lines[i] = Cvt(lines[j].src)
      BY <3>2 DEF Emitted, ReadsConverted, WritesInOrder, ConvertsNew, AllConverted, ConvertsOnce
    <3> QED
      BY <2>1, <3>1, <3>3
  <2>2. CASE j = L + 1 /\ new[j] = Cvt(x.src)
    BY <1>3, <1>9, <2>2
  <2>3. CASE j = L + 2 /\ new[j] = x
    <3>1. L + 1 \in 1..(j - 1)
      BY <1>2, <2>3
    <3> QED
      BY <1>4, <2>3, <3>1
  <2> QED
    BY <1>5, <2>1, <2>2, <2>3
<1>10. ASSUME NEW j \in 1..Len(new), new[j].op = "def"
       PROVE  \E m \in 1..(n + 1) :
                /\ insts[m] = new[j]
                /\ \A i \in 1..(j - 1) : new[i] = Cvt(new[j].src) =>
                     \E p \in 1..(m - 1) : insts[p] = WideRead(new[j].src)
  <2>1. j \in 1..L /\ new[j] = lines[j]
    BY <1>1, <1>3, <1>5, <1>10
  <2>2. \A i \in 1..(j - 1) : new[i] = lines[i]
    BY <1>2, <1>4, <2>1
  <2>3. PICK m \in 1..n :
          /\ insts[m] = lines[j]
          /\ \A i \in 1..(j - 1) : lines[i] = Cvt(lines[j].src) =>
               \E p \in 1..(m - 1) : insts[p] = WideRead(lines[j].src)
    BY <1>10, <2>1 DEF Emitted, ReadsConverted, WritesInOrder, ConvertsNew, AllConverted, ConvertsOnce
  <2> QED
    BY <2>1, <2>2, <2>3
<1>11. ASSUME NEW j \in 1..Len(new), new[j].op = "cvt"
       PROVE  /\ new[j].src \notin known
              /\ \E m \in 1..(n + 1) : insts[m] = WideRead(new[j].src)
  <2>1. CASE j \in 1..L /\ new[j] = lines[j]
    BY <1>11, <2>1 DEF Emitted, ReadsConverted, WritesInOrder, ConvertsNew, AllConverted, ConvertsOnce
  <2>2. CASE j = L + 1 /\ new[j] = Cvt(x.src)
    BY <1>1, <1>3, <1>8, <2>2
  <2>3. CASE j = L + 2 /\ new[j] = x
    BY <1>1, <1>11, <2>3
  <2> QED
    BY <1>5, <2>1, <2>2, <2>3
<1>12. ASSUME NEW m \in 1..(n + 1), insts[m].op = "wide"
       PROVE  insts[m].src \in known \/ \E j \in 1..Len(new) : new[j] = Cvt(insts[m].src)
  <2>1. CASE m \in 1..n
    BY <1>6, <1>12, <2>1 DEF Emitted, ReadsConverted, WritesInOrder, ConvertsNew, AllConverted, ConvertsOnce
  <2>2. CASE m = n + 1
    BY <1>6, <2>2
  <2> QED
    BY <2>1, <2>2
<1>13. ASSUME NEW i \in 1..Len(new), NEW j \in 1..Len(new), new[i].op = "cvt", new[i] = new[j]
       PROVE  i = j
  <2>1. \A r \in 1..Len(new) : new[r] = new[i] =>
          (r \in 1..L /\ new[r] = lines[r]) \/ (r = L + 1 /\ new[r] = Cvt(x.src))
    <3>1. \A r \in 1..Len(new) : new[r] = new[i] => new[r] # x
      BY <1>1, <1>13
    <3> QED
      BY <1>5, <3>1
  <2>2. CASE i \in 1..L /\ new[i] = lines[i]
    BY <1>8, <1>13, <2>1, <2>2 DEF Emitted, ReadsConverted, WritesInOrder, ConvertsNew, AllConverted, ConvertsOnce
  <2>3. CASE i = L + 1 /\ new[i] = Cvt(x.src)
    BY <1>8, <1>13, <2>1, <2>3
  <2> QED
    BY <2>1, <2>2, <2>3
<1>14. ReadsConverted(insts, n + 1, known, new)
  BY <1>9 DEF ReadsConverted
<1>15. WritesInOrder(insts, n + 1, new)
  BY <1>10 DEF WritesInOrder
<1>16. ConvertsNew(insts, n + 1, known, new)
  BY <1>11 DEF ConvertsNew
<1>17. AllConverted(insts, n + 1, known, new)
  BY <1>12 DEF AllConverted
<1>18. ConvertsOnce(new)
  BY <1>13 DEF ConvertsOnce
<1> QED
  BY <1>4, <1>7, <1>14, <1>15, <1>16, <1>17, <1>18 DEF Emitted

\* The lines of a block and the cache after them.
LEMMA LinesFacts ==
  ASSUME NEW insts \in Seq(Instructions), NEW known, known \subseteq Sources
  PROVE  /\ Emitted(insts, Len(insts), known, Lines(insts, known).lines)
         /\ Lines(insts, known).known = Entries(known, Lines(insts, known).lines)
<1> DEFINE N == Len(insts)
           S == [lines : Seq(CodeLines), known : SUBSET Sources]
           start == [lines |-> <<>>, known |-> known]
           D == [p \in S \X (1..N) |-> OneMore(p[1], insts[p[2]])]
           Is(f) == f = [i \in 0..N |-> IF i = 0 THEN start ELSE OneMore(f[i - 1], insts[i])]
           step == CHOOSE f : Is(f)
<1>1. N \in Nat /\ start \in S
  OBVIOUS
<1>2. ASSUME NEW w \in S, NEW i \in 1..N PROVE OneMore(w, insts[i]) \in S
  <2>1. insts[i] \in CodeLines /\ Cvt(insts[i].src) \in CodeLines /\ insts[i].src \in Sources
    <3>1. insts[i] \in Instructions
      OBVIOUS
    <3> HIDE DEF N
    <3> QED
      BY <3>1 DEF Instructions, CodeLines, Cvt
  <2>2. w.lines \in Seq(CodeLines) /\ w.known \subseteq Sources
    OBVIOUS
  <2>3. Append(w.lines, insts[i]) \in Seq(CodeLines)
    BY <2>1, <2>2
  <2>4. w.lines \o <<Cvt(insts[i].src), insts[i]>> \in Seq(CodeLines)
    BY <2>1, <2>2
  <2> QED
    BY <2>1, <2>2, <2>3, <2>4 DEF OneMore
<1>3. D \in [S \X (1..N) -> S]
  BY <1>2
<1>4. \A w \in S, i \in 1..N : D[<<w, i>>] = OneMore(w, insts[i])
  OBVIOUS
<1> HIDE DEF D, start, S
<1>5. PICK g \in [0..N -> S] : Recursive(N, start, D, g)
  BY <1>1, <1>3, RecursionExists
<1>6. ASSUME NEW i \in 0..N PROVE g[i] = IF i = 0 THEN start ELSE OneMore(g[i - 1], insts[i])
  <2>1. CASE i = 0
    BY <1>1, <1>5, <2>1 DEF Recursive
  <2>2. CASE i # 0
    <3>1. i \in 1..N /\ i - 1 \in 0..N
      BY <1>1, <2>2
    <3>2. g[i] = D[<<g[i - 1], i>>] /\ g[i - 1] \in S
      BY <1>5, <2>2, <3>1 DEF Recursive
    <3> QED
      BY <2>2, <3>1, <3>2, <1>4
  <2> QED
    BY <2>1, <2>2
<1>7. Is(g)
  BY <1>6
<1>8. Is(step)
  BY <1>7
<1>9. Lines(insts, known) = step[N]
  BY DEF Lines, start, OneMore
<1> HIDE DEF step
<1>10. \A i \in 0..N : step[i] = IF i = 0 THEN start ELSE OneMore(step[i - 1], insts[i])
  BY <1>8
<1> HIDE DEF Is
<1> DEFINE Good == {i \in 0..N :
             /\ Emitted(insts, i, known, step[i].lines)
             /\ step[i].known = Entries(known, step[i].lines)}
<1>11. 0 \in Good
  <2>1. step[0] = start /\ 0 \in 0..N
    BY <1>1, <1>10
  <2>2. step[0].lines = <<>> /\ step[0].known = known
    BY <2>1 DEF start
  <2>3. 1..0 = {} /\ Len(<<>>) = 0 /\ <<>> \in Seq(CodeLines)
    OBVIOUS
  <2>4. Emitted(insts, 0, known, <<>>)
    BY <2>3 DEF Emitted, ReadsConverted, WritesInOrder, ConvertsNew, AllConverted, ConvertsOnce
  <2>5. Entries(known, <<>>) = known
    BY <2>3 DEF Entries
  <2> QED
    BY <2>1, <2>2, <2>4, <2>5
<1>12. ASSUME NEW i \in 0..N, i \in Good, i < N PROVE i + 1 \in Good
  <2>1. i + 1 \in 0..N /\ i + 1 \in 1..N /\ i + 1 # 0 /\ (i + 1) - 1 = i /\ i \in Nat
    BY <1>1, <1>12
  <2>2. step[i + 1] = OneMore(step[i], insts[i + 1])
    BY <1>10, <2>1
  <2> PICK prev, x : prev = step[i] /\ x = insts[i + 1]
    OBVIOUS
  <2>3. Emitted(insts, i, known, prev.lines) /\ prev.known = Entries(known, prev.lines)
    BY <1>12
  <2>4. CASE x.op = "wide" /\ x.src \notin prev.known
    <3>1. /\ step[i + 1].lines = prev.lines \o <<Cvt(x.src), x>>
          /\ step[i + 1].known = prev.known \union {x.src}
      BY <2>2, <2>4 DEF OneMore
    <3> PICK q : q = i + 1
      OBVIOUS
    <3>2. /\ Emitted(insts, q, known, prev.lines \o <<Cvt(insts[q].src), insts[q]>>)
          /\ Entries(known, prev.lines \o <<Cvt(insts[q].src), insts[q]>>)
               = Entries(known, prev.lines) \union {insts[q].src}
      <4>1. /\ i \in Nat /\ q \in 1..Len(insts)
            /\ insts[q].op = "wide" /\ insts[q].src \notin Entries(known, prev.lines)
        BY <2>1, <2>3, <2>4
      <4> HIDE DEF N
      <4> QED
        BY <4>1, <2>3, AppendConversion
    <3> QED
      BY <2>1, <2>3, <3>1, <3>2
  <2>5. CASE ~(x.op = "wide" /\ x.src \notin prev.known)
    <3>1. step[i + 1] = [prev EXCEPT !.lines = Append(@, x)]
      BY <2>2, <2>5 DEF OneMore
    <3>2. step[i + 1].lines = Append(prev.lines, x) /\ step[i + 1].known = prev.known
      <4>1. prev \in [lines : Seq(CodeLines), known : SUBSET Sources]
        <5>1. \A q \in 0..N : q \in {r \in 0..N : step[r] \in S}
          <6> DEFINE T == {r \in 0..N : step[r] \in S}
          <6>1. 0 \in T
            BY <1>1, <1>10
          <6>2. ASSUME NEW r \in 0..N, r \in T, r < N PROVE r + 1 \in T
            <7>1. r + 1 \in 0..N /\ r + 1 \in 1..N /\ r + 1 # 0 /\ (r + 1) - 1 = r
              BY <1>1, <6>2
            <7>2. step[r + 1] = OneMore(step[r], insts[r + 1])
              BY <1>10, <7>1
            <7> QED
              BY <1>2, <6>2, <7>1, <7>2
          <6> HIDE DEF T
          <6>3. 0..N \subseteq T
            BY <1>1, <6>1, <6>2, UpTo
          <6> QED
            BY <6>3 DEF T
        <5> QED
          BY <5>1, <2>1 DEF S
      <4> QED
        BY <3>1, <4>1
    <3> PICK q : q = i + 1
      OBVIOUS
    <3>3. /\ Emitted(insts, q, known, Append(prev.lines, insts[q]))
          /\ Entries(known, Append(prev.lines, insts[q])) = Entries(known, prev.lines)
      <4>1. /\ i \in Nat /\ q \in 1..Len(insts)
            /\ (insts[q].op = "wide" => insts[q].src \in Entries(known, prev.lines))
        BY <2>1, <2>3, <2>5
      <4> HIDE DEF N
      <4> QED
        BY <4>1, <2>3, AppendLine
    <3> QED
      BY <2>1, <2>3, <3>2, <3>3
  <2> QED
    BY <2>4, <2>5
<1> HIDE DEF Good
<1>13. N \in Good
  <2>1. \A i \in 0..N : i \in Good /\ i < N => i + 1 \in Good
    BY <1>12
  <2>2. 0..N \subseteq Good
    BY <1>1, <1>11, <2>1, UpTo
  <2> QED
    BY <1>1, <2>2
<1> QED
  BY <1>9, <1>13 DEF Good

-----------------------------------------------------------------------------
(***************************************************************************)
(* Emission.                                                               *)
(***************************************************************************)
\* The sources that a block before b reads as 64 bits.
Before(k, b) == {v \in Sources : \E c \in Readers(k, v) : c < b}

BlockEmitted(b) ==
  Emitted(kernel[b].insts, Len(kernel[b].insts), Before(kernel, b), code[b])

\* The cache has the sources read so far, and every block emitted so far has
\* been emitted from the sources read before it.
CacheInv ==
  /\ kernel \in Kernels /\ units \in 1..MaxUnits
  /\ block \in 1..Len(kernel) /\ inst \in Nat \ {0} /\ current \subseteq Sources
  /\ code \in Seq(Seq(CodeLines)) /\ Len(code) <= Len(kernel)
  /\ Len(code) < Len(kernel) => block = Len(code) + 1 /\ inst = 1 /\ current = {}
  /\ cache = Before(kernel, Len(code) + 1)
  /\ \A b \in 1..Len(code) : BlockEmitted(b)

\* What WidenCacheAssumption says of a kernel.
LEMMA KernelFacts ==
  ASSUME NEW k \in Kernels
  PROVE  /\ Len(k) \in Nat /\ Len(k) >= 1 /\ DOMAIN k = 1..Len(k)
         /\ \A b \in 1..Len(k) :
              /\ k[b].insts \in Seq(Instructions) /\ Len(k[b].insts) \in Nat
              /\ DOMAIN k[b].insts = 1..Len(k[b].insts)
              /\ \A e \in DOMAIN k[b].to : k[b].to[e] \in 1..Len(k)
<1>1. k \in Seq([insts : Seq(Instructions), to : Seq(Nat)]) /\ k # <<>>
  BY WidenCacheAssumption
<1>2. Len(k) \in Nat /\ Len(k) >= 1 /\ DOMAIN k = 1..Len(k)
  BY <1>1
<1>3. ASSUME NEW b \in 1..Len(k)
      PROVE  /\ k[b].insts \in Seq(Instructions) /\ Len(k[b].insts) \in Nat
             /\ DOMAIN k[b].insts = 1..Len(k[b].insts)
  <2>1. k[b] \in [insts : Seq(Instructions), to : Seq(Nat)]
    BY <1>1, ElementOfSeq
  <2>2. k[b].insts \in Seq(Instructions)
    BY <2>1
  <2> QED
    BY <2>2
<1>4. \A b \in 1..Len(k) : \A e \in DOMAIN k[b].to : k[b].to[e] \in 1..Len(k)
  BY <1>2, WidenCacheAssumption
<1> QED
  BY <1>2, <1>3, <1>4

\* The blocks that read v are among those of the kernel.
LEMMA ReadersFacts ==
  ASSUME NEW k \in Kernels, NEW v
  PROVE  /\ Readers(k, v) \subseteq 1..Len(k)
         /\ \A b \in 1..Len(k) : b \in Readers(k, v)
              <=> \E i \in 1..Len(k[b].insts) : k[b].insts[i] = WideRead(v)
BY KernelFacts DEF Readers, WideRead

\* The first of them, and there is none before it.
LEMMA ConverterFacts ==
  ASSUME NEW k \in Kernels, NEW v \in Sources, Readers(k, v) # {}
  PROVE  /\ Converter(k, v) \in Readers(k, v) /\ Converter(k, v) \in 1..Len(k)
         /\ \A b \in Readers(k, v) : Converter(k, v) <= b
         /\ v \notin Before(k, Converter(k, v))
<1>1. Readers(k, v) \subseteq Nat /\ Readers(k, v) \subseteq 1..Len(k)
  BY ReadersFacts, KernelFacts
<1>2. \E b \in Readers(k, v) : \A c \in Readers(k, v) : b <= c
  BY <1>1, LeastNat
<1>3. Converter(k, v) \in Readers(k, v) /\ \A b \in Readers(k, v) : Converter(k, v) <= b
  BY <1>2 DEF Converter
<1> QED
  BY <1>1, <1>3 DEF Before

\* After a block the cache has what the blocks up to it read.
LEMMA EntriesAreBefore ==
  ASSUME NEW k \in Kernels, NEW b \in 1..Len(k), NEW lines,
         Emitted(k[b].insts, Len(k[b].insts), Before(k, b), lines)
  PROVE  Entries(Before(k, b), lines) = Before(k, b + 1)
<1> DEFINE insts == k[b].insts
<1>1. b \in Nat /\ insts \in Seq(Instructions)
  BY KernelFacts
<1>2. \A v : Readers(k, v) \subseteq Nat
  BY ReadersFacts, KernelFacts
<1>3. ASSUME NEW v \in Sources, v \in Entries(Before(k, b), lines)
      PROVE  v \in Before(k, b + 1)
  <2>1. CASE v \in Before(k, b)
    BY <1>1, <1>2, <2>1 DEF Before
  <2>2. CASE \E j \in 1..Len(lines) : lines[j] = Cvt(v)
    <3>1. \E m \in 1..Len(insts) : insts[m] = WideRead(v)
      BY <2>2 DEF Emitted, ConvertsNew, Cvt
    <3>2. b \in Readers(k, v)
      BY <3>1, ReadersFacts
    <3> QED
      BY <1>1, <3>2 DEF Before
  <2> QED
    BY <1>3, <2>1, <2>2 DEF Entries
<1>4. ASSUME NEW v \in Sources, v \in Before(k, b + 1)
      PROVE  v \in Entries(Before(k, b), lines)
  <2>1. PICK c \in Readers(k, v) : c < b + 1
    BY <1>4 DEF Before
  <2>2. CASE c < b
    BY <2>1, <2>2 DEF Before, Entries
  <2>3. CASE c = b
    <3>1. PICK m \in 1..Len(insts) : insts[m] = WideRead(v)
      BY <2>1, <2>3, ReadersFacts
    <3>2. insts[m].op = "wide" /\ insts[m].src = v
      BY <3>1 DEF WideRead
    <3> QED
      BY <3>1, <3>2 DEF Emitted, AllConverted, Entries
  <2> QED
    BY <1>1, <1>2, <2>1, <2>2, <2>3
<1> QED
  BY <1>3, <1>4 DEF Entries, Before

\* Nothing is read before the first block.
LEMMA NothingBefore ==
  ASSUME NEW k \in Kernels
  PROVE  Before(k, 1) = {}
BY ReadersFacts, KernelFacts DEF Before

\* A kernel that is started, the first one or the next.
LEMMA StartCacheInv ==
  ASSUME kernel' \in Kernels, units' \in 1..MaxUnits, block' = 1, inst' = 1,
         cache' = {}, code' = <<>>, current' = {}
  PROVE  CacheInv'
<1>1. Len(kernel') \in Nat /\ Len(kernel') >= 1
  BY KernelFacts
<1>2. code' \in Seq(Seq(CodeLines)) /\ Len(code') = 0 /\ 1..0 = {}
  OBVIOUS
<1>3. Before(kernel', 1) = {}
  BY NothingBefore
<1> QED
  BY <1>1, <1>2, <1>3 DEF CacheInv

\* The emitter begins the first kernel with an empty cache and no code.
LEMMA InitCacheInv == Init => CacheInv
<1> SUFFICES ASSUME Init PROVE CacheInv
  OBVIOUS
<1>1. kernel \in Kernels /\ units \in 1..MaxUnits /\ block = 1 /\ inst = 1
      /\ cache = {} /\ code = <<>> /\ current = {}
  BY WidenCacheAssumption DEF Init
<1>2. Len(kernel) \in Nat /\ Len(kernel) >= 1
  BY <1>1, KernelFacts
<1>3. code \in Seq(Seq(CodeLines)) /\ Len(code) = 0 /\ 1..0 = {}
  BY <1>1
<1>4. Before(kernel, 1) = {}
  BY <1>1, NothingBefore
<1> QED
  BY <1>1, <1>2, <1>3, <1>4 DEF CacheInv

\* The next block is emitted from the entries that the blocks before it left.
LEMMA EmitBlockCacheInv ==
  ASSUME CacheInv, EmitBlock
  PROVE  CacheInv' /\ Len(code') = Len(code) + 1
<1> PICK known, lines, n, insts :
      /\ known = Lines(kernel[block].insts, cache).known
      /\ lines = Lines(kernel[block].insts, cache).lines
      /\ n = Len(code) + 1 /\ insts = kernel[block].insts
  OBVIOUS
<1>1. /\ kernel' = kernel /\ units' = units /\ inst' = inst /\ current' = current
      /\ code' = Append(code, lines) /\ cache' = known
      /\ block' = IF block = Len(kernel) THEN 1 ELSE block + 1
      /\ Len(code) < Len(kernel)
  BY DEF EmitBlock, Emitting, NumBlocks
<1>2. /\ kernel \in Kernels /\ units \in 1..MaxUnits /\ block \in 1..Len(kernel)
      /\ inst \in Nat \ {0} /\ current \subseteq Sources
      /\ code \in Seq(Seq(CodeLines)) /\ block = n /\ inst = 1 /\ current = {}
      /\ cache = Before(kernel, n)
      /\ \A b \in 1..Len(code) : BlockEmitted(b)
  BY <1>1 DEF CacheInv
<1>3. Len(kernel) \in Nat /\ insts \in Seq(Instructions)
  BY <1>2, KernelFacts
<1>4. cache \subseteq Sources
  BY <1>2 DEF Before
<1>5. Emitted(insts, Len(insts), cache, lines) /\ known = Entries(cache, lines)
  BY <1>3, <1>4, LinesFacts
<1>6. known = Before(kernel, n + 1)
  BY <1>2, <1>5, EntriesAreBefore
<1>7. lines \in Seq(CodeLines)
  BY <1>5 DEF Emitted
<1>8. /\ code' \in Seq(Seq(CodeLines)) /\ Len(code') = n /\ n \in Nat
      /\ code'[n] = lines /\ \A b \in 1..Len(code) : code'[b] = code[b]
  BY <1>1, <1>2, <1>7
<1>9. ASSUME NEW b \in 1..Len(code') PROVE BlockEmitted(b)'
  <2>1. CASE b \in 1..Len(code)
    BY <1>1, <1>2, <1>8, <2>1 DEF BlockEmitted
  <2>2. CASE b = n
    BY <1>1, <1>2, <1>5, <1>8, <2>2 DEF BlockEmitted
  <2> QED
    BY <1>2, <1>8, <2>1, <2>2
<1>10. Len(code') <= Len(kernel') /\ block' \in 1..Len(kernel')
       /\ (Len(code') < Len(kernel') => block' = Len(code') + 1 /\ inst' = 1 /\ current' = {})
  BY <1>1, <1>2, <1>3, <1>8
<1>11. cache' = Before(kernel', Len(code') + 1)
  BY <1>1, <1>6, <1>8
<1> QED
  BY <1>1, <1>2, <1>8, <1>9, <1>10, <1>11 DEF CacheInv

\* Printing a block, starting a kernel and running the code keep what the cache and the
\* code say of each other.
LEMMA NextCacheInv == CacheInv /\ [Next]_vars => CacheInv'
<1> SUFFICES ASSUME CacheInv, [Next]_vars PROVE CacheInv'
  OBVIOUS
<1>1. CASE EmitBlock
  BY <1>1, EmitBlockCacheInv
<1>2. CASE NextKernel
  <2>1. units + 1 \in 1..MaxUnits
    BY <1>2, WidenCacheAssumption DEF NextKernel, CacheInv
  <2> QED
    BY <1>2, <2>1, StartCacheInv DEF NextKernel
<1>3. CASE RunLine
  <2>1. /\ kernel' = kernel /\ units' = units /\ block' = block /\ cache' = cache
        /\ code' = code /\ inst' = inst + 1 /\ Len(code) = Len(kernel)
        /\ inst <= Len(code[block])
    BY <1>3 DEF RunLine, Running, NumBlocks
  <2>2. current' \subseteq Sources
    <3>1. Line \in CodeLines
      <4>1. code \in Seq(Seq(CodeLines)) /\ block \in 1..Len(code) /\ inst \in Nat \ {0}
        BY <2>1 DEF CacheInv
      <4>2. code[block] \in Seq(CodeLines)
        BY <4>1
      <4>3. inst \in 1..Len(code[block])
        BY <2>1, <4>1, <4>2
      <4> QED
        BY <4>2, <4>3 DEF Line
    <3>2. Line.src \in Sources /\ Line.op \in {"def", "cvt", "wide"}
      BY <3>1 DEF CodeLines
    <3>3. current' = current \ {Line.src} \/ current' = current \union {Line.src}
          \/ current' = current
      BY <1>3, <3>2 DEF RunLine
    <3> QED
      BY <3>2, <3>3 DEF CacheInv
  <2>3. \A b \in 1..Len(code) : BlockEmitted(b)'
    BY <2>1 DEF CacheInv, BlockEmitted
  <2>4. Len(kernel) \in Nat
    BY KernelFacts DEF CacheInv
  <2> QED
    BY <2>1, <2>2, <2>3, <2>4 DEF CacheInv
<1>4. CASE RunBranch
  <2>1. /\ kernel' = kernel /\ units' = units /\ cache' = cache /\ current' = current
        /\ code' = code /\ inst' = 1 /\ Len(code) = Len(kernel)
    BY <1>4 DEF RunBranch, Running, NumBlocks
  <2>2. block' \in 1..Len(kernel) /\ Len(kernel) \in Nat
    BY <1>4, KernelFacts DEF RunBranch, CacheInv
  <2>3. \A b \in 1..Len(code) : BlockEmitted(b)'
    BY <2>1 DEF CacheInv, BlockEmitted
  <2> QED
    BY <2>1, <2>2, <2>3 DEF CacheInv
<1>5. CASE UNCHANGED vars
  <2>1. \A b \in 1..Len(code) : BlockEmitted(b)'
    BY <1>5 DEF CacheInv, BlockEmitted, vars
  <2> QED
    BY <1>5, <2>1 DEF CacheInv, vars
<1> QED
  BY <1>1, <1>2, <1>3, <1>4, <1>5 DEF Next

\* So they agree throughout the emission of any number of kernels.
LEMMA CacheInvariance == Spec => []CacheInv
<1> QED
  BY InitCacheInv, NextCacheInv, PTL DEF Spec

\* Blocks, entries and emitted code stay within the kernel, and the cache within
\* its values.
THEOREM TypeCorrect == Spec => []TypeOK
<1>1. CacheInv => TypeOK
  BY DEF CacheInv, TypeOK, NumBlocks, Before
<1> QED
  BY <1>1, CacheInvariance, PTL

\* A conversion is "emitted once and reused" (language_spec.md:417), whatever the
\* kernel: the cache spans its blocks, and a second block that reads the source
\* finds the entry the first one left.
THEOREM OneConversionAlways == Spec => []OneConversion
<1>1. CacheInv => OneConversion
  <2> SUFFICES ASSUME CacheInv,
                      NEW b \in DOMAIN code, NEW c \in DOMAIN code,
                      NEW i \in DOMAIN code[b], NEW j \in DOMAIN code[c],
                      code[b][i].op = "cvt", code[b][i] = code[c][j]
               PROVE  b = c /\ i = j
    BY DEF OneConversion
  <2>1. /\ kernel \in Kernels /\ Len(code) <= Len(kernel)
        /\ code \in Seq(Seq(CodeLines)) /\ b \in 1..Len(code) /\ c \in 1..Len(code)
    BY DEF CacheInv
  <2>2. code[b] \in Seq(CodeLines) /\ code[c] \in Seq(CodeLines)
    BY <2>1
  <2>3. i \in 1..Len(code[b]) /\ j \in 1..Len(code[c])
    BY <2>2
  <2>4. BlockEmitted(b) /\ BlockEmitted(c)
    BY <2>1 DEF CacheInv
  <2>5. Len(kernel) \in Nat /\ b \in 1..Len(kernel) /\ c \in 1..Len(kernel)
    BY <2>1, KernelFacts
  <2> PICK v : v = code[b][i].src
    OBVIOUS
  <2>6. v \in Sources
    <3>1. code[b][i] \in CodeLines
      BY <2>2, <2>3
    <3> QED
      BY <3>1 DEF CodeLines
  <2>7. v \notin Before(kernel, b) /\ b \in Readers(kernel, v)
    BY <2>1, <2>3, <2>4, <2>5, ReadersFacts DEF BlockEmitted, Emitted, ConvertsNew
  <2>8. v \notin Before(kernel, c) /\ c \in Readers(kernel, v)
    BY <2>1, <2>3, <2>4, <2>5, ReadersFacts DEF BlockEmitted, Emitted, ConvertsNew
  <2>9. b = c
    BY <2>5, <2>6, <2>7, <2>8 DEF Before
  <2> QED
    BY <2>3, <2>4, <2>9 DEF BlockEmitted, Emitted, ConvertsOnce
<1> QED
  BY <1>1, CacheInvariance, PTL

-----------------------------------------------------------------------------
(***************************************************************************)
(* The run of the code.                                                    *)
(***************************************************************************)
\* The block that converts v was run, and its conversion if it is running.
Converted(dom, v) ==
  /\ Readers(kernel, v) # {}
  /\ Converter(kernel, v) \in dom[block]
  /\ block = Converter(kernel, v) => \E i \in 1..(inst - 1) : code[block][i] = Cvt(v)

\* Nothing writes v from its conversion on, so that its register stays current.
RunInv ==
  \A dom : RunBefore(kernel, dom) /\ ConvertedFirst(kernel, dom) =>
    (Len(code) = Len(kernel) => \A v \in Sources : Converted(dom, v) => v \in current)

\* At the first line of the first block nothing has been converted.
LEMMA StartRunInv ==
  ASSUME block' = 1, inst' = 1
  PROVE  RunInv'
<1> SUFFICES ASSUME NEW dom, RunBefore(kernel', dom), NEW v \in Sources, Converted(dom, v)'
             PROVE  FALSE
  BY DEF RunInv
<1>1. Converter(kernel', v) = 1
  BY DEF Converted, RunBefore
<1> QED
  BY <1>1 DEF Converted

\* A line of a block that is run after the conversion of v is no write of v.
LEMMA NotWritten ==
  ASSUME CacheInv, Len(code) = Len(kernel), NEW dom, ConvertedFirst(kernel, dom),
         NEW v \in Sources, Converted(dom, v), inst <= Len(code[block])
  PROVE  ~(Line.op = "def" /\ Line.src = v)
<1> SUFFICES ASSUME Line.op = "def", Line.src = v PROVE FALSE
  OBVIOUS
<1>1. /\ kernel \in Kernels /\ block \in 1..Len(kernel) /\ inst \in Nat \ {0}
      /\ code \in Seq(Seq(CodeLines)) /\ BlockEmitted(block)
  BY DEF CacheInv
<1>2. code[block] \in Seq(CodeLines)
  BY <1>1
<1>3. inst \in 1..Len(code[block]) /\ code[block][inst].op = "def"
      /\ code[block][inst].src = v
  BY <1>1, <1>2 DEF Line
<1>4. WritesInOrder(kernel[block].insts, Len(kernel[block].insts), code[block])
  BY <1>1 DEF BlockEmitted, Emitted
<1>5. PICK m \in 1..Len(kernel[block].insts) :
        /\ kernel[block].insts[m] = code[block][inst]
        /\ \A i \in 1..(inst - 1) : code[block][i] = Cvt(v) =>
             \E p \in 1..(m - 1) : kernel[block].insts[p] = WideRead(v)
  BY <1>3, <1>4 DEF WritesInOrder
<1>6. kernel[block].insts[m] = [op |-> "def", src |-> v]
  <2>1. code[block][inst] \in CodeLines
    BY <1>2, <1>3
  <2>2. code[block][inst] = [op |-> code[block][inst].op, src |-> code[block][inst].src]
    BY <2>1 DEF CodeLines
  <2> QED
    BY <1>3, <1>5, <2>2
<1>7. block \in DOMAIN kernel /\ m \in DOMAIN kernel[block].insts
  BY <1>1, KernelFacts
<1>8. /\ block = Converter(kernel, v)
      /\ \A p \in 1..(m - 1) : kernel[block].insts[p] # WideRead(v)
  BY <1>6, <1>7 DEF ConvertedFirst, Converted, WideRead
<1>9. PICK i \in 1..(inst - 1) : code[block][i] = Cvt(v)
  BY <1>8 DEF Converted
<1> QED
  BY <1>5, <1>8, <1>9

\* One line executed: a definition or a conversion adds to what is current, a use
\* changes nothing.
LEMMA RunLineRunInv ==
  ASSUME CacheInv, RunInv, RunLine
  PROVE  RunInv'
<1>1. /\ kernel' = kernel /\ block' = block /\ code' = code /\ inst' = inst + 1
      /\ Len(code) = Len(kernel) /\ inst <= Len(code[block])
  BY DEF RunLine, Running, NumBlocks
<1>2. /\ kernel \in Kernels /\ block \in 1..Len(kernel) /\ inst \in Nat \ {0}
      /\ code \in Seq(Seq(CodeLines))
  BY DEF CacheInv
<1>3. Line.op \in {"def", "cvt", "wide"} /\ Line = [op |-> Line.op, src |-> Line.src]
  <2>1. code[block] \in Seq(CodeLines)
    BY <1>1, <1>2
  <2>2. Line \in CodeLines
    BY <1>1, <1>2, <2>1 DEF Line
  <2> QED
    BY <2>2 DEF CodeLines
<1>4. SUFFICES ASSUME NEW dom, RunBefore(kernel, dom), ConvertedFirst(kernel, dom),
                      NEW v \in Sources, Converted(dom, v)'
               PROVE  v \in current'
  BY <1>1 DEF RunInv
<1>5. CASE Converted(dom, v)
  <2>1. v \in current
    BY <1>1, <1>4, <1>5 DEF RunInv
  <2>2. ~(Line.op = "def" /\ Line.src = v)
    BY <1>1, <1>4, <1>5, NotWritten
  <2> QED
    BY <1>3, <2>1, <2>2 DEF RunLine
<1>6. CASE ~Converted(dom, v)
  <2>1. /\ Readers(kernel, v) # {} /\ Converter(kernel, v) \in dom[block]
        /\ block = Converter(kernel, v)
        /\ ~\E i \in 1..(inst - 1) : code[block][i] = Cvt(v)
    BY <1>1, <1>4, <1>6 DEF Converted
  <2>2. PICK i \in 1..(inst' - 1) : code[block][i] = Cvt(v)
    BY <1>1, <1>4, <2>1 DEF Converted
  <2>3. i = inst
    BY <1>1, <1>2, <2>1, <2>2
  <2>4. Line.op = "cvt" /\ Line.src = v
    BY <2>2, <2>3 DEF Line, Cvt
  <2> QED
    BY <2>4 DEF RunLine
<1> QED
  BY <1>5, <1>6

\* On entry to a block after the one that converts v the conversion was run: the
\* block that is left is that one, or comes after it as well.
LEMMA RunBranchRunInv ==
  ASSUME CacheInv, RunInv, RunBranch
  PROVE  RunInv'
<1>1. /\ kernel' = kernel /\ code' = code /\ inst' = 1 /\ current' = current
      /\ Len(code) = Len(kernel) /\ inst > Len(code[block])
  BY DEF RunBranch, Running, NumBlocks
<1>2. /\ kernel \in Kernels /\ block \in 1..Len(kernel) /\ inst \in Nat \ {0}
      /\ code \in Seq(Seq(CodeLines)) /\ BlockEmitted(block)
  BY <1>1 DEF CacheInv
<1>3. PICK e \in DOMAIN kernel[block].to : block' = kernel[block].to[e]
  BY DEF RunBranch
<1>4. SUFFICES ASSUME NEW dom, RunBefore(kernel, dom), ConvertedFirst(kernel, dom),
                      NEW v \in Sources, Converted(dom, v)'
               PROVE  v \in current
  BY <1>1 DEF RunInv
<1>5. /\ Readers(kernel, v) # {} /\ Converter(kernel, v) \in dom[block']
      /\ block' # Converter(kernel, v)
  BY <1>1, <1>4 DEF Converted
<1>6. Converter(kernel, v) \in dom[block]
  <2>1. block \in DOMAIN kernel
    BY <1>2, KernelFacts
  <2>2. dom[block'] \subseteq dom[block] \union {block'}
    BY <1>3, <1>4, <2>1 DEF RunBefore
  <2> QED
    BY <1>5, <2>2
<1>7. ASSUME block = Converter(kernel, v)
      PROVE  \E i \in 1..(inst - 1) : code[block][i] = Cvt(v)
  <2>1. block \in Readers(kernel, v) /\ v \notin Before(kernel, block)
    BY <1>2, <1>5, <1>7, ConverterFacts
  <2>2. PICK m \in 1..Len(kernel[block].insts) : kernel[block].insts[m] = WideRead(v)
    BY <1>2, <2>1, ReadersFacts
  <2>3. kernel[block].insts[m].op = "wide" /\ kernel[block].insts[m].src = v
    BY <2>2 DEF WideRead
  <2>4. PICK j \in 1..Len(code[block]) : code[block][j] = Cvt(v)
    BY <1>2, <2>1, <2>2, <2>3 DEF BlockEmitted, Emitted, AllConverted
  <2>5. Len(code[block]) \in Nat
    <3>1. code[block] \in Seq(CodeLines)
      BY <1>1, <1>2
    <3> QED
      BY <3>1
  <2> QED
    BY <1>1, <1>2, <2>4, <2>5
<1> QED
  BY <1>1, <1>4, <1>5, <1>6, <1>7 DEF RunInv, Converted

\* Every step of the emission and of the run keeps what a run has passed converted.
LEMMA NextRunInv == CacheInv /\ RunInv /\ [Next]_vars => RunInv'
<1> SUFFICES ASSUME CacheInv, RunInv, [Next]_vars PROVE RunInv'
  OBVIOUS
<1>1. CASE EmitBlock
  <2>1. kernel' = kernel /\ inst' = inst /\ Len(code) < Len(kernel)
        /\ block' = IF block = Len(kernel) THEN 1 ELSE block + 1
    BY <1>1 DEF EmitBlock, Emitting, NumBlocks
  <2>2. inst = 1 /\ block = Len(code) + 1 /\ Len(code) \in Nat
    BY <2>1 DEF CacheInv
  <2>3. Len(code') = Len(code) + 1
    BY <1>1, EmitBlockCacheInv
  <2>4. CASE block = Len(kernel)
    BY <2>1, <2>2, <2>4, StartRunInv
  <2>5. CASE block # Len(kernel)
    <3>1. Len(code') # Len(kernel')
      BY <2>1, <2>2, <2>5, <2>3
    <3> QED
      BY <3>1 DEF RunInv
  <2> QED
    BY <2>4, <2>5
<1>2. CASE NextKernel
  BY <1>2, StartRunInv DEF NextKernel
<1>3. CASE RunLine
  BY <1>3, RunLineRunInv
<1>4. CASE RunBranch
  BY <1>4, RunBranchRunInv
<1>5. CASE UNCHANGED vars
  BY <1>5 DEF RunInv, Converted, vars
<1> QED
  BY <1>1, <1>2, <1>3, <1>4, <1>5 DEF Next

\* A wide read gets the value its source has (the reuse at emit.py:1336 is right)
\* in every kernel where the first such read is run before the others on every
\* path and nothing writes the source from it on, loops included.
THEOREM WideCurrentAlways == Spec => [](ConversionDominates(kernel) => WideCurrent)
<1>1. Init => RunInv
  <2> SUFFICES ASSUME Init PROVE RunInv
    OBVIOUS
  <2>1. block = 1 /\ inst = 1
    BY DEF Init
  <2>2. ASSUME NEW dom, RunBefore(kernel, dom), NEW v \in Sources, Converted(dom, v)
        PROVE  FALSE
    <3>1. Converter(kernel, v) = 1
      BY <2>1, <2>2 DEF Converted, RunBefore
    <3> QED
      BY <2>1, <2>2, <3>1 DEF Converted
  <2> QED
    BY <2>2 DEF RunInv
<1>2. CacheInv /\ RunInv => (ConversionDominates(kernel) => WideCurrent)
  <2> SUFFICES ASSUME CacheInv, RunInv,
                      NEW dom, RunBefore(kernel, dom), ConvertedFirst(kernel, dom),
                      Len(code) = Len(kernel), inst <= Len(code[block]), Line.op = "wide"
               PROVE  Line.src \in current
    BY DEF ConversionDominates, WideCurrent, Running, NumBlocks
  <2>1. /\ kernel \in Kernels /\ block \in 1..Len(kernel) /\ inst \in Nat \ {0}
        /\ code \in Seq(Seq(CodeLines)) /\ BlockEmitted(block)
    BY DEF CacheInv
  <2>2. code[block] \in Seq(CodeLines)
    BY <2>1
  <2>3. inst \in 1..Len(code[block])
    BY <2>1, <2>2
  <2> PICK v : v = Line.src
    OBVIOUS
  <2>4. v \in Sources /\ Line = WideRead(v)
    <3>1. Line \in CodeLines
      BY <2>2, <2>3 DEF Line
    <3>2. Line.src \in Sources /\ Line = [op |-> Line.op, src |-> Line.src]
      BY <3>1 DEF CodeLines
    <3> QED
      BY <3>2 DEF WideRead
  <2>5. ReadsConverted(kernel[block].insts, Len(kernel[block].insts),
                       Before(kernel, block), code[block])
    BY <2>1 DEF BlockEmitted, Emitted
  <2>6. /\ \E m \in 1..Len(kernel[block].insts) : kernel[block].insts[m] = WideRead(v)
        /\ v \in Before(kernel, block) \/ \E i \in 1..(inst - 1) : code[block][i] = Cvt(v)
    BY <2>3, <2>4, <2>5 DEF ReadsConverted, Line
  <2>7. block \in Readers(kernel, v)
    BY <2>1, <2>6, ReadersFacts
  <2>8. Converter(kernel, v) \in dom[block]
    BY <2>4, <2>7 DEF ConvertedFirst
  <2>9. v \notin Before(kernel, Converter(kernel, v))
    BY <2>1, <2>4, <2>7, ConverterFacts
  <2>10. Converted(dom, v)
    BY <2>6, <2>7, <2>8, <2>9 DEF Converted
  <2> QED
    BY <2>4, <2>10 DEF RunInv
<1> QED
  BY <1>1, <1>2, NextRunInv, CacheInvariance, PTL DEF Spec
=============================================================================
