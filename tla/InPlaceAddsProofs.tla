------------------------- MODULE InPlaceAddsProofs -------------------------
(***************************************************************************)
(* AddressesKept for every body and every path through it on which the     *)
(* registers the peephole overwrites are dead (PointersDead), and Declared *)
(* for every body that reads each of its arrays (ArraysRead).              *)
(*                                                                         *)
(* A rewritten body is compared with the one before it by a simulation     *)
(* (SimulatedAddresses): step by step along the path, a register that is   *)
(* still to be read holds what its new name holds.  The compaction is one  *)
(* for every body; a rewritten addition is one as long as the register it  *)
(* overwrites is dead, and why that stays true of the additions above,     *)
(* while the lines below are renamed, is the invariant AInv.  A line that  *)
(* reads an array goes on reading it (BasesRead): so the compaction, which *)
(* fills free numbers, renames nothing to or from an array's register.     *)
(***************************************************************************)
EXTENDS InPlaceAdds, Induction, TLAPS

\* The kinds of lines, and the registers each names.
LEMMA LineKinds ==
  ASSUME NEW l \in Line
  PROVE  \/ /\ l.op \in {"param", "cvt"} /\ l.dest \in Nat
            /\ DOMAIN l = {"op", "dest"} /\ Regs(l) = {l.dest}
         \/ /\ l.op = "add" /\ l.dest \in Nat /\ l.ptr \in Nat /\ l.off \in Nat
            /\ DOMAIN l = {"op", "dest", "ptr", "off"} /\ Regs(l) = {l.dest, l.ptr, l.off}
         \/ /\ l.op = "mem" /\ l.ptr \in Nat
            /\ DOMAIN l = {"op", "ptr"} /\ Regs(l) = {l.ptr}
<1>1. CASE l \in [op : {"param", "cvt"}, dest : Nat]
  <2>1. l.op \in {"param", "cvt"} /\ l.dest \in Nat /\ DOMAIN l = {"op", "dest"}
    BY <1>1
  <2>2. DOMAIN l \ {"op"} = {"dest"}
    BY <2>1
  <2> QED
    BY <2>1, <2>2 DEF Regs
<1>2. CASE l \in [op : {"add"}, dest : Nat, ptr : Nat, off : Nat]
  <2>1. /\ l.op = "add" /\ l.dest \in Nat /\ l.ptr \in Nat /\ l.off \in Nat
        /\ DOMAIN l = {"op", "dest", "ptr", "off"}
    BY <1>2
  <2>2. DOMAIN l \ {"op"} = {"dest", "ptr", "off"}
    BY <2>1
  <2> QED
    BY <2>1, <2>2 DEF Regs
<1>3. CASE l \in [op : {"mem"}, ptr : Nat]
  <2>1. l.op = "mem" /\ l.ptr \in Nat /\ DOMAIN l = {"op", "ptr"}
    BY <1>3
  <2>2. DOMAIN l \ {"op"} = {"ptr"}
    BY <2>1
  <2> QED
    BY <2>1, <2>2 DEF Regs
<1> QED
  BY <1>1, <1>2, <1>3 DEF Line

\* A line that does not name a register is not changed by renaming it.
LEMMA RenamedNothing ==
  ASSUME NEW l \in Line, NEW old, NEW new, old \notin Regs(l)
  PROVE  Renamed(l, old, new) = l
<1>1. l = [f \in DOMAIN l |-> l[f]]
  <2>1. CASE l \in [op : {"param", "cvt"}, dest : Nat]
    BY <2>1
  <2>2. CASE l \in [op : {"add"}, dest : Nat, ptr : Nat, off : Nat]
    BY <2>2
  <2>3. CASE l \in [op : {"mem"}, ptr : Nat]
    BY <2>3
  <2> QED
    BY <2>1, <2>2, <2>3 DEF Line
<1>2. \A f \in DOMAIN l : ~(f # "op" /\ l[f] = old)
  BY DEF Regs
<1> QED
  BY <1>1, <1>2 DEF Renamed

\* A renamed line is a line, of the same kind.
LEMMA RenamedLine ==
  ASSUME NEW l \in Line, NEW old, NEW new \in Nat,
         NEW m, m = Renamed(l, old, new)
  PROVE  /\ m \in Line
         /\ m.op = l.op
         /\ l.op # "mem" => m.dest = IF l.dest = old THEN new ELSE l.dest
         /\ l.op \in {"add", "mem"} => m.ptr = IF l.ptr = old THEN new ELSE l.ptr
         /\ l.op = "add" => m.off = IF l.off = old THEN new ELSE l.off
<1> DEFINE to(r) == IF r = old THEN new ELSE r
<1>1. m = [f \in DOMAIN l |-> IF f # "op" /\ l[f] = old THEN new ELSE l[f]]
  BY DEF Renamed
<1>2. CASE l.op \in {"param", "cvt"} /\ l.dest \in Nat /\ DOMAIN l = {"op", "dest"}
  <2>1. m = [op |-> l.op, dest |-> to(l.dest)]
    BY <1>1, <1>2
  <2>2. m \in [op : {"param", "cvt"}, dest : Nat]
    BY <2>1, <1>2
  <2> QED
    BY <2>1, <2>2, <1>2 DEF Line
<1>3. CASE /\ l.op = "add" /\ l.dest \in Nat /\ l.ptr \in Nat /\ l.off \in Nat
           /\ DOMAIN l = {"op", "dest", "ptr", "off"}
  <2>1. m = [op |-> l.op, dest |-> to(l.dest), ptr |-> to(l.ptr), off |-> to(l.off)]
    BY <1>1, <1>3
  <2>2. m \in [op : {"add"}, dest : Nat, ptr : Nat, off : Nat]
    BY <2>1, <1>3
  <2> QED
    BY <2>1, <2>2, <1>3 DEF Line
<1>4. CASE l.op = "mem" /\ l.ptr \in Nat /\ DOMAIN l = {"op", "ptr"}
  <2>1. m = [op |-> l.op, ptr |-> to(l.ptr)]
    BY <1>1, <1>4
  <2>2. m \in [op : {"mem"}, ptr : Nat]
    BY <2>1, <1>4
  <2> QED
    BY <2>1, <2>2, <1>4 DEF Line
<1> QED
  BY <1>2, <1>3, <1>4, LineKinds

\* The registers a renamed line names.
LEMMA RenamedRegs ==
  ASSUME NEW l \in Line, NEW old, NEW new \in Nat
  PROVE  Regs(Renamed(l, old, new)) = {IF r = old THEN new ELSE r : r \in Regs(l)}
<1> DEFINE m == Renamed(l, old, new)
<1>1. /\ m \in Line
      /\ m.op = l.op
      /\ l.op # "mem" => m.dest = IF l.dest = old THEN new ELSE l.dest
      /\ l.op \in {"add", "mem"} => m.ptr = IF l.ptr = old THEN new ELSE l.ptr
      /\ l.op = "add" => m.off = IF l.off = old THEN new ELSE l.off
  BY RenamedLine
<1> HIDE DEF m
<1>2. CASE l.op \in {"param", "cvt"}
  <2>1. Regs(l) = {l.dest} /\ Regs(m) = {m.dest}
    BY <1>1, <1>2, LineKinds
  <2> QED
    BY <1>1, <1>2, <2>1 DEF m
<1>3. CASE l.op = "add"
  <2>1. Regs(l) = {l.dest, l.ptr, l.off} /\ Regs(m) = {m.dest, m.ptr, m.off}
    BY <1>1, <1>3, LineKinds
  <2> QED
    BY <1>1, <1>3, <2>1 DEF m
<1>4. CASE l.op = "mem"
  <2>1. Regs(l) = {l.ptr} /\ Regs(m) = {m.ptr}
    BY <1>1, <1>4, LineKinds
  <2> QED
    BY <1>1, <1>4, <2>1 DEF m
<1> QED
  BY <1>2, <1>3, <1>4, LineKinds
-----------------------------------------------------------------------------
(***************************************************************************)
(* What a run of lines does, step by step.                                 *)
(***************************************************************************)
Values == Seq(Nat)
States(lines) == [reg : [Used(lines) -> Values], trace : Seq(Values)]

\* The registers a line names are used.
LEMMA UsedBy ==
  ASSUME NEW A \in Seq(Line), NEW i \in DOMAIN A
  PROVE  A[i] \in Line /\ Regs(A[i]) \subseteq Used(A)
<1>1. A[i] \in Line
  OBVIOUS
<1>2. Regs(A[i]) \subseteq Used(A)
  BY DEF Used
<1> QED
  BY <1>1, <1>2

\* Registers are numbered.
LEMMA UsedNat ==
  ASSUME NEW A \in Seq(Line)
  PROVE  Used(A) \subseteq Nat
<1> SUFFICES ASSUME NEW i \in DOMAIN A, NEW r \in Regs(A[i]) PROVE r \in Nat
  BY DEF Used
<1>1. A[i] \in Line
  OBVIOUS
<1> QED
  BY <1>1, LineKinds

\* One line at a time: the line that defines a register, the one that adds an
\* offset, the one that accesses an address.
LEMMA ExecIs ==
  ASSUME NEW A \in Seq(Line), NEW i \in DOMAIN A, NEW s \in States(A)
  PROVE  /\ A[i].op \in {"param", "cvt"} =>
              Exec(A, i, s) = [reg |-> [s.reg EXCEPT ![A[i].dest] = Leaf(i)], trace |-> s.trace]
         /\ A[i].op = "add" =>
              Exec(A, i, s) = [reg |-> [s.reg EXCEPT ![A[i].dest] =
                                          Sum(s.reg[A[i].ptr], s.reg[A[i].off])],
                               trace |-> s.trace]
         /\ A[i].op = "mem" =>
              Exec(A, i, s) = [reg |-> s.reg, trace |-> Append(s.trace, s.reg[A[i].ptr])]
         /\ Exec(A, i, s) \in States(A)
<1>1. s = [reg |-> s.reg, trace |-> s.trace] /\ DOMAIN s = {"reg", "trace"}
      /\ s.reg \in [Used(A) -> Values] /\ s.trace \in Seq(Values)
  BY DEF States
<1>2. A[i] \in Line /\ Regs(A[i]) \subseteq Used(A)
  BY UsedBy
<1> DEFINE with(v) == [s.reg EXCEPT ![A[i].dest] = v]
<1>w. ASSUME NEW v \in Values
      PROVE  [reg |-> with(v), trace |-> s.trace] \in States(A)
  <2>1. with(v) \in [Used(A) -> Values]
    BY <1>1
  <2> HIDE DEF with
  <2> QED
    BY <1>1, <2>1 DEF States
<1>3. CASE A[i].op \in {"param", "cvt"}
  <2>1. Exec(A, i, s) = [s EXCEPT !.reg[A[i].dest] = Leaf(i)]
    BY <1>3 DEF Exec
  <2>2. Exec(A, i, s) = [reg |-> [s.reg EXCEPT ![A[i].dest] = Leaf(i)], trace |-> s.trace]
    BY <1>1, <2>1
  <2>3. Leaf(i) \in Values
    <3>1. i \in Nat
      OBVIOUS
    <3> QED
      BY <3>1 DEF Leaf, Values
  <2>4. Exec(A, i, s) \in States(A)
    BY <2>2, <2>3, <1>w
  <2> QED
    BY <1>3, <2>2, <2>4
<1>4. CASE A[i].op = "add"
  <2>1. Exec(A, i, s) = [s EXCEPT !.reg[A[i].dest] = Sum(s.reg[A[i].ptr], s.reg[A[i].off])]
    BY <1>4 DEF Exec
  <2>2. Exec(A, i, s) = [reg |-> [s.reg EXCEPT ![A[i].dest] =
                                    Sum(s.reg[A[i].ptr], s.reg[A[i].off])],
                         trace |-> s.trace]
    BY <1>1, <2>1
  <2>3. A[i].ptr \in Used(A) /\ A[i].off \in Used(A)
    BY <1>2, <1>4, LineKinds
  <2>4. s.reg[A[i].ptr] \in Values /\ s.reg[A[i].off] \in Values
    BY <1>1, <2>3
  <2>5. ASSUME NEW u \in Values, NEW v \in Values PROVE Sum(u, v) \in Values
    BY DEF Sum, Values
  <2>6. Exec(A, i, s) \in States(A)
    BY <2>2, <2>4, <2>5, <1>w
  <2> QED
    BY <1>4, <2>2, <2>6
<1>5. CASE A[i].op = "mem"
  <2>1. Exec(A, i, s) = [s EXCEPT !.trace = Append(s.trace, s.reg[A[i].ptr])]
    BY <1>5 DEF Exec
  <2>2. Exec(A, i, s) = [reg |-> s.reg, trace |-> Append(s.trace, s.reg[A[i].ptr])]
    BY <1>1, <2>1
  <2>3. A[i].ptr \in Used(A)
    BY <1>2, <1>5, LineKinds
  <2>4. s.reg[A[i].ptr] \in Values
    BY <1>1, <2>3
  <2>5. Append(s.trace, s.reg[A[i].ptr]) \in Seq(Values)
    BY <1>1, <2>4
  <2>6. Exec(A, i, s) \in States(A)
    BY <1>1, <2>2, <2>5 DEF States
  <2> QED
    BY <1>5, <2>2, <2>6
<1> QED
  BY <1>2, <1>3, <1>4, <1>5, LineKinds

\* The lines of a path, one after the other: the sequence of states behind
\* Addresses.
Runs(A, path, arrays, g) ==
  /\ g \in [0..Len(path) -> States(A)]
  /\ g[0] = Loaded(A, arrays)
  /\ \A n \in 1..Len(path) : g[n] = Exec(A, path[n], g[n - 1])

LEMMA AddressesOfRun ==
  ASSUME NEW A \in Seq(Line), NEW path \in Seq(DOMAIN A), NEW arrays \in Nat
  PROVE  \E g : Runs(A, path, arrays, g) /\ Addresses(A, path, arrays) = g[Len(path)].trace
<1> DEFINE N == Len(path)
           S == States(A)
           start == Loaded(A, arrays)
           step(s, n) == Exec(A, path[n], s)
           D == [p \in S \X (1..N) |-> step(p[1], p[2])]
           Is(f) == f = [n \in 0..N |-> IF n = 0 THEN start ELSE step(f[n - 1], n)]
           walk == CHOOSE f : Is(f)
<1>1. N \in Nat
  OBVIOUS
<1>2. start \in S
  <2> DEFINE held(r) == IF r < arrays THEN Leaf(FrontLine(A, r)) ELSE Leaf(0)
  <2>1. ASSUME NEW r \in Used(A) PROVE held(r) \in Values
    <3>1. r \in Nat
      BY UsedNat
    <3>2. FrontLine(A, r) \in Nat
      BY <3>1 DEF FrontLine
    <3> QED
      BY <3>2 DEF Leaf, Values
  <2> HIDE DEF held
  <2>2. [r \in Used(A) |-> held(r)] \in [Used(A) -> Values]
    BY <2>1
  <2>3. <<>> \in Seq(Values)
    OBVIOUS
  <2> QED
    BY <2>2, <2>3 DEF Loaded, States, held
<1>3. ASSUME NEW s \in S, NEW n \in 1..N PROVE step(s, n) \in S
  <2>1. path[n] \in DOMAIN A
    OBVIOUS
  <2> QED
    BY <2>1, ExecIs
<1>4. Addresses(A, path, arrays) = walk[N].trace
  BY DEF Addresses
<1> HIDE DEF step, start, S
<1>5. D \in [S \X (1..N) -> S]
  BY <1>3
<1>6. \A s \in S, n \in 1..N : D[<<s, n>>] = step(s, n)
  OBVIOUS
<1> HIDE DEF D
<1>7. PICK g \in [0..N -> S] : Recursive(N, start, D, g)
  BY <1>1, <1>2, <1>5, RecursionExists
<1>8. ASSUME NEW n \in 0..N PROVE g[n] = IF n = 0 THEN start ELSE step(g[n - 1], n)
  <2>1. CASE n = 0
    BY <1>1, <1>7, <2>1 DEF Recursive
  <2>2. CASE n # 0
    <3>1. n \in 1..N /\ n - 1 \in 0..N
      BY <1>1, <2>2
    <3>2. g[n] = D[<<g[n - 1], n>>] /\ g[n - 1] \in S
      BY <1>7, <2>2, <3>1 DEF Recursive
    <3> QED
      BY <2>2, <3>1, <3>2, <1>6
  <2> QED
    BY <2>1, <2>2
<1>9. Is(g)
  BY <1>8
<1>10. Is(walk)
  BY <1>9
<1> HIDE DEF walk
<1>11. \A n \in 0..N : walk[n] = IF n = 0 THEN start ELSE step(walk[n - 1], n)
  BY <1>10
<1> HIDE DEF Is
<1> DEFINE Same == {n \in 0..N : walk[n] = g[n]}
<1>12. 0 \in Same
  BY <1>1, <1>8, <1>11
<1>13. ASSUME NEW n \in 0..N, n \in Same, n < N PROVE n + 1 \in Same
  <2>1. n + 1 \in 0..N /\ n + 1 # 0 /\ (n + 1) - 1 = n
    BY <1>1, <1>13
  <2>2. walk[n + 1] = step(walk[n], n + 1) /\ g[n + 1] = step(g[n], n + 1)
    BY <2>1, <1>8, <1>11
  <2> QED
    BY <2>1, <2>2, <1>13
<1> HIDE DEF Same
<1>14. N \in Same
  <2>1. 0..N \subseteq Same
    BY <1>1, <1>12, <1>13, UpTo
  <2> QED
    BY <2>1, <1>1
<1>15. Addresses(A, path, arrays) = g[N].trace
  BY <1>4, <1>14 DEF Same
<1>16. g[0] = Loaded(A, arrays)
  BY <1>1, <1>8 DEF start
<1>17. ASSUME NEW n \in 1..N PROVE g[n] = Exec(A, path[n], g[n - 1])
  BY <1>1, <1>8 DEF step
<1> QED
  BY <1>7, <1>15, <1>16, <1>17 DEF Runs, S

\* A line of B does with the new names of registers what the line of A does
\* with the old ones: s gives the new names before it, t those after it, of
\* the registers that are still to be read (live before, alive after).
Simulates(l, m, s, t, live, alive) ==
  /\ m.op = l.op
  /\ l.op \in {"add", "mem"} => l.ptr \in live /\ m.ptr = s[l.ptr]
  /\ l.op = "add" => l.off \in live /\ m.off = s[l.off]
  /\ l.op # "mem" => m.dest = t[l.dest]
  /\ \A r \in alive : \/ l.op # "mem" /\ r = l.dest
                      \/ r \in live /\ t[r] = s[r] /\ (l.op # "mem" => t[r] # m.dest)

\* The registers of arrays, which are loaded before the first line, keep their
\* names there, and no other register gets the name of one.
KeepsBases(name, live, arrays) ==
  \A r \in live : \/ name[r] = r
                  \/ r \notin 0..(arrays - 1) /\ name[r] \notin 0..(arrays - 1)

\* Two bodies, line by line in step along a path, access the same addresses.
LEMMA SimulatedAddresses ==
  ASSUME NEW A \in Seq(Line), NEW B \in Seq(Line), Len(B) = Len(A),
         NEW path \in Seq(DOMAIN A), NEW arrays \in Nat, NEW name, NEW live,
         KeepsBases(name[0], live[0], arrays),
         \A n \in 0..Len(path) : /\ live[n] \subseteq Used(A)
                                 /\ \A r \in live[n] : name[n][r] \in Used(B),
         \A n \in 1..Len(path) :
           Simulates(A[path[n]], B[path[n]], name[n - 1], name[n], live[n - 1], live[n])
  PROVE  Addresses(B, path, arrays) = Addresses(A, path, arrays)
<1> DEFINE N == Len(path)
<1>1. N \in Nat /\ DOMAIN B = DOMAIN A /\ path \in Seq(DOMAIN B)
  OBVIOUS
<1>2. PICK f : Runs(A, path, arrays, f) /\ Addresses(A, path, arrays) = f[N].trace
  BY AddressesOfRun
<1>3. PICK g : Runs(B, path, arrays, g) /\ Addresses(B, path, arrays) = g[N].trace
  BY <1>1, AddressesOfRun
<1> DEFINE Good == {n \in 0..N : /\ g[n].trace = f[n].trace
                                 /\ \A r \in live[n] : g[n].reg[name[n][r]] = f[n].reg[r]}
<1>4. 0 \in Good
  <2>1. 0 \in 0..N
    BY <1>1
  <2>2. ASSUME NEW r \in live[0] PROVE g[0].reg[name[0][r]] = f[0].reg[r]
    <3> PICK q : q = name[0][r]
      OBVIOUS
    <3>1. r \in Used(A) /\ q \in Used(B) /\ r \in Nat /\ q \in Nat
      BY <2>1, UsedNat
    <3>2. /\ f[0].reg[r] = IF r < arrays THEN Leaf(FrontLine(A, r)) ELSE Leaf(0)
          /\ g[0].reg[q] = IF q < arrays THEN Leaf(FrontLine(B, q)) ELSE Leaf(0)
      BY <3>1, <1>2, <1>3 DEF Runs, Loaded
    <3>3. FrontLine(A, r) = FrontLine(B, r)
      BY DEF FrontLine
    <3>4. q = r \/ (~(r < arrays) /\ ~(q < arrays))
      <4>1. q = r \/ (r \notin 0..(arrays - 1) /\ q \notin 0..(arrays - 1))
        BY DEF KeepsBases
      <4> QED
        BY <4>1, <3>1
    <3> QED
      BY <3>2, <3>3, <3>4
  <2>3. g[0].trace = f[0].trace
    BY <1>2, <1>3 DEF Runs, Loaded
  <2> QED
    BY <2>1, <2>2, <2>3
<1>5. ASSUME NEW n \in 0..N, n \in Good, n < N PROVE n + 1 \in Good
  <2> DEFINE k == n + 1
             i == path[k]
             l == A[i]
             m == B[i]
  <2>1. k \in 1..N /\ k \in 0..N /\ k - 1 = n
    BY <1>1, <1>5
  <2>2. i \in DOMAIN A /\ i \in DOMAIN B
    BY <2>1
  <2>3. Simulates(l, m, name[n], name[k], live[n], live[k])
    BY <2>1
  <2>4. f[k] = Exec(A, i, f[n]) /\ g[k] = Exec(B, i, g[n])
    BY <2>1, <1>2, <1>3 DEF Runs
  <2>5. f[n] \in States(A) /\ g[n] \in States(B)
    BY <1>2, <1>3 DEF Runs
  <2>6. /\ g[n].trace = f[n].trace
        /\ \A r \in live[n] : g[n].reg[name[n][r]] = f[n].reg[r]
    BY <1>5
  <2>7. /\ f[n].reg \in [Used(A) -> Values] /\ g[n].reg \in [Used(B) -> Values]
    BY <2>5 DEF States
  <2>8. /\ l \in Line /\ m \in Line /\ Regs(l) \subseteq Used(A) /\ Regs(m) \subseteq Used(B)
    BY <2>2, UsedBy
  <2>9. \A r \in live[k] : r \in Used(A) /\ name[k][r] \in Used(B)
    BY <2>1
  <2>10. \A r \in live[n] : r \in Used(A) /\ name[n][r] \in Used(B)
    OBVIOUS
  <2> HIDE DEF k, i, l, m, Good
  \* A line that defines a register, with the same value in both.
  <2>d. ASSUME l.op # "mem",
               g[k].reg[m.dest] = f[k].reg[l.dest],
               \A r \in Used(A) : r # l.dest => f[k].reg[r] = f[n].reg[r],
               \A r \in Used(B) : r # m.dest => g[k].reg[r] = g[n].reg[r],
               f[k].trace = f[n].trace, g[k].trace = g[n].trace
        PROVE  k \in Good
    <3>1. m.dest = name[k][l.dest]
      BY <2>3, <2>d DEF Simulates
    <3>2. ASSUME NEW r \in live[k] PROVE g[k].reg[name[k][r]] = f[k].reg[r]
      <4>1. CASE r = l.dest
        BY <4>1, <3>1, <2>d
      <4>2. CASE r # l.dest
        <5>1. r \in live[n] /\ name[k][r] = name[n][r] /\ name[k][r] # m.dest
          BY <4>2, <2>3, <2>d DEF Simulates
        <5>2. f[k].reg[r] = f[n].reg[r]
          BY <2>9, <4>2, <2>d
        <5>3. g[k].reg[name[k][r]] = g[n].reg[name[k][r]]
          BY <2>9, <5>1, <2>d
        <5> QED
          BY <5>1, <5>2, <5>3, <2>6
      <4> QED
        BY <4>1, <4>2
    <3>3. g[k].trace = f[k].trace
      BY <2>d, <2>6
    <3> QED
      BY <3>2, <3>3, <2>1 DEF Good
  <2>11. CASE l.op \in {"param", "cvt"}
    <3>1. m.op \in {"param", "cvt"} /\ l.op # "mem"
      BY <2>11, <2>3 DEF Simulates
    <3>3. f[k] = [reg |-> [f[n].reg EXCEPT ![l.dest] = Leaf(i)], trace |-> f[n].trace]
      BY <2>2, <2>4, <2>5, <2>11, ExecIs DEF l
    <3>4. g[k] = [reg |-> [g[n].reg EXCEPT ![m.dest] = Leaf(i)], trace |-> g[n].trace]
      BY <2>2, <2>4, <2>5, <3>1, ExecIs DEF m
    <3>5. l.dest \in Used(A) /\ m.dest \in Used(B)
      BY <2>8, <2>11, <3>1, LineKinds
    <3> HIDE DEF l, m
    <3>6. /\ f[k].reg[l.dest] = Leaf(i) /\ f[k].trace = f[n].trace
          /\ \A r \in Used(A) : r # l.dest => f[k].reg[r] = f[n].reg[r]
      BY <3>3, <3>5, <2>7
    <3>7. /\ g[k].reg[m.dest] = Leaf(i) /\ g[k].trace = g[n].trace
          /\ \A r \in Used(B) : r # m.dest => g[k].reg[r] = g[n].reg[r]
      BY <3>4, <3>5, <2>7
    <3> QED
      BY <3>1, <3>6, <3>7, <2>d DEF k
  <2>12. CASE l.op = "add"
    <3>1. /\ m.op = "add" /\ l.op # "mem"
          /\ l.ptr \in live[n] /\ m.ptr = name[n][l.ptr]
          /\ l.off \in live[n] /\ m.off = name[n][l.off]
      BY <2>12, <2>3 DEF Simulates
    <3>2. g[n].reg[m.ptr] = f[n].reg[l.ptr] /\ g[n].reg[m.off] = f[n].reg[l.off]
      BY <3>1, <2>6
    <3>3. f[k] = [reg |-> [f[n].reg EXCEPT ![l.dest] = Sum(f[n].reg[l.ptr], f[n].reg[l.off])],
                  trace |-> f[n].trace]
      BY <2>2, <2>4, <2>5, <2>12, ExecIs DEF l
    <3>4. g[k] = [reg |-> [g[n].reg EXCEPT ![m.dest] = Sum(g[n].reg[m.ptr], g[n].reg[m.off])],
                  trace |-> g[n].trace]
      BY <2>2, <2>4, <2>5, <3>1, ExecIs DEF m
    <3>5. l.dest \in Used(A) /\ m.dest \in Used(B)
      BY <2>8, <2>12, <3>1, LineKinds
    <3> DEFINE u == Sum(f[n].reg[l.ptr], f[n].reg[l.off])
               v == Sum(g[n].reg[m.ptr], g[n].reg[m.off])
    <3>6. u = v
      BY <3>2
    <3> HIDE DEF u, v
    <3>7. /\ f[k].reg[l.dest] = u /\ f[k].trace = f[n].trace
          /\ \A r \in Used(A) : r # l.dest => f[k].reg[r] = f[n].reg[r]
      BY <3>3, <3>5, <2>7 DEF u
    <3>8. /\ g[k].reg[m.dest] = v /\ g[k].trace = g[n].trace
          /\ \A r \in Used(B) : r # m.dest => g[k].reg[r] = g[n].reg[r]
      BY <3>4, <3>5, <2>7 DEF v
    <3> QED
      BY <3>1, <3>6, <3>7, <3>8, <2>d DEF k
  <2>13. CASE l.op = "mem"
    <3>1. m.op = "mem" /\ l.ptr \in live[n] /\ m.ptr = name[n][l.ptr]
      BY <2>13, <2>3 DEF Simulates
    <3>2. f[k] = [reg |-> f[n].reg, trace |-> Append(f[n].trace, f[n].reg[l.ptr])]
      BY <2>2, <2>4, <2>5, <2>13, ExecIs DEF l
    <3>3. g[k] = [reg |-> g[n].reg, trace |-> Append(g[n].trace, g[n].reg[m.ptr])]
      BY <2>2, <2>4, <2>5, <3>1, ExecIs DEF m
    <3>4. g[k].trace = f[k].trace
      BY <3>1, <3>2, <3>3, <2>6
    <3>5. \A r \in live[k] : r \in live[n] /\ name[k][r] = name[n][r]
      BY <2>13, <2>3 DEF Simulates
    <3>6. f[k].reg = f[n].reg /\ g[k].reg = g[n].reg
      BY <3>2, <3>3
    <3>7. \A r \in live[k] : g[k].reg[name[k][r]] = f[k].reg[r]
      BY <3>5, <3>6, <2>6
    <3> QED
      BY <3>4, <3>7, <2>1 DEF Good
  <2>14. l.op \in {"param", "cvt", "add", "mem"}
    BY <2>8, LineKinds
  <2> QED
    BY <2>11, <2>12, <2>13, <2>14 DEF k
<1> HIDE DEF Good
<1>6. N \in Good
  <2>1. 0..N \subseteq Good
    BY <1>1, <1>4, <1>5, UpTo
  <2> QED
    BY <2>1, <1>1
<1> QED
  BY <1>2, <1>3, <1>6 DEF Good
-----------------------------------------------------------------------------
(***************************************************************************)
(* The two ways the peephole changes a body.                               *)
(***************************************************************************)

\* CompactGap renames every line, to a number nothing uses.
Compacts(A, top, free, B) ==
  free \notin Used(A) /\ B = [j \in DOMAIN A |-> Renamed(A[j], top, free)]

\* The lines stay lines.
LEMMA CompactLines ==
  ASSUME NEW A \in Seq(Line), NEW top, NEW free \in Nat, NEW B, Compacts(A, top, free, B)
  PROVE  B \in Seq(Line) /\ Len(B) = Len(A) /\ DOMAIN B = DOMAIN A
<1>1. \A j \in DOMAIN A : B[j] \in Line
  <2> SUFFICES ASSUME NEW j \in DOMAIN A PROVE B[j] \in Line
    OBVIOUS
  <2>1. A[j] \in Line /\ B[j] = Renamed(A[j], top, free)
    BY DEF Compacts
  <2> QED
    BY <2>1, RenamedLine
<1>2. DOMAIN A = 1..Len(A) /\ Len(A) \in Nat
  OBVIOUS
<1> QED
  BY <1>1, <1>2 DEF Compacts

\* The addresses stay, when no array's register is renamed or given away.
LEMMA CompactKeeps ==
  ASSUME NEW A \in Seq(Line), NEW path \in Seq(DOMAIN A), NEW arrays \in Nat,
         NEW top, NEW free \in Nat, NEW B, Compacts(A, top, free, B),
         top \notin 0..(arrays - 1), free \notin 0..(arrays - 1)
  PROVE  Addresses(B, path, arrays) = Addresses(A, path, arrays)
<1> DEFINE to(r) == IF r = top THEN free ELSE r
           name == [n \in 0..Len(path) |-> [r \in Used(A) |-> to(r)]]
           live == [n \in 0..Len(path) |-> Used(A)]
<1>0. free \notin Used(A) /\ B = [j \in DOMAIN A |-> Renamed(A[j], top, free)]
  BY DEF Compacts
<1>1. \A j \in DOMAIN A : A[j] \in Line /\ B[j] = Renamed(A[j], top, free)
  BY <1>0
<1>2. B \in Seq(Line) /\ Len(B) = Len(A)
  BY CompactLines
<1>3. ASSUME NEW r \in Used(A) PROVE to(r) \in Used(B)
  <2>1. PICK j \in DOMAIN A : r \in Regs(A[j])
    BY DEF Used
  <2>2. to(r) \in Regs(B[j])
    BY <1>1, <2>1, RenamedRegs
  <2>3. j \in DOMAIN B
    BY <1>0, <2>1
  <2> QED
    BY <2>2, <2>3 DEF Used
<1>4. ASSUME NEW n \in 1..Len(path)
      PROVE  Simulates(A[path[n]], B[path[n]], name[n - 1], name[n], live[n - 1], live[n])
  <2> DEFINE i == path[n]
  <2>1. i \in DOMAIN A
    OBVIOUS
  <2>2. A[i] \in Line /\ Regs(A[i]) \subseteq Used(A) /\ B[i] = Renamed(A[i], top, free)
    BY <2>1, <1>1, UsedBy
  <2>3. /\ B[i].op = A[i].op
        /\ A[i].op # "mem" => B[i].dest = to(A[i].dest)
        /\ A[i].op \in {"add", "mem"} => B[i].ptr = to(A[i].ptr)
        /\ A[i].op = "add" => B[i].off = to(A[i].off)
    BY <2>2, RenamedLine
  <2>4. n \in 0..Len(path) /\ n - 1 \in 0..Len(path)
    OBVIOUS
  <2>5. /\ live[n - 1] = Used(A) /\ live[n] = Used(A)
        /\ \A r \in Used(A) : name[n - 1][r] = to(r) /\ name[n][r] = to(r)
    BY <2>4
  <2>6. \A r, q \in Used(A) : r # q => to(r) # to(q)
    BY <1>0
  <2>7. /\ A[i].op # "mem" => A[i].dest \in Used(A)
        /\ A[i].op \in {"add", "mem"} => A[i].ptr \in Used(A)
        /\ A[i].op = "add" => A[i].off \in Used(A)
    BY <2>2, LineKinds
  <2> HIDE DEF to, name, live, i
  <2> QED
    BY <2>3, <2>5, <2>6, <2>7 DEF Simulates, i
<1>5. \A n \in 0..Len(path) : /\ live[n] \subseteq Used(A)
                              /\ \A r \in live[n] : name[n][r] \in Used(B)
  BY <1>3
<1>6. KeepsBases(name[0], live[0], arrays)
  BY DEF KeepsBases
<1> HIDE DEF name, live, to
<1> QED
  BY <1>2, <1>4, <1>5, <1>6, SimulatedAddresses

\* RewriteAdd makes addition t in place.
Rewrites(A, t, B) ==
  /\ t \in DOMAIN A /\ A[t].op = "add" /\ A[t].dest # A[t].ptr
  /\ B = [j \in DOMAIN A |->
            CASE j < t -> A[j]
              [] j = t -> [A[t] EXCEPT !.dest = A[t].ptr]
              [] j > t -> Renamed(A[j], A[t].dest, A[t].ptr)]

\* What the rewritten lines are.
Rewritten(A, t, B) ==
  /\ B \in Seq(Line) /\ Len(B) = Len(A) /\ DOMAIN B = DOMAIN A
  /\ A[t].dest \in Nat /\ A[t].ptr \in Nat /\ A[t].off \in Nat
  /\ B[t] = [op |-> "add", dest |-> A[t].ptr, ptr |-> A[t].ptr, off |-> A[t].off]
  /\ \A j \in DOMAIN A : j < t => B[j] = A[j]
  /\ \A j \in DOMAIN A : j > t => B[j] = Renamed(A[j], A[t].dest, A[t].ptr)

LEMMA RewrittenLines ==
  ASSUME NEW A \in Seq(Line), NEW t, NEW B, Rewrites(A, t, B)
  PROVE  Rewritten(A, t, B)
<1>1. /\ t \in DOMAIN A /\ A[t].op = "add" /\ t \in Nat /\ A[t] \in Line
      /\ DOMAIN A = 1..Len(A) /\ Len(A) \in Nat
  BY DEF Rewrites
<1>2. /\ A[t].dest \in Nat /\ A[t].ptr \in Nat /\ A[t].off \in Nat
      /\ A[t] \in [op : {"add"}, dest : Nat, ptr : Nat, off : Nat]
  BY <1>1 DEF Line
<1>3. [A[t] EXCEPT !.dest = A[t].ptr]
        = [op |-> "add", dest |-> A[t].ptr, ptr |-> A[t].ptr, off |-> A[t].off]
  BY <1>2
<1>4. B[t] = [op |-> "add", dest |-> A[t].ptr, ptr |-> A[t].ptr, off |-> A[t].off]
  BY <1>1, <1>3 DEF Rewrites
<1>5. ASSUME NEW j \in DOMAIN A, j < t PROVE B[j] = A[j]
  BY <1>1, <1>5 DEF Rewrites
<1>6. ASSUME NEW j \in DOMAIN A, j > t PROVE B[j] = Renamed(A[j], A[t].dest, A[t].ptr)
  BY <1>1, <1>6 DEF Rewrites
<1>7. ASSUME NEW j \in DOMAIN A PROVE B[j] \in Line
  <2>1. A[j] \in Line /\ j \in Nat
    BY <1>1
  <2>2. CASE j < t
    BY <2>1, <2>2, <1>5
  <2>3. CASE j = t
    BY <2>3, <1>2, <1>4 DEF Line
  <2>4. CASE j > t
    BY <2>1, <2>4, <1>2, <1>6, RenamedLine
  <2> QED
    BY <1>1, <2>1, <2>2, <2>3, <2>4
<1>8. B \in Seq(Line) /\ Len(B) = Len(A) /\ DOMAIN B = DOMAIN A
  <2>1. DOMAIN B = 1..Len(A)
    BY <1>1 DEF Rewrites
  <2>2. B = [j \in 1..Len(A) |-> B[j]]
    BY <1>1 DEF Rewrites
  <2> QED
    BY <1>1, <1>7, <2>1, <2>2
<1> QED
  BY <1>2, <1>4, <1>5, <1>6, <1>8 DEF Rewritten

\* What the simulation needs of a line all of whose registers are live under
\* their names.
LEMMA LineSimulates ==
  ASSUME NEW l \in Line, NEW m, NEW s, NEW t, NEW live, NEW alive,
         m.op = l.op,
         l.op # "mem" => m.dest = t[l.dest],
         l.op \in {"add", "mem"} => l.ptr \in live /\ m.ptr = s[l.ptr],
         l.op = "add" => l.off \in live /\ m.off = s[l.off],
         \A r \in alive : (l.op # "mem" => r # l.dest) =>
            r \in live /\ t[r] = s[r] /\ (l.op # "mem" => t[r] # m.dest)
  PROVE  Simulates(l, m, s, t, live, alive)
  BY DEF Simulates

\* An addition the path skips: it may be rewritten when no line below on the
\* path names its destination, for then these lines are not changed.
LEMMA SkippedKeeps ==
  ASSUME NEW A \in Seq(Line), NEW path \in Seq(DOMAIN A), NEW arrays \in Nat,
         NEW t, NEW B, Rewrites(A, t, B),
         \A n \in DOMAIN path : /\ path[n] # t
                                /\ path[n] > t => A[t].dest \notin Regs(A[path[n]])
  PROVE  Addresses(B, path, arrays) = Addresses(A, path, arrays)
<1> DEFINE both == Used(A) \cap Used(B)
           name == [n \in 0..Len(path) |-> [r \in Used(A) |-> r]]
           live == [n \in 0..Len(path) |-> both]
<1>0. Rewritten(A, t, B)
  BY RewrittenLines
<1>1. B \in Seq(Line) /\ Len(B) = Len(A) /\ DOMAIN B = DOMAIN A
  BY <1>0 DEF Rewritten
<1>b. /\ \A j \in DOMAIN A : j < t => B[j] = A[j]
      /\ \A j \in DOMAIN A : j > t => B[j] = Renamed(A[j], A[t].dest, A[t].ptr)
  BY <1>0 DEF Rewritten
<1>2. ASSUME NEW n \in 1..Len(path)
      PROVE  Simulates(A[path[n]], B[path[n]], name[n - 1], name[n], live[n - 1], live[n])
  <2> DEFINE i == path[n]
  <2>1. i \in DOMAIN A /\ i \in Nat /\ t \in Nat /\ n \in DOMAIN path
    BY DEF Rewrites
  <2>2. B[i] = A[i]
    <3>1. i # t
      BY <2>1
    <3>2. CASE i < t
      BY <2>1, <3>2, <1>b
    <3>3. CASE i > t
      <4>1. B[i] = Renamed(A[i], A[t].dest, A[t].ptr)
        BY <2>1, <3>3, <1>b
      <4>2. A[t].dest \notin Regs(A[i]) /\ A[i] \in Line
        BY <2>1, <3>3
      <4> QED
        BY <4>1, <4>2, RenamedNothing
    <3> QED
      BY <3>1, <3>2, <3>3, <2>1
  <2>3. A[i] \in Line /\ Regs(A[i]) \subseteq Used(A) /\ Regs(A[i]) \subseteq Used(B)
    BY <2>1, <2>2, <1>1, UsedBy
  <2>4. n \in 0..Len(path) /\ n - 1 \in 0..Len(path)
    OBVIOUS
  <2>5. /\ live[n - 1] = both /\ live[n] = both
        /\ \A r \in Used(A) : name[n - 1][r] = r /\ name[n][r] = r
    BY <2>4
  <2>6. /\ A[i].op # "mem" => A[i].dest \in both
        /\ A[i].op \in {"add", "mem"} => A[i].ptr \in both
        /\ A[i].op = "add" => A[i].off \in both
    BY <2>3, LineKinds
  <2>7. both \subseteq Used(A)
    OBVIOUS
  <2> HIDE DEF name, live, i, both
  <2> QED
    BY <2>2, <2>5, <2>6, <2>7 DEF Simulates, i
<1>3. \A n \in 0..Len(path) : /\ live[n] \subseteq Used(A)
                              /\ \A r \in live[n] : name[n][r] \in Used(B)
  OBVIOUS
<1>4. KeepsBases(name[0], live[0], arrays)
  BY DEF KeepsBases
<1> HIDE DEF name, live, both
<1> QED
  BY <1>1, <1>2, <1>3, <1>4, SimulatedAddresses

\* An addition the path runs: it may be rewritten when no line below on the
\* path names its pointer.  Down to the addition a register keeps its name;
\* from there on the old destination is called what the pointer was, and the
\* old pointer is dead.
LEMMA RunKeeps ==
  ASSUME NEW A \in Seq(Line), NEW path \in Seq(DOMAIN A), RunsForward(path),
         NEW arrays \in Nat, NEW t, NEW B, Rewrites(A, t, B), NEW w \in DOMAIN path, path[w] = t,
         \A n \in DOMAIN path : path[n] > t => A[t].ptr \notin Regs(A[path[n]])
  PROVE  Addresses(B, path, arrays) = Addresses(A, path, arrays)
<1> DEFINE d == A[t].dest
           p == A[t].ptr
           both == Used(A) \cap Used(B)
           after == (both \ {p}) \cup {d}
           to(r) == IF r = d THEN p ELSE r
           name == [n \in 0..Len(path) |-> [r \in Used(A) |-> IF n < w THEN r ELSE to(r)]]
           live == [n \in 0..Len(path) |-> IF n < w THEN both ELSE after]
<1>0. Rewritten(A, t, B)
  BY RewrittenLines
<1>1. /\ B \in Seq(Line) /\ Len(B) = Len(A) /\ DOMAIN B = DOMAIN A
      /\ d \in Nat /\ p \in Nat /\ A[t].off \in Nat
      /\ B[t] = [op |-> "add", dest |-> p, ptr |-> p, off |-> A[t].off]
  BY <1>0 DEF Rewritten
<1>b. /\ \A j \in DOMAIN A : j < t => B[j] = A[j]
      /\ \A j \in DOMAIN A : j > t => B[j] = Renamed(A[j], A[t].dest, A[t].ptr)
  BY <1>0 DEF Rewritten
<1>2. t \in DOMAIN A /\ A[t].op = "add" /\ d # p
  BY DEF Rewrites
<1>3. Regs(A[t]) = {d, p, A[t].off} /\ Regs(B[t]) = {p, A[t].off}
  <2>1. A[t] \in Line /\ B[t] \in Line
    BY <1>1, <1>2, UsedBy
  <2>2. Regs(A[t]) = {A[t].dest, A[t].ptr, A[t].off}
    BY <2>1, <1>2, LineKinds
  <2>3. B[t].op = "add" /\ B[t].dest = p /\ B[t].ptr = p /\ B[t].off = A[t].off
    BY <1>1
  <2>4. Regs(B[t]) = {B[t].dest, B[t].ptr, B[t].off}
    BY <2>1, <2>3, LineKinds
  <2> QED
    BY <2>2, <2>3, <2>4
<1>4. p \in both /\ A[t].off \in both /\ d \in Used(A)
  BY <1>1, <1>2, <1>3, UsedBy
<1>5. w \in 1..Len(path) /\ Len(path) \in Nat
  OBVIOUS
<1>6. ASSUME NEW n \in 1..Len(path)
      PROVE  Simulates(A[path[n]], B[path[n]], name[n - 1], name[n], live[n - 1], live[n])
  <2> DEFINE i == path[n]
  <2>1. i \in DOMAIN A /\ i \in Nat /\ t \in Nat /\ n \in DOMAIN path
    BY DEF Rewrites
  <2>2. n \in 0..Len(path) /\ n - 1 \in 0..Len(path)
    OBVIOUS
  <2>3. A[i] \in Line /\ Regs(A[i]) \subseteq Used(A) /\ Regs(B[i]) \subseteq Used(B)
    BY <2>1, <1>1, UsedBy
  <2>4. CASE n < w
    <3>1. i < t
      BY <2>1, <2>4 DEF RunsForward
    <3>2. B[i] = A[i]
      BY <2>1, <3>1, <1>b
    <3>3. n - 1 < w
      BY <2>4, <1>5
    <3>4. /\ live[n - 1] = both /\ live[n] = both
          /\ \A r \in Used(A) : name[n - 1][r] = r /\ name[n][r] = r
      BY <2>2, <2>4, <3>3
    <3>5. /\ A[i].op # "mem" => A[i].dest \in both
          /\ A[i].op \in {"add", "mem"} => A[i].ptr \in both
          /\ A[i].op = "add" => A[i].off \in both
      BY <2>3, <3>2, LineKinds
    <3>6. both \subseteq Used(A)
      OBVIOUS
    <3> HIDE DEF name, live, i, both, after, to, d, p
    <3> QED
      BY <3>2, <3>4, <3>5, <3>6 DEF Simulates, i
  <2>5. CASE n = w
    <3>1. n - 1 < w /\ ~(n < w) /\ i = t
      BY <2>5, <1>5
    <3>2. /\ live[n - 1] = both /\ live[n] = after
          /\ \A r \in Used(A) : name[n - 1][r] = r /\ name[n][r] = to(r)
      BY <2>2, <3>1
    <3>3. both \subseteq Used(A)
      OBVIOUS
    <3>4. to(d) = p /\ \A r \in after : r # d => r \in both /\ to(r) = r /\ r # p
      OBVIOUS
    <3>5. /\ B[t].op = "add" /\ B[t].dest = p /\ B[t].ptr = p /\ B[t].off = A[t].off
          /\ A[t].dest = d /\ A[t].ptr = p
      BY <1>1
    <3>6. name[n - 1][p] = p /\ name[n - 1][A[t].off] = A[t].off /\ name[n][d] = p
      BY <3>2, <3>3, <3>4, <1>4
    <3>7. ASSUME NEW r \in after, r # d
          PROVE  r \in both /\ name[n][r] = name[n - 1][r] /\ name[n][r] # p
      BY <3>2, <3>3, <3>4, <3>7
    <3> HIDE DEF name, live, i, both, after, to, d, p
    <3> QED
      BY <3>1, <3>2, <3>5, <3>6, <3>7, <1>2, <1>4 DEF Simulates, i
  <2>6. CASE n > w
    <3>1. i > t /\ ~(n < w) /\ ~(n - 1 < w)
      BY <2>1, <2>6, <1>5 DEF RunsForward
    <3>2. B[i] = Renamed(A[i], d, p) /\ p \notin Regs(A[i])
      BY <2>1, <3>1, <1>b
    <3>3. /\ live[n - 1] = after /\ live[n] = after
          /\ \A r \in Used(A) : name[n - 1][r] = to(r) /\ name[n][r] = to(r)
      BY <2>2, <3>1
    <3>4. /\ B[i].op = A[i].op
          /\ A[i].op # "mem" => B[i].dest = to(A[i].dest)
          /\ A[i].op \in {"add", "mem"} => B[i].ptr = to(A[i].ptr)
          /\ A[i].op = "add" => B[i].off = to(A[i].off)
      BY <2>3, <3>2, <1>1, RenamedLine
    <3>5. ASSUME NEW r \in Regs(A[i]) PROVE r \in after /\ r \in Used(A) /\ r # p
      <4>1. r # p /\ r \in Used(A)
        BY <2>3, <3>2
      <4>2. CASE r = d
        BY <4>1, <4>2
      <4>3. CASE r # d
        <5>1. r \in Regs(B[i])
          BY <2>3, <3>2, <4>3, <1>1, RenamedRegs
        <5>2. r \in Used(B)
          BY <5>1, <2>3
        <5> QED
          BY <5>2, <4>1
      <4> QED
        BY <4>2, <4>3
    <3>6. /\ A[i].op # "mem" => A[i].dest \in Regs(A[i])
          /\ A[i].op \in {"add", "mem"} => A[i].ptr \in Regs(A[i])
          /\ A[i].op = "add" => A[i].off \in Regs(A[i])
      BY <2>3, LineKinds
    <3>7. \A r \in after : r # p /\ r \in Used(A)
      BY <1>2, <1>4
    <3>8. \A r, q : r # q /\ r # p /\ q # p => to(r) # to(q)
      OBVIOUS
    <3> HIDE DEF name, live, i, both, after, to, d, p
    <3> QED
      BY <3>3, <3>4, <3>5, <3>6, <3>7, <3>8 DEF Simulates, i
  <2> QED
    BY <2>4, <2>5, <2>6, <1>5
<1>7. ASSUME NEW n \in 0..Len(path)
      PROVE  live[n] \subseteq Used(A) /\ \A r \in live[n] : name[n][r] \in Used(B)
  <2>1. p \in Used(B)
    BY <1>4
  <2>2. CASE n < w
    BY <2>2
  <2>3. CASE ~(n < w)
    BY <2>1, <2>3, <1>4
  <2> QED
    BY <2>2, <2>3
<1>8. KeepsBases(name[0], live[0], arrays)
  BY <1>5 DEF KeepsBases
<1> HIDE DEF name, live, both, after, to, d, p
<1> QED
  BY <1>1, <1>6, <1>7, <1>8, SimulatedAddresses
-----------------------------------------------------------------------------
(***************************************************************************)
(* The invariant.  Down to the lowest addition still to be rewritten the   *)
(* body is what it was, each of these additions still clobbers a dead      *)
(* register in the body as it is, and every address is what it was.        *)
(***************************************************************************)
Types ==
  /\ program \in Programs
  /\ body \in Seq(Line) /\ Len(body) = Len(program.lines)
  /\ adds \subseteq OffsetAdds(program.lines)
  /\ gap \in Nat
  /\ phase = "match" => body = program.lines /\ adds = {}

Untouched == \A a \in adds, j \in DOMAIN body : j <= a => body[j] = program.lines[j]

StillDead == \A i \in adds : program.lines[i].dest # program.lines[i].ptr =>
                               DeadAfter(program, body, adds, i)

SameAddresses ==
  Addresses(body, program.path, program.arrays)
    = Addresses(program.lines, program.path, program.arrays)

\* A line that reads an array's register, first of all lines, still reads it.
BasesRead ==
  \A r \in Bases(program) : \E j \in DOMAIN body :
    /\ r \in Reads(body[j])
    /\ \A i \in DOMAIN program.lines : i < j => r \notin Regs(program.lines[i])

Sound(pr) == PointersDead(pr) /\ ArraysRead(pr)

AInv ==
  /\ Types
  /\ Untouched
  /\ ArraysRead(program) => BasesRead
  /\ Sound(program) => StillDead /\ SameAddresses

\* A body the peephole has not met satisfies the invariant.
LEMMA InitAInv == Init => AInv
<1> SUFFICES ASSUME Init PROVE AInv
  OBVIOUS
<1>1. program.lines \in Seq(Line)
  BY InPlaceAddsAssumption DEF Init
<1>2. Types
  BY <1>1 DEF Init, Types
<1>3. ArraysRead(program) => BasesRead
  BY DEF Init, ArraysRead, BasesRead
<1> QED
  BY <1>2, <1>3 DEF Init, AInv, Untouched, StillDead, SameAddresses

\* Top is the greatest of the additions left.
LEMMA TopOfAdds ==
  ASSUME Types, adds # {}
  PROVE  /\ Top(adds) \in adds /\ Top(adds) \in DOMAIN program.lines /\ Top(adds) \in Nat
         /\ \A k \in adds : k \in DOMAIN program.lines /\ k \in Nat /\ k <= Top(adds)
<1>1. program.lines \in Seq(Line) /\ Len(program.lines) \in Nat
  BY InPlaceAddsAssumption DEF Types
<1>2. DOMAIN program.lines = 1..Len(program.lines)
  BY <1>1
<1>3. adds \subseteq DOMAIN program.lines
  BY DEF Types, OffsetAdds
<1>4. adds \subseteq Nat /\ \A k \in adds : k <= Len(program.lines)
  BY <1>2, <1>3
<1>5. \E m \in adds : \A k \in adds : k <= m
  BY <1>1, <1>4, GreatestNat
<1>6. Top(adds) \in adds /\ \A k \in adds : k <= Top(adds)
  BY <1>5 DEF Top
<1> QED
  BY <1>3, <1>4, <1>6

\* Collecting the additions: PointersDead says that each clobbers a dead
\* register.
LEMMA MatchAInv ==
  ASSUME AInv, Match
  PROVE  AInv'
<1>1. /\ program' = program /\ body' = body /\ gap' = gap
      /\ phase = "match" /\ phase' # "match"
      /\ adds' = OffsetAdds(body) \/ adds' = {}
  BY DEF Match
<1>2. body = program.lines /\ Types
  BY <1>1 DEF AInv, Types
<1>3. adds' \subseteq OffsetAdds(program.lines)
  BY <1>1, <1>2
<1>4. Types'
  BY <1>1, <1>2, <1>3 DEF Types
<1>5. ASSUME Sound(program) PROVE StillDead' /\ SameAddresses'
  <2>1. SameAddresses'
    BY <1>1, <1>2 DEF SameAddresses
  <2>2. adds' = OffsetAdds(program.lines) \/ adds' = {}
    BY <1>1, <1>2
  <2>3. \A i \in OffsetAdds(program.lines) : program.lines[i].dest # program.lines[i].ptr =>
           DeadAfter(program, program.lines, OffsetAdds(program.lines), i)
    BY <1>5 DEF Sound, PointersDead
  <2>4. \A i \in adds' : program.lines[i].dest # program.lines[i].ptr =>
           DeadAfter(program, body, adds', i)
    BY <2>2, <2>3, <1>2
  <2>5. StillDead'
    BY <2>4, <1>1 DEF StillDead
  <2> QED
    BY <2>1, <2>5
<1>6. (Sound(program))' = Sound(program) /\ (ArraysRead(program))' = ArraysRead(program)
  BY <1>1
<1>7. Untouched'
  BY <1>1, <1>2 DEF Untouched
<1>8. BasesRead => BasesRead'
  BY <1>1 DEF BasesRead
<1> QED
  BY <1>4, <1>5, <1>6, <1>7, <1>8 DEF AInv

\* Renaming another register leaves a line that reads r a line that reads r.
LEMMA RenamedReads ==
  ASSUME NEW l \in Line, NEW old, NEW new \in Nat, NEW r \in Reads(l), r # old
  PROVE  r \in Reads(Renamed(l, old, new)) /\ r \in Regs(l)
<1> DEFINE m == Renamed(l, old, new)
<1>1. PICK f \in DOMAIN l \cap {"ptr", "off"} : r = l[f]
  BY DEF Reads
<1>2. DOMAIN m = DOMAIN l /\ m[f] = r
  BY <1>1 DEF Renamed
<1> QED
  BY <1>1, <1>2 DEF Reads, Regs

\* While every array is read, the registers of the arrays are used.
LEMMA BasesUsed ==
  ASSUME Types, BasesRead
  PROVE  Bases(program) \subseteq Used(body)
<1> SUFFICES ASSUME NEW r \in Bases(program) PROVE r \in Used(body)
  OBVIOUS
<1>1. PICK j \in DOMAIN body : r \in Reads(body[j])
  BY DEF BasesRead
<1> QED
  BY <1>1 DEF Reads, Regs, Used

\* The compaction renames every line alike, and while every array is read it
\* takes no register from an array and gives it none.
LEMMA CompactAInv ==
  ASSUME AInv, CompactGap, adds = {}
  PROVE  AInv'
<1> DEFINE top == Top(Used(body))
<1>1. /\ program' = program /\ adds' = {} /\ phase' # "match" /\ gap' = gap + 1
      /\ program \in Programs /\ body \in Seq(Line) /\ Len(body) = Len(program.lines)
      /\ gap \in Nat /\ gap <= top
  BY DEF CompactGap, AInv, Types
<1>2. program.path \in Seq(DOMAIN body) /\ program.arrays \in Nat
  <2>1. /\ program.lines \in Seq(Line) /\ program.path \in Seq(DOMAIN program.lines)
        /\ program.arrays \in Nat
    BY <1>1, InPlaceAddsAssumption
  <2>2. DOMAIN body = DOMAIN program.lines
    BY <1>1, <2>1
  <2> QED
    BY <2>1, <2>2
<1>3. body' = body \/ Compacts(body, top, gap, body')
  BY DEF CompactGap, Compacts
<1>4. body' \in Seq(Line) /\ Len(body') = Len(body) /\ DOMAIN body' = DOMAIN body
  BY <1>1, <1>3, CompactLines
<1>5. Types'
  BY <1>1, <1>4 DEF Types
<1>6. ASSUME ArraysRead(program), Compacts(body, top, gap, body')
      PROVE  top \notin Bases(program) /\ gap \notin Bases(program)
  <2>1. Bases(program) \subseteq Used(body)
    BY <1>6, BasesUsed DEF AInv
  <2>2. gap \notin Bases(program)
    BY <2>1, <1>6 DEF Compacts
  <2> HIDE DEF top
  <2> QED
    BY <2>2, <1>1, <1>2 DEF Bases
<1>7. ASSUME ArraysRead(program) PROVE BasesRead'
  <2> SUFFICES ASSUME NEW r \in Bases(program)
               PROVE  \E j \in DOMAIN body' :
                        /\ r \in Reads(body'[j])
                        /\ \A i \in DOMAIN program.lines : i < j => r \notin Regs(program.lines[i])
    BY <1>1 DEF BasesRead
  <2>1. PICK j \in DOMAIN body :
          /\ r \in Reads(body[j])
          /\ \A i \in DOMAIN program.lines : i < j => r \notin Regs(program.lines[i])
    BY <1>7 DEF AInv, BasesRead
  <2>2. CASE body' = body
    BY <2>1, <2>2
  <2>3. CASE Compacts(body, top, gap, body')
    <3>1. r # top
      BY <1>6, <1>7, <2>3
    <3>2. body'[j] = Renamed(body[j], top, gap) /\ body[j] \in Line
      BY <2>3, <1>1 DEF Compacts
    <3> HIDE DEF top
    <3>3. r \in Reads(body'[j])
      BY <2>1, <3>1, <3>2, <1>1, RenamedReads
    <3> QED
      BY <2>1, <3>3, <1>4
  <2> QED
    BY <2>2, <2>3, <1>3
<1>8. ASSUME Sound(program) PROVE StillDead' /\ SameAddresses'
  <2>1. SameAddresses
    BY <1>8 DEF AInv
  <2>2. Addresses(body', program.path, program.arrays)
          = Addresses(body, program.path, program.arrays)
    <3>1. CASE body' = body
      BY <3>1
    <3>2. CASE Compacts(body, top, gap, body')
      <4>1. top \notin 0..(program.arrays - 1) /\ gap \notin 0..(program.arrays - 1)
        BY <1>6, <1>8, <3>2 DEF Sound, Bases
      <4>2. body \in Seq(Line) /\ gap \in Nat
        BY <1>1
      <4> DEFINE path == program.path
                 arrays == program.arrays
      <4>3. path \in Seq(DOMAIN body) /\ arrays \in Nat
        BY <1>2
      <4>4. top \notin 0..(arrays - 1) /\ gap \notin 0..(arrays - 1)
        BY <4>1
      <4> HIDE DEF top, path, arrays
      <4>5. Addresses(body', path, arrays) = Addresses(body, path, arrays)
        BY <3>2, <4>2, <4>3, <4>4, CompactKeeps
      <4> QED
        BY <4>5 DEF path, arrays
    <3> QED
      BY <3>1, <3>2, <1>3
  <2> QED
    BY <2>1, <2>2, <1>1 DEF StillDead, SameAddresses
<1>9. (Sound(program))' = Sound(program) /\ (ArraysRead(program))' = ArraysRead(program)
  BY <1>1
<1>10. Untouched'
  BY <1>1 DEF Untouched
<1> QED
  BY <1>5, <1>7, <1>8, <1>9, <1>10 DEF AInv
-----------------------------------------------------------------------------
(***************************************************************************)
(* Rewriting one addition.                                                 *)
(***************************************************************************)

\* What RewriteAdd does to the body.
LEMMA RewriteAddRewrites ==
  ASSUME Types, Untouched, RewriteAdd,
         program.lines[Top(adds)].dest # program.lines[Top(adds)].ptr
  PROVE  Rewrites(body, Top(adds), body') /\ body[Top(adds)] = program.lines[Top(adds)]
<1> DEFINE t == Top(adds)
<1>1. adds # {}
  BY DEF RewriteAdd
<1>2. t \in adds /\ t \in DOMAIN program.lines /\ t \in Nat
  BY <1>1, TopOfAdds
<1>3. DOMAIN body = DOMAIN program.lines
  BY InPlaceAddsAssumption DEF Types
<1>4. program.lines[t].op = "add"
  BY <1>2 DEF Types, OffsetAdds
<1>5. body[t] = program.lines[t]
  BY <1>2, <1>3 DEF Untouched
<1>6. body' = [j \in DOMAIN body |->
                 CASE j < t -> body[j]
                   [] j = t -> [body[t] EXCEPT !.dest = program.lines[t].ptr]
                   [] j > t -> Renamed(body[j], program.lines[t].dest, program.lines[t].ptr)]
  BY DEF RewriteAdd
<1> HIDE DEF t
<1>7. Rewrites(body, t, body')
  BY <1>2, <1>3, <1>4, <1>5, <1>6 DEF Rewrites, t
<1> QED
  BY <1>5, <1>7 DEF t

\* No line below the last addition on the path names the register it clobbers:
\* only an addition below could have made that possible.
LEMMA LastIsDead ==
  ASSUME Types, StillDead, adds # {},
         program.lines[Top(adds)].dest # program.lines[Top(adds)].ptr,
         NEW n \in DOMAIN program.path, program.path[n] > Top(adds)
  PROVE  Clobbered(program, Top(adds)) \notin Regs(body[program.path[n]])
<1> DEFINE t == Top(adds)
<1>1. t \in adds /\ t \in Nat /\ \A k \in adds : k \in Nat /\ k <= t
  BY TopOfAdds
<1>2. DeadAfter(program, body, adds, t)
  BY <1>1 DEF StillDead
<1>3. ~\E k \in adds : t < k /\ k <= program.path[n] /\ Moves(program.lines[k], Clobbered(program, t))
  BY <1>1
<1> QED
  BY <1>2, <1>3 DEF DeadAfter

\* Rewriting the last addition keeps the addresses.
LEMMA RewriteKeeps ==
  ASSUME Types, Untouched, StillDead, RewriteAdd, RunsForward(program.path),
         program.lines[Top(adds)].dest # program.lines[Top(adds)].ptr
  PROVE  Addresses(body', program.path, program.arrays) = Addresses(body, program.path, program.arrays)
<1> DEFINE t == Top(adds)
           path == program.path
<1>1. Rewrites(body, t, body') /\ body[t] = program.lines[t] /\ adds # {}
  BY RewriteAddRewrites DEF RewriteAdd
<1>2. body \in Seq(Line) /\ path \in Seq(DOMAIN body) /\ program.arrays \in Nat
  <2>1. program.lines \in Seq(Line) /\ program.path \in Seq(DOMAIN program.lines)
        /\ body \in Seq(Line) /\ Len(body) = Len(program.lines) /\ program.arrays \in Nat
    BY InPlaceAddsAssumption DEF Types
  <2>2. DOMAIN body = DOMAIN program.lines
    BY <2>1
  <2> QED
    BY <2>1, <2>2
<1>3. \A n \in DOMAIN path : path[n] > t => Clobbered(program, t) \notin Regs(body[path[n]])
  BY <1>1, LastIsDead
<1>4. CASE \E w \in DOMAIN path : path[w] = t
  <2>1. PICK w \in DOMAIN path : path[w] = t
    BY <1>4
  <2>2. Clobbered(program, t) = body[t].ptr
    BY <2>1, <1>1 DEF Clobbered
  <2> HIDE DEF t, path
  <2>3. RunsForward(path)
    BY DEF path
  <2>4. Addresses(body', path, program.arrays) = Addresses(body, path, program.arrays)
    BY <2>1, <2>2, <2>3, <1>1, <1>2, <1>3, RunKeeps
  <2> QED
    BY <2>4 DEF path
<1>5. CASE ~\E w \in DOMAIN path : path[w] = t
  <2>1. Clobbered(program, t) = body[t].dest
    BY <1>5, <1>1 DEF Clobbered
  <2> HIDE DEF t, path
  <2>2. Addresses(body', path, program.arrays) = Addresses(body, path, program.arrays)
    BY <2>1, <1>1, <1>2, <1>3, <1>5, SkippedKeeps
  <2> QED
    BY <2>2 DEF path
<1> QED
  BY <1>4, <1>5

\* The last addition still names its pointer and the offset, whatever was
\* renamed below it, and nothing else.
LEMMA LastNames ==
  ASSUME Types, Untouched, RewriteAdd,
         program.lines[Top(adds)].dest # program.lines[Top(adds)].ptr
  PROVE  /\ program.lines[Top(adds)].ptr \in Regs(body[Top(adds)])
         /\ Regs(body'[Top(adds)]) = {program.lines[Top(adds)].ptr, Highest(program.lines)}
<1> DEFINE t == Top(adds)
<1>1. Rewrites(body, t, body') /\ body[t] = program.lines[t] /\ adds # {} /\ body \in Seq(Line)
  BY RewriteAddRewrites DEF RewriteAdd, Types
<1>2. t \in DOMAIN body /\ body[t].op = "add" /\ body[t] \in Line
  BY <1>1, UsedBy DEF Rewrites
<1>3. Regs(body[t]) = {body[t].dest, body[t].ptr, body[t].off}
  BY <1>2, LineKinds
<1>4. Rewritten(body, t, body')
  BY <1>1, RewrittenLines
<1>5. /\ body'[t] \in Line /\ body'[t].op = "add" /\ body'[t].dest = body[t].ptr
      /\ body'[t].ptr = body[t].ptr /\ body'[t].off = body[t].off
  BY <1>2, <1>4, UsedBy DEF Rewritten
<1>6. Regs(body'[t]) = {body'[t].dest, body'[t].ptr, body'[t].off}
  BY <1>5, LineKinds
<1>7. body[t].off = Highest(program.lines)
  BY <1>1, TopOfAdds DEF Types, OffsetAdds
<1> QED
  BY <1>1, <1>3, <1>5, <1>6, <1>7

\* The registers the additions above clobber stay dead: a line below that now
\* names one named it before, or the last addition renamed it, and it named its
\* pointer as well.
LEMMA RewriteStaysDead ==
  ASSUME Types, Untouched, StillDead, RewriteAdd,
         NEW i \in adds \ {Top(adds)}, program.lines[i].dest # program.lines[i].ptr
  PROVE  DeadAfter(program, body', adds \ {Top(adds)}, i)
<1> DEFINE t == Top(adds)
           path == program.path
           r == Clobbered(program, i)
           d == program.lines[t].dest
           p == program.lines[t].ptr
           Moved(j, left) == \E k \in left : i < k /\ k <= j /\ Moves(program.lines[k], r)
<1>1. /\ t \in adds /\ t \in DOMAIN program.lines /\ t \in Nat
      /\ i \in DOMAIN program.lines /\ i \in Nat /\ i < t
  BY TopOfAdds DEF RewriteAdd
<1>2. DeadAfter(program, body, adds, i)
  BY DEF StillDead
<1>3. r # Highest(program.lines)
  BY <1>2 DEF DeadAfter
<1>4. \A n \in DOMAIN path : path[n] > i /\ r \in Regs(body[path[n]]) => Moved(path[n], adds)
  BY <1>2 DEF DeadAfter
<1>5. /\ body \in Seq(Line) /\ program.lines \in Seq(Line) /\ path \in Seq(DOMAIN body)
      /\ DOMAIN body = DOMAIN program.lines /\ DOMAIN body \subseteq Nat
  <2>1. /\ program.lines \in Seq(Line) /\ program.path \in Seq(DOMAIN program.lines)
        /\ body \in Seq(Line) /\ Len(body) = Len(program.lines)
    BY InPlaceAddsAssumption DEF Types
  <2>2. DOMAIN body = DOMAIN program.lines /\ DOMAIN body \subseteq Nat
    BY <2>1
  <2> QED
    BY <2>1, <2>2
\* The addition that moves a new pointer into r is not the last one when the
\* last one does not.
<1>6. ASSUME NEW j, Moved(j, adds), ~Moves(program.lines[t], r)
      PROVE  Moved(j, adds \ {t})
  BY <1>6
<1>7. CASE d = p
  <2>1. body' = body
    BY <1>7 DEF RewriteAdd
  <2>2. ~Moves(program.lines[t], r)
    BY <1>7 DEF Moves
  <2> HIDE DEF Moved, t, r, path
  <2>3. \A n \in DOMAIN path : path[n] > i /\ r \in Regs(body'[path[n]]) => Moved(path[n], adds \ {t})
    BY <2>1, <2>2, <1>4, <1>6
  <2> QED
    BY <2>3, <1>3 DEF DeadAfter, Moved, t, r, path
<1>8. CASE d # p
  <2>1. Rewritten(body, t, body') /\ body[t] = program.lines[t]
    BY <1>5, <1>8, RewriteAddRewrites, RewrittenLines
  <2>2. p \in Regs(body[t]) /\ Regs(body'[t]) = {p, Highest(program.lines)}
    BY <1>8, LastNames
  <2>3. p \in Nat
    BY <2>1 DEF Rewritten
  \* When r is the last addition's pointer, and the path runs that addition.
  <2>4. ASSUME NEW n \in DOMAIN path, path[n] = t, r = p
        PROVE  Moved(t, adds \ {t})
    <3>1. Moved(t, adds)
      BY <1>1, <1>4, <2>2, <2>4
    <3>2. ~Moves(program.lines[t], r)
      BY <2>4 DEF Moves
    <3> QED
      BY <3>1, <3>2, <1>6
  <2>5. ASSUME NEW n \in DOMAIN path, path[n] > i, r \in Regs(body'[path[n]])
        PROVE  Moved(path[n], adds \ {t})
    <3> DEFINE j == path[n]
    <3>1. j \in DOMAIN body /\ j \in Nat /\ body[j] \in Line
      BY <1>5
    <3>2. CASE j < t
      <4>1. r \in Regs(body[j])
        BY <2>1, <2>5, <3>1, <3>2 DEF Rewritten
      <4>2. Moved(j, adds)
        BY <4>1, <1>4, <2>5
      <4> QED
        BY <4>2, <3>1, <3>2, <1>1
    <3>3. CASE j = t
      <4>1. r = p
        BY <2>2, <2>5, <3>3, <1>3
      <4> QED
        BY <4>1, <2>4, <3>3
    <3>4. CASE j > t
      <4>1. body'[j] = Renamed(body[j], d, p)
        BY <2>1, <3>1, <3>4 DEF Rewritten
      <4>2. PICK q \in Regs(body[j]) : r = IF q = d THEN p ELSE q
        BY <4>1, <2>3, <2>5, <3>1, RenamedRegs
      <4>3. CASE q = d
        <5>1. r = p
          BY <4>2, <4>3
        <5>2. Clobbered(program, t) # d
          BY <4>3, <3>4, <1>8, <1>1, LastIsDead
        <5>3. PICK w \in DOMAIN path : path[w] = t
          BY <5>2 DEF Clobbered
        <5>4. Moved(t, adds \ {t})
          BY <5>1, <5>3, <2>4
        <5>5. \A k \in adds : k \in Nat
          BY TopOfAdds DEF RewriteAdd
        <5> HIDE DEF t, r, j
        <5> QED
          BY <5>4, <5>5, <3>1, <3>4, <1>1 DEF j
      <4>4. CASE q # d
        <5>1. r \in Regs(body[j]) /\ r # d
          BY <4>2, <4>4
        <5>2. Moved(j, adds)
          BY <5>1, <1>4, <2>5
        <5>3. ~Moves(program.lines[t], r)
          BY <5>1 DEF Moves
        <5> QED
          BY <5>2, <5>3, <1>6
      <4> QED
        BY <4>3, <4>4
    <3> QED
      BY <3>1, <3>2, <3>3, <3>4, <1>1
  <2> QED
    BY <2>5, <1>3 DEF DeadAfter
<1> QED
  BY <1>7, <1>8

\* The line that reads an array first still reads it after the last addition
\* was rewritten: that addition comes later and leaves the line as it is, is the
\* line itself and keeps what it reads, or comes earlier, and then its
\* destination is not the array's register.
LEMMA RewriteBasesRead ==
  ASSUME Types, Untouched, BasesRead, RewriteAdd
  PROVE  BasesRead'
<1> DEFINE t == Top(adds)
<1>1. program' = program /\ adds # {}
  BY DEF RewriteAdd
<1>2. t \in adds /\ t \in DOMAIN program.lines /\ t \in Nat
  BY <1>1, TopOfAdds
<1>3. CASE program.lines[t].dest = program.lines[t].ptr
  <2>1. body' = body
    BY <1>3 DEF RewriteAdd
  <2> QED
    BY <2>1, <1>1 DEF BasesRead
<1>4. CASE program.lines[t].dest # program.lines[t].ptr
  <2>1. body \in Seq(Line) /\ Rewrites(body, t, body') /\ body[t] = program.lines[t]
    BY <1>4, RewriteAddRewrites DEF Types
  <2>2. Rewritten(body, t, body') /\ body[t].op = "add" /\ body[t] \in Line
    BY <2>1, RewrittenLines DEF Rewrites
  <2> HIDE DEF t
  <2> SUFFICES ASSUME NEW r \in Bases(program)
               PROVE  \E j \in DOMAIN body' :
                        /\ r \in Reads(body'[j])
                        /\ \A i \in DOMAIN program.lines : i < j => r \notin Regs(program.lines[i])
    BY <1>1 DEF BasesRead
  <2>3. PICK j \in DOMAIN body :
          /\ r \in Reads(body[j])
          /\ \A i \in DOMAIN program.lines : i < j => r \notin Regs(program.lines[i])
    BY DEF BasesRead
  <2>4. j \in Nat /\ body[j] \in Line /\ DOMAIN body' = DOMAIN body
    BY <2>1, <2>2 DEF Rewritten
  <2>5. CASE j < t
    BY <2>2, <2>3, <2>4, <2>5 DEF Rewritten
  <2>6. CASE j = t
    <3>1. /\ DOMAIN body[t] = {"op", "dest", "ptr", "off"}
          /\ body'[t] = [op |-> "add", dest |-> body[t].ptr, ptr |-> body[t].ptr,
                          off |-> body[t].off]
      BY <2>2, LineKinds DEF Rewritten
    <3>2. r = body[t].ptr \/ r = body[t].off
      BY <2>3, <2>6, <3>1 DEF Reads
    <3>3. r \in Reads(body'[t])
      <4>1. /\ DOMAIN body'[t] = {"op", "dest", "ptr", "off"}
            /\ body'[t].ptr = body[t].ptr /\ body'[t].off = body[t].off
        BY <3>1
      <4> QED
        BY <3>2, <4>1 DEF Reads
    <3> QED
      BY <2>3, <2>4, <2>6, <3>3
  <2>7. CASE j > t
    <3>1. r \notin Regs(body[t])
      BY <2>1, <2>3, <2>7, <1>2
    <3>2. r # body[t].dest
      BY <2>2, <3>1, LineKinds
    <3>3. body'[j] = Renamed(body[j], body[t].dest, body[t].ptr) /\ body[t].ptr \in Nat
      BY <2>2, <2>4, <2>7 DEF Rewritten
    <3>4. r \in Reads(body'[j])
      BY <2>3, <2>4, <3>2, <3>3, RenamedReads
    <3> QED
      BY <2>3, <2>4, <3>4
  <2> QED
    BY <2>4, <2>5, <2>6, <2>7, <1>2
<1> QED
  BY <1>3, <1>4

\* Rewriting the last addition preserves the invariant.
LEMMA RewriteAddAInv ==
  ASSUME AInv, RewriteAdd
  PROVE  AInv'
<1> DEFINE t == Top(adds)
<1>1. /\ program' = program /\ gap' = gap /\ adds' = adds \ {t} /\ adds # {}
      /\ phase = "rewrite" /\ phase' = "rewrite"
  BY DEF RewriteAdd
<1>2. Types /\ Untouched
  BY DEF AInv
<1>3. t \in adds /\ \A k \in adds : k \in Nat /\ k <= t
  BY <1>1, <1>2, TopOfAdds
<1>4. (Sound(program))' = Sound(program) /\ (ArraysRead(program))' = ArraysRead(program)
  BY <1>1
<1>5. ASSUME Sound(program) PROVE StillDead /\ SameAddresses /\ RunsForward(program.path)
  BY <1>5 DEF AInv, Sound, PointersDead
\* The lines down to an addition above the last one are not changed.
<1>6. /\ body' \in Seq(Line) /\ Len(body') = Len(body) /\ DOMAIN body' = DOMAIN body
      /\ \A j \in DOMAIN body : j < t => body'[j] = body[j]
  <2>1. CASE program.lines[t].dest = program.lines[t].ptr
    <3>1. body' = body
      BY <2>1 DEF RewriteAdd
    <3> QED
      BY <3>1, <1>2 DEF Types
  <2>2. CASE program.lines[t].dest # program.lines[t].ptr
    <3>1. Rewrites(body, t, body') /\ body \in Seq(Line)
      BY <2>2, <1>2, RewriteAddRewrites DEF Types
    <3>2. Rewritten(body, t, body')
      BY <3>1, RewrittenLines
    <3> QED
      BY <3>2 DEF Rewritten
  <2> QED
    BY <2>1, <2>2
<1>7. Types'
  BY <1>1, <1>2, <1>6 DEF Types
<1>8. Untouched'
  <2> SUFFICES ASSUME NEW a \in adds \ {t}, NEW j \in DOMAIN body, j <= a
               PROVE  body'[j] = program.lines[j]
    BY <1>1, <1>6 DEF Untouched
  <2>1. a \in Nat /\ a < t /\ t \in Nat
    BY <1>3
  <2>2. j \in Nat
    BY <1>2 DEF Types
  <2> HIDE DEF t
  <2>3. body'[j] = body[j]
    BY <1>6, <2>1, <2>2
  <2> QED
    BY <1>2, <2>3 DEF Untouched
<1>9. ASSUME Sound(program) PROVE StillDead'
  <2>1. \A i \in adds \ {t} : program.lines[i].dest # program.lines[i].ptr =>
           DeadAfter(program, body', adds \ {t}, i)
    BY <1>2, <1>5, <1>9, RewriteStaysDead
  <2> QED
    BY <2>1, <1>1 DEF StillDead
<1>10. ASSUME Sound(program) PROVE SameAddresses'
  <2>1. CASE program.lines[t].dest = program.lines[t].ptr
    <3>1. body' = body
      BY <2>1 DEF RewriteAdd
    <3> QED
      BY <3>1, <1>1, <1>5, <1>10 DEF SameAddresses
  <2>2. CASE program.lines[t].dest # program.lines[t].ptr
    <3>1. Addresses(body', program.path, program.arrays) = Addresses(body, program.path, program.arrays)
      BY <2>2, <1>2, <1>5, <1>10, RewriteKeeps
    <3> QED
      BY <3>1, <1>1, <1>5, <1>10 DEF SameAddresses
  <2> QED
    BY <2>1, <2>2
<1>11. ArraysRead(program) => BasesRead'
  BY <1>2, RewriteBasesRead DEF AInv
<1> QED
  BY <1>4, <1>7, <1>8, <1>9, <1>10, <1>11 DEF AInv

\* The other steps change no line and no addition that is left.
LEMMA OtherAInv ==
  ASSUME AInv, StartCompact \/ Finish \/ UNCHANGED vars
  PROVE  AInv'
<1>1. /\ program' = program /\ body' = body /\ adds' = adds /\ gap' = gap
      /\ phase' = "match" => phase = "match"
  BY DEF StartCompact, Finish, vars
<1>2. Types'
  BY <1>1 DEF AInv, Types
<1>3. (Sound(program))' = Sound(program) /\ (ArraysRead(program))' = ArraysRead(program)
  BY <1>1
<1>4. /\ Untouched' = Untouched /\ StillDead' = StillDead
      /\ SameAddresses' = SameAddresses /\ BasesRead' = BasesRead
  BY <1>1 DEF Untouched, StillDead, SameAddresses, BasesRead
<1> QED
  BY <1>2, <1>3, <1>4 DEF AInv

\* There are no additions left when register numbers are filled.
NothingLeft == phase = "compact" => adds = {}

\* The compaction starts after the last addition was rewritten.
LEMMA NothingLeftAlways == Spec => []NothingLeft
<1>1. Init => NothingLeft
  BY DEF Init, NothingLeft
<1>2. NothingLeft /\ [Next]_vars => NothingLeft'
  BY DEF NothingLeft, Next, vars, Match, RewriteAdd, StartCompact, CompactGap, Finish
<1> QED
  BY <1>1, <1>2, PTL DEF Spec

\* AInv holds of every body the peephole meets.
LEMMA AInvAlways == Spec => []AInv
<1>1. AInv /\ NothingLeft /\ [Next]_vars => AInv'
  <2> SUFFICES ASSUME AInv, NothingLeft, [Next]_vars PROVE AInv'
    OBVIOUS
  <2>1. CASE Match
    BY <2>1, MatchAInv
  <2>2. CASE RewriteAdd
    BY <2>2, RewriteAddAInv
  <2>3. CASE CompactGap
    BY <2>3, CompactAInv DEF NothingLeft, CompactGap
  <2>4. CASE StartCompact \/ Finish \/ UNCHANGED vars
    BY <2>4, OtherAInv
  <2> QED
    BY <2>1, <2>2, <2>3, <2>4 DEF Next
<1> QED
  BY <1>1, InitAInv, NothingLeftAlways, PTL DEF Spec

\* For every set of bodies and paths, and every numbering of their registers:
\* along a path on which the overwritten registers are dead, the rewritten body
\* accesses the addresses the printed one did (emit.py:890-948), if it reads
\* every array the kernel declares.
THEOREM AddressesKeptWhenDead ==
  Spec => [](PointersDead(program) /\ ArraysRead(program) => AddressesKept)
<1>1. AInv => (PointersDead(program) /\ ArraysRead(program) => AddressesKept)
  BY DEF AInv, Sound, SameAddresses, AddressesKept
<1> QED
  BY <1>1, AInvAlways, PTL
-----------------------------------------------------------------------------
(***************************************************************************)
(* The declared registers.                                                 *)
(***************************************************************************)
\* A line names few registers.
LEMMA BoundedLine ==
  ASSUME NEW l \in Line
  PROVE  \E c \in Nat : \A r \in Regs(l) : r <= c
<1>1. CASE l.op \in {"param", "cvt"} /\ l.dest \in Nat /\ Regs(l) = {l.dest}
  BY <1>1
<1>2. CASE l.op = "add" /\ l.dest \in Nat /\ l.ptr \in Nat /\ l.off \in Nat
           /\ Regs(l) = {l.dest, l.ptr, l.off}
  <2>1. l.dest + l.ptr + l.off \in Nat
    BY <1>2
  <2>2. \A r \in Regs(l) : r <= l.dest + l.ptr + l.off
    BY <1>2
  <2> QED
    BY <2>1, <2>2
<1>3. CASE l.op = "mem" /\ l.ptr \in Nat /\ Regs(l) = {l.ptr}
  BY <1>3
<1> QED
  BY <1>1, <1>2, <1>3, LineKinds

\* The registers of a body have a bound.
LEMMA UsedBounded ==
  ASSUME NEW A \in Seq(Line)
  PROVE  \E b \in Nat : \A r \in Used(A) : r <= b
<1> DEFINE N == Len(A)
           Below == {n \in 0..N : \E b \in Nat : \A j \in 1..n : \A r \in Regs(A[j]) : r <= b}
<1>1. N \in Nat /\ DOMAIN A = 1..N
  OBVIOUS
<1>2. 0 \in Below
  BY <1>1
<1>3. ASSUME NEW n \in 0..N, n \in Below, n < N PROVE n + 1 \in Below
  <2>1. PICK b \in Nat : \A j \in 1..n : \A r \in Regs(A[j]) : r <= b
    BY <1>3
  <2>2. A[n + 1] \in Line /\ n + 1 \in 0..N
    BY <1>1, <1>3
  <2>3. PICK c \in Nat : \A r \in Regs(A[n + 1]) : r <= c
    BY <2>2, BoundedLine
  <2>4. \A j \in 1..(n + 1) : \A r \in Regs(A[j]) : r <= b + c
    <3> SUFFICES ASSUME NEW j \in 1..(n + 1), NEW r \in Regs(A[j]) PROVE r <= b + c
      OBVIOUS
    <3>1. A[j] \in Line
      BY <1>1, <1>3
    <3>2. r \in Nat
      BY <3>1, LineKinds
    <3>3. CASE j = n + 1
      BY <3>2, <3>3, <2>3
    <3>4. CASE j # n + 1
      <4>1. j \in 1..n
        BY <3>4
      <4> QED
        BY <4>1, <3>2, <2>1
    <3> QED
      BY <3>3, <3>4
  <2>5. b + c \in Nat
    OBVIOUS
  <2> QED
    BY <2>2, <2>4, <2>5
<1> HIDE DEF Below
<1>4. N \in Below
  <2>1. 0..N \subseteq Below
    BY <1>1, <1>2, <1>3, UpTo
  <2> QED
    BY <2>1, <1>1
<1> QED
  BY <1>1, <1>4 DEF Below, Used

\* Count is past every register of a body.
LEMMA CountPast ==
  ASSUME NEW A \in Seq(Line), NEW r \in Used(A)
  PROVE  r < Count(A)
<1>1. Used(A) \subseteq Nat /\ Used(A) # {}
  BY UsedNat
<1>2. PICK b \in Nat : \A q \in Used(A) : q <= b
  BY UsedBounded
<1>3. \E m \in Used(A) : \A q \in Used(A) : q <= m
  BY <1>1, <1>2, GreatestNat
<1>4. Top(Used(A)) \in Used(A) /\ r <= Top(Used(A))
  BY <1>3 DEF Top
<1>5. Count(A) = 1 + Top(Used(A))
  BY <1>1 DEF Count, Highest
<1> QED
  BY <1>1, <1>4, <1>5

\* For every set of bodies and every numbering of their registers: the
\* registers of the arrays, which lines put in front of the body load, are
\* among those counted in the body the peephole leaves, if the body reads each
\* of the arrays (emit.py:1048-1103).
THEOREM DeclaredWhenRead == Spec => [](ArraysRead(program) => Declared)
<1>1. AInv => (ArraysRead(program) => Declared)
  <2> SUFFICES ASSUME AInv, ArraysRead(program), NEW r \in Bases(program)
               PROVE  r < Count(body)
    BY DEF Declared
  <2>1. r \in Used(body) /\ body \in Seq(Line)
    BY BasesUsed DEF AInv, Types
  <2> QED
    BY <2>1, CountPast
<1> QED
  BY <1>1, AInvAlways, PTL
=============================================================================
