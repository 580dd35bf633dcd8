---------------------------- MODULE InPlaceAdds ----------------------------
(***************************************************************************)
(* The peephole of emit_kernel that saves 64-bit registers: when the       *)
(* highest rd register is a widened offset added to two or more pointers,  *)
(* every such addition is made in place, its old destination is renamed to *)
(* the pointer in the lines below, and freed register numbers are filled   *)
(* from the top.  emit_device_function has the same code.                  *)
(*                                                                         *)
(* A body is the lines that touch rd registers:                            *)
(*   [op |-> "param", dest |-> d]                      ld.param.u64        *)
(*   [op |-> "cvt",   dest |-> d]                      cvt.u64.u32         *)
(*   [op |-> "add",   dest |-> d, ptr |-> p, off |-> o] add.u64 d, p, o    *)
(*   [op |-> "mem",   ptr |-> p]                       ld or st at [p]     *)
(* Lines keep their positions, so a path is a sequence of line numbers.    *)
(*                                                                         *)
(* The local and shared arrays of a kernel live from its first line, so    *)
(* the scan numbers their rd registers from 0.  The lines that load the    *)
(* arrays' addresses into them are put in front of the body after the      *)
(* peephole has renamed registers and the declarations were counted.       *)
(***************************************************************************)
EXTENDS Integers, Sequences, FiniteSets

CONSTANT Programs   \* [lines : bodies, path : the line numbers run, in order,
                    \*  arrays : how many arrays the kernel declares]

Line == [op : {"param", "cvt"}, dest : Nat]
          \cup [op : {"add"}, dest : Nat, ptr : Nat, off : Nat]
          \cup [op : {"mem"}, ptr : Nat]

ASSUME InPlaceAddsAssumption ==
  \A pr \in Programs : /\ pr.lines \in Seq(Line)
                       /\ pr.path \in Seq(DOMAIN pr.lines)
                       /\ pr.arrays \in Nat

VARIABLES
  program,   \* the body before the peephole, and a path through it
  body,      \* body_lines
  adds,      \* line numbers of the additions still to be rewritten
  gap,       \* next register number of the compaction
  phase      \* "match", "rewrite", "compact" or "done"

vars == <<program, body, adds, gap, phase>>

-----------------------------------------------------------------------------
Regs(l) == {l[f] : f \in DOMAIN l \ {"op"}}
Used(lines) == UNION {Regs(lines[i]) : i \in DOMAIN lines}
Top(S) == CHOOSE m \in S : \A r \in S : r <= m

Highest(lines) == Top(Used(lines))

\* The rd registers a body needs: rd_max before the peephole, and the number
\* declared (actual_reg_counts) after it.
Count(lines) == IF Used(lines) = {} THEN 0 ELSE 1 + Highest(lines)

\* The registers of the arrays, loaded in front of the body.
Bases(pr) == 0..(pr.arrays - 1)
OffsetAdds(lines) == {i \in DOMAIN lines : lines[i].op = "add" /\ lines[i].off = Highest(lines)}

\* Rename register old to new in a line.
Renamed(l, old, new) ==
  [f \in DOMAIN l |-> IF f # "op" /\ l[f] = old THEN new ELSE l[f]]

Init ==
  /\ program \in Programs
  /\ body = program.lines
  /\ adds = {}
  /\ gap = 0
  /\ phase = "match"

\* rd_max > 3, a cvt writes the highest register, and two additions read it.
Matches ==
  /\ Count(body) > 3
  /\ \E i \in DOMAIN body : body[i].op = "cvt" /\ body[i].dest = Highest(body)
  /\ Cardinality(OffsetAdds(body)) >= 2

Match ==
  /\ phase = "match"
  /\ adds' = IF Matches THEN OffsetAdds(body) ELSE {}
  /\ phase' = IF Matches THEN "rewrite" ELSE "done"
  /\ UNCHANGED <<program, body, gap>>

\* Variant: the lines below keep the old destination.
RewriteAddOnly ==
  LET i == Top(adds)
      p == program.lines[i].ptr
  IN  /\ phase = "rewrite"
      /\ adds # {}
      /\ adds' = adds \ {i}
      /\ body' = [body EXCEPT ![i].dest = p]
      /\ UNCHANGED <<program, gap, phase>>

\* The additions are taken from the last to the first, with the registers
\* they had when they were collected.
RewriteAdd ==
  LET i == Top(adds)
      d == program.lines[i].dest
      p == program.lines[i].ptr
  IN  /\ phase = "rewrite"
      /\ adds # {}
      /\ adds' = adds \ {i}
      /\ body' = IF d = p THEN body
                 ELSE [j \in DOMAIN body |->
                         CASE j < i -> body[j]
                           [] j = i -> [body[i] EXCEPT !.dest = p]
                           [] j > i -> Renamed(body[j], d, p)]
      /\ UNCHANGED <<program, gap, phase>>

StartCompact ==
  /\ phase = "rewrite"
  /\ adds = {}
  /\ phase' = "compact"
  /\ UNCHANGED <<program, body, adds, gap>>

\* Variant: without the test that the number is free.
CompactAny ==
  LET top == Top(Used(body)) IN
  /\ phase = "compact"
  /\ gap <= top
  /\ body' = [j \in DOMAIN body |-> Renamed(body[j], top, gap)]
  /\ gap' = gap + 1
  /\ UNCHANGED <<program, adds, phase>>

\* A free number takes the highest register in use.
CompactGap ==
  LET top == Top(Used(body)) IN
  /\ phase = "compact"
  /\ gap <= top
  /\ body' = IF gap \in Used(body) THEN body
             ELSE [j \in DOMAIN body |-> Renamed(body[j], top, gap)]
  /\ gap' = gap + 1
  /\ UNCHANGED <<program, adds, phase>>

Finish ==
  /\ phase = "compact"
  /\ gap > Top(Used(body))
  /\ phase' = "done"
  /\ UNCHANGED <<program, body, adds, gap>>

Next == Match \/ RewriteAdd \/ StartCompact \/ CompactGap \/ Finish
Spec == Init /\ [][Next]_vars

-----------------------------------------------------------------------------
(***************************************************************************)
(* What a run of lines does: a register holds a sum of parameters, array   *)
(* addresses and offsets, each the number of the line that loaded it: 0    *)
(* when there is none, and the lines put in front have numbers past the    *)
(* body's.                                                                 *)
(***************************************************************************)
Leaf(i) == <<i>>
Sum(u, v) == u \o v

\* The registers and the accesses so far (s), after line i as well.
Exec(lines, i, s) ==
  LET l == lines[i]
  IN  CASE l.op \in {"param", "cvt"} -> [s EXCEPT !.reg[l.dest] = Leaf(i)]
        [] l.op = "add" -> [s EXCEPT !.reg[l.dest] = Sum(s.reg[l.ptr], s.reg[l.off])]
        [] l.op = "mem" -> [s EXCEPT !.trace = Append(@, s.reg[l.ptr])]

\* The line in front that loads array r.
FrontLine(lines, r) == Len(lines) + 1 + r

\* What the registers hold when the body starts.
Loaded(lines, arrays) ==
  [reg |-> [r \in Used(lines) |-> IF r < arrays THEN Leaf(FrontLine(lines, r)) ELSE Leaf(0)],
   trace |-> <<>>]

\* The addresses the lines access along a path, in order.
Addresses(lines, path, arrays) ==
  LET after[n \in 0..Len(path)] ==
        IF n = 0 THEN Loaded(lines, arrays) ELSE Exec(lines, path[n], after[n - 1])
  IN  after[Len(path)].trace

(***************************************************************************)
(* What the peephole takes for granted of a body.  An addition that the    *)
(* path runs overwrites its pointer, one that it skips renames its own     *)
(* destination below: that register must not be the offset's, and a line   *)
(* below on the path may name it only once another of the additions has    *)
(* moved a new pointer into it.                                            *)
(***************************************************************************)
Clobbered(pr, i) == IF i \in {pr.path[n] : n \in DOMAIN pr.path}
                    THEN pr.lines[i].ptr ELSE pr.lines[i].dest

Moves(l, r) == l.dest = r /\ l.ptr # r

\* The register addition i clobbers is dead in lines, where the additions in
\* left are still to be rewritten.
DeadAfter(pr, lines, left, i) ==
  LET r == Clobbered(pr, i) IN
  /\ r # Highest(pr.lines)
  /\ \A n \in DOMAIN pr.path :
       pr.path[n] > i /\ r \in Regs(lines[pr.path[n]]) =>
         \E k \in left : i < k /\ k <= pr.path[n] /\ Moves(pr.lines[k], r)

\* The path runs every line at most once and in order: no loop.
RunsForward(path) == \A m, n \in DOMAIN path : m < n => path[m] < path[n]

PointersDead(pr) ==
  /\ RunsForward(pr.path)
  /\ \A i \in OffsetAdds(pr.lines) :
       pr.lines[i].dest # pr.lines[i].ptr =>
         DeadAfter(pr, pr.lines, OffsetAdds(pr.lines), i)

\* The first line to name the register of an array reads it: every array is
\* used, and until then its register is not given away.
Reads(l) == {l[f] : f \in DOMAIN l \cap {"ptr", "off"}}
ArraysRead(pr) ==
  \A r \in Bases(pr) : \E j \in DOMAIN pr.lines :
    /\ r \in Reads(pr.lines[j])
    /\ \A i \in DOMAIN pr.lines : i < j => r \notin Regs(pr.lines[i])

\* The rewritten body accesses the same addresses: only the number of
\* registers was to change (emit.py:560-562 and 880-889).
AddressesKept ==
  phase = "done" =>
    Addresses(body, program.path, program.arrays)
      = Addresses(program.lines, program.path, program.arrays)

\* The registers the lines in front name are among those declared, which were
\* counted before these lines were there ("Every referenced register index is
\* within the declared count", test_invariants.py:5).
Declared == phase = "done" => \A r \in Bases(program) : r < Count(body)
=============================================================================
