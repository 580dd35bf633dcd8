--------------------------- MODULE MCInPlaceAdds ---------------------------
(***************************************************************************)
(* InPlaceAdds on the bodies the emitter prints for kernels that index     *)
(* their pointer parameters and local or shared arrays.                    *)
(***************************************************************************)
EXTENDS InPlaceAdds

Param(d) == [op |-> "param", dest |-> d]
Cvt(d) == [op |-> "cvt", dest |-> d]
Add(d, p, o) == [op |-> "add", dest |-> d, ptr |-> p, off |-> o]
Mem(p) == [op |-> "mem", ptr |-> p]

Perms == {q \in [1..3 -> 0..2] : q[1] # q[2] /\ q[1] # q[3] /\ q[2] # q[3]}

\* The pointers 0, 1 and 2, of which the first so many are arrays and the others
\* parameters.
Params(arrays) == [n \in 1..(3 - arrays) |-> Param(arrays + n - 1)]
CvtLine(b) == 4 - b.arrays
Origin(b, r) == IF r < b.arrays THEN FrontLine(b.lines, r) ELSE r - b.arrays + 1

\* c[i] = a[i] + b[i] and the like: one offset is added to three pointers, and
\* the address stored to is computed last or first.  Destinations are any
\* registers, dead pointers included.  The first n pointers are arrays.
Bodies(n) ==
  UNION {{[lines |-> Params(n) \o <<Cvt(o), Add(x, p[1], o), Mem(x), Add(y, p[2], o), Mem(y),
                                    Add(z, p[3], o), Mem(z)>>,
           ptrs |-> p, arrays |-> n],
          [lines |-> Params(n) \o <<Cvt(o), Add(z, p[3], o), Add(x, p[1], o), Mem(x),
                                    Add(y, p[2], o), Mem(y), Mem(z)>>,
           ptrs |-> p, arrays |-> n]} :
         o \in {3, 5}, x, y, z \in 0..4, p \in Perms}

Once(b) == [i \in 1..Len(b.lines) |-> i]
Twice(b) == Once(b) \o [i \in 1..(Len(b.lines) - CvtLine(b) + 1) |-> i + CvtLine(b) - 1]

\* The bodies an allocator that clobbers nothing prints: the accesses are at
\* the pointers they are meant for plus the offset, each time round.
Indexed(b, path) ==
  LET trace == Addresses(b.lines, path, b.arrays)
  IN  \A k \in DOMAIN trace :
        trace[k] = Sum(Leaf(Origin(b, b.ptrs[((k - 1) % 3) + 1])), Leaf(CvtLine(b)))

Run(b, path) == [lines |-> b.lines, path |-> path, arrays |-> b.arrays]

\* Straight-line kernels.
Elementwise == UNION {{Run(b, Once(b)) : b \in {c \in Bodies(n) : Indexed(c, Once(c))}} : n \in 0..3}

\* What the theorems (InPlaceAddsProofs) ask of a body is true of all of these
\* that the peephole matches.
ASSUME ElementwiseDead ==
  \A pr \in Elementwise : Cardinality(OffsetAdds(pr.lines)) >= 2 => PointersDead(pr)

ASSUME ElementwiseRead == \A pr \in Elementwise : ArraysRead(pr)

-----------------------------------------------------------------------------
\* Bodies the run leaves out, each of which violates one of its properties.

\* The accesses of Elementwise in a loop, run twice (AddressesKept).
InLoop == {Run(b, Twice(b)) : b \in {c \in Bodies(0) : Indexed(c, Twice(c))}}

\* x = a[i]; out[j] = a[j]; out[i] = x: the pointer is needed for another
\* offset after its addition (AddressesKept).
PointerReused ==
  {[lines |-> <<Param(0), Param(1), Cvt(4), Add(2, 0, 4), Mem(2), Cvt(2), Add(3, 0, 2), Mem(3),
                Add(3, 1, 2), Mem(3), Add(2, 1, 4), Mem(2)>>,
    path |-> [i \in 1..12 |-> i], arrays |-> 0]}

\* Arrays that the body does not use: five are declared, and it indexes the last
\* or none (Declared; with the last one AddressesKept as well).
UnusedArrays ==
  {[lines |-> <<Param(0), Param(1), Cvt(5), Add(2, 0, 5), Mem(2), Add(2, p, 5), Mem(2)>>,
    path |-> [i \in 1..7 |-> i], arrays |-> 5] : p \in {1, 4}}
=============================================================================
