----------------------------- MODULE MCEmitRegs -----------------------------
\* EmitRegs on units of up to three values, two temporaries and one scratch
\* predicate.
EXTENDS EmitRegs, TLC

CONSTANTS w, x   \* emission-time values: an index and a predicate

MCPrefixes == {"rd", "p"}
MCNoReuse == {}
MCTempClass == (w :> "rd") @@ (x :> "p")

MCRange == {y \in [prefix : MCPrefixes, start : 0..1, end : 0..1] : y.start <= y.end}
MCRanges == [1..2 -> MCRange]
=============================================================================
