CONSTANTS
  e = e
  x = x
  y = y
  z = z
  cond = cond
  Labels <- MCLabels
  Entry = e
  ListOrder <- MCOrder
  Insts <- MCLabels
  Conds <- MCConds
  RetVals = {e}
  Kernels = {}
  MaxTrace = 3
SPECIFICATION MCSpec
INVARIANTS TypeOK CfgWellFormed RunsKept DominatorsExact
CHECK_DEADLOCK FALSE
