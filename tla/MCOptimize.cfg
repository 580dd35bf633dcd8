CONSTANTS
  e = e
  if_t = if_t
  if_f = if_f
  if_m = if_m
  cond1 = cond1
  body1 = body1
  rest1 = rest1
  inc1 = inc1
  exit1 = exit1
  cond2 = cond2
  body2 = body2
  inc2 = inc2
  exit2 = exit2
  n = n
  v = v
  v1 = v1
  v2 = v2
  i = i
  j = j
  lt = lt
  lt2 = lt2
  w1 = w1
  w2 = w2
  w3 = w3
  w4 = w4
  w5 = w5
  s1 = s1
  s2 = s2
  u1 = u1
  u2 = u2
  u3 = u3
  u4 = u4
  u5 = u5
  u6 = u6
  u7 = u7
  u8 = u8
  u9 = u9
  u10 = u10
  u11 = u11
  u12 = u12
  u13 = u13
  u14 = u14
  q1 = q1
  q2 = q2
  q3 = q3
  f1 = f1
  f2 = f2
  f3 = f3
  NoValue = NoValue
  Labels <- MCLabels
  Entry = e
  Insts <- MCInsts
  Conds <- MCOperands
  RetVals <- MCOperands
  Kernels <- Structured
  MaxTrace = 0
  Values <- MCValues
  Unsigned <- MCUnsigned
  Id <- MCId
  IdGap = 100
  Modulus = 8
  Garbage = {0, 5}
  ListOrder <- MCOrder
  Params = {0}
  Fresh <- MCFresh
  MaxBound = 3
  MaxUnroll = 2
  Units = {"kernel", "func"}
  Fuel = 60
SPECIFICATION OptSpec
INVARIANTS OutputsKept BranchesLand
CHECK_DEADLOCK FALSE
