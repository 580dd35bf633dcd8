CONSTANTS
  x = x
  y = y
  z = z
  t1 = t1
  t2 = t2
  t3 = t3
  t4 = t4
  param = param
  None = None
  Vars <- MCVars
  Others <- MCTemps
  Assignments <- NoJobs
  Inits = {}
  Bodies = {"body", "for_inc"}
  DeclOrder <- MCOrder
  MaxBodies = 1
SPECIFICATION WbSpec
INVARIANTS WrittenBackUnlessCyclic IncrementWrittenBack
CHECK_DEADLOCK FALSE
