CONSTANTS
  x = x
  y = y
  z = z
  tmp = tmp
  Vars <- MCVars
  Others <- MCOthers
  Assignments <- AnyJobs
SPECIFICATION FairSpec
INVARIANTS TypeOK SourcesIntact ForcedOnlyInCycles
PROPERTIES EveryCopyEmitted SequenceIsParallel
CHECK_DEADLOCK FALSE
