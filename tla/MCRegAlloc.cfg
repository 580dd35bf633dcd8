CONSTANTS
  va = va
  vb = vb
  Shapes <- StructuredShapes
  Leads = {0, 1}
  MaxPoint = 3
  Kernels <- MCKernels
  Prefixes <- MCPrefixes
  NoReuse <- MCNoReuse
  InitialRanges <- ScanRanges
SPECIFICATION MCSpec
INVARIANTS TypeOK NoClash IdentityKept CountCovers OptimalCount NoClobber
CHECK_DEADLOCK FALSE
