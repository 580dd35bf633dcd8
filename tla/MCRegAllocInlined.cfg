CONSTANTS
  va = va
  vb = vb
  Shapes <- InlinedShapes
  Leads = {1}
  MaxPoint = 3
  Kernels <- MCKernels
  Prefixes <- MCPrefixes
  NoReuse <- MCNoReuse
  InitialRanges <- ScanRanges
SPECIFICATION ReturnSpec
INVARIANT NoClobber
CHECK_DEADLOCK FALSE
