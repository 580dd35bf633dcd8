CONSTANTS
  w = w
  x = x
  Kinds = {"kernel"}
  Temps = {w, x}
  TempClass <- MCTempClass
  PredPrefix = "p"
  MaxScratch = 1
  MaxUnits = 2
  Prefixes <- MCPrefixes
  NoReuse <- MCNoReuse
  InitialRanges <- MCRanges
SPECIFICATION EmitSpec
INVARIANTS TempsApart
CHECK_DEADLOCK FALSE
