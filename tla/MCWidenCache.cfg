CONSTANTS
  s = s
  t = t
  Sources <- MCSources
  Kernels <- Dominated
  MaxUnits = 2
SPECIFICATION Spec
INVARIANTS TypeOK WideCurrent OneConversion
CHECK_DEADLOCK FALSE
