CONSTANTS
  A = A
  B = B
  C = C
  F = F
  header = header
  ring = ring
  ring2 = ring2
  Names <- MCNames
  Numbers <- MCNumbers
  NameOrder <- MCOrder
  MaxRounds = 3
  Files <- MCFiles
  Sources <- PlainSources
SPECIFICATION Spec
INVARIANTS TypeOK Enclosed LinesKept
CHECK_DEADLOCK FALSE
