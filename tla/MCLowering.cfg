CONSTANTS
  Width = 3
  Fuel = 6
  IrFuel = 60
  Params <- MCParams
  NameOrder <- MCOrder
  Stmts <- MCStmts
  Allowed <- MCAllowed
SPECIFICATION LowerSpec
INVARIANTS OutcomeKept VerifierAccepts
CHECK_DEADLOCK FALSE
