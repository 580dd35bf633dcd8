CONSTANTS
  Programs <- Elementwise
SPECIFICATION Spec
INVARIANTS AddressesKept Declared
CHECK_DEADLOCK FALSE
