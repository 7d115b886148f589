SPECIFICATION Spec
CONSTANTS
  Alice = Alice
  Bob = Bob
  None = None
  SamePreKeys = TRUE
  MaxSent = 3
  MaxReloads = 2
SYMMETRY Alike
CHECK_DEADLOCK FALSE
INVARIANT TypeOK
INVARIANT FreshKeyPerMessage
INVARIANT OpenedOnce
INVARIANT KeysForgotten
INVARIANT StreamOpens
