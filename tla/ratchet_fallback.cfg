SPECIFICATION Spec
CONSTANTS
  Alice = Alice
  Bob = Bob
  None = None
  SamePreKeys = FALSE
  MaxSent = 2
  MaxReloads = 0
SYMMETRY Alike
CHECK_DEADLOCK FALSE
INVARIANT KeyPerMessage
