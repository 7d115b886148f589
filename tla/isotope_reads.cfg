SPECIFICATION Spec
CONSTANTS
  n1 = n1
  n2 = n2
  n3 = n3
  Node = {n1, n2, n3}
  Key = {k}
  Owner <- OneOwner
  Writer = {n1, n2}
  Reader = {n3}
  Mortal = {n1}
  MaxPuts = 2
  MaxClock = 1
  MaxFaults = 0
INVARIANT NewestRead
CHECK_DEADLOCK FALSE
