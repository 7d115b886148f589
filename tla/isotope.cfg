SPECIFICATION LiveSpec
CONSTANTS
  n1 = n1
  n2 = n2
  n3 = n3
  Node = {n1, n2, n3}
  Key = {k}
  Owner <- OneOwner
  Writer = {n2}
  Reader = {n3}
  Mortal = {n1, n2}
  MaxPuts = 2
  MaxClock = 1
  MaxFaults = 1
INVARIANT TypeOK
INVARIANT OwnerCurrent
PROPERTY ReadsForward
PROPERTY DecayAnswered
CHECK_DEADLOCK FALSE
