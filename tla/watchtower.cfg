SPECIFICATION LiveSpec
CONSTANTS
  Channel = {c1}
  Poll = {p1, p2}
  Unspent = Unspent
  MaxId = 3
  MaxStops = 1
  maxRegistrations = 2
INVARIANT TypeOK
INVARIANT ToldOncePerCheck
PROPERTY KeptUntilTold
PROPERTY BreachTold
