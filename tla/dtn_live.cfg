SPECIFICATION LiveSpec
CONSTANTS
  Node <- N2
  Reach <- Pair
  Mortal <- N2
  Bundle <- Three
  Src <- FromOne
  Dst <- ToTwo
  Rank <- Far
  Size <- Growing
  JsonSize <- Double
  MaxHops = 2
  MaxStored = 2
  MaxBytes = 2
  MaxSeen = 2
INVARIANT QuotaHolds
INVARIANT HandledOnce
PROPERTY HolderDelivers
