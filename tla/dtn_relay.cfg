SPECIFICATION Spec
CONSTANTS
  Node <- N4
  Reach <- Field
  Mortal <- RelayAndReceiver
  Bundle <- One
  Src <- FromOne
  Dst <- ToFour
  Rank <- Relayed
  Size <- Unit
  JsonSize <- Double
  MaxHops = 2
  MaxStored = 2
  MaxBytes = 2
  MaxSeen = 2
INVARIANT TypeOK
INVARIANT Custody
PROPERTY ActsAsCourier
