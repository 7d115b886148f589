SPECIFICATION Spec
CONSTANTS
  n1 = n1
  n2 = n2
  NoSignal = NoSignal
  p = p
  q = q
  Node = {n1, n2}
  Pipeline = {p, q}
  Quorum <- TwoAndNone
  Emitter = {n1, n2}
  Mortal = {n1}
  MaxNonce = 2
  MaxEmits = 2
  MaxFaults = 1
INVARIANT TypeOK
INVARIANT QuorumReal
INVARIANT DeployedByQuorum
INVARIANT ProcessedSettled
INVARIANT QuorumHeard
PROPERTY FieldGrows
