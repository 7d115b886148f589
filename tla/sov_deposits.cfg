SPECIFICATION Spec
CONSTANTS
  Deposit = {d1}
  Invoice = {i1, i2}
  Refill = Refill
  None = None
  Demo = TRUE
  Fallback = TRUE
  MaxRestarts = 2
SYMMETRY Alike
CHECK_DEADLOCK FALSE
INVARIANT TypeOK
INVARIANT CreditedOnce
INVARIANT CreditsSettled
INVARIANT ConfirmedCredited
INVARIANT RefilledOnce
INVARIANT FilesCurrent
