\* One request at a time is enough: the cancellation races the settlement.
SPECIFICATION Spec
CONSTANTS
  Lines = {l1}
  Signing = Signing
  Prices = {2}
  Amounts = {1, 2}
  Bodies <- FormBodies
  Calls = {c1}
  MaxPaid = 2
  MaxAttempts = 3
INVARIANT NoPhantomCredit
CHECK_DEADLOCK FALSE
