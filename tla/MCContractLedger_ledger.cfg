\* Two requests at a time on a contract with at most two instalments.
SPECIFICATION Spec
CONSTANTS
  Lines = {l1, l2}
  Signing = Signing
  Prices = {2}
  Amounts = {1, 2}
  Bodies <- FormBodies
  Calls = {c1, c2}
  MaxPaid = 2
  MaxAttempts = 3
SYMMETRY Interchangeable
INVARIANTS
  ChargedIsPrice
  LedgerFollowsBooks
  CancelledOwesNothing
  CompletionFollowsPayment
  OpenReceivableIsWorked
PROPERTIES
  ApprovedIsFinal
CHECK_DEADLOCK FALSE
