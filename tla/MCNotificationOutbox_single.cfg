SPECIFICATION Spec
CONSTANTS
  NoVisit = NoVisit
  Visits = {v1}
  Calls = {c1, c2}
  Workers = {w1}
  Accounts = {a1}
  MaxAttempts = 2
  MaxRows = 6
  MaxFaults = 1
SYMMETRY Symmetry
INVARIANTS
  ThankedOncePerOpening
  ToldInOrder
