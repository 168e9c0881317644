SPECIFICATION FairSpec
CONSTANTS
  NoVisit = NoVisit
  Visits = {v1}
  Calls = {c1}
  Workers = {w1, w2}
  Accounts = {a1, a2}
  MaxAttempts = 2
  MaxRows = 3
  MaxFaults = 1
INVARIANTS
  NotifiedOnce
  FailuresBounded
PROPERTIES
  EveryChangeIsSettled
  ImplementsNews
