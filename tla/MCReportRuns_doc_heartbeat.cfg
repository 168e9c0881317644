SPECIFICATION Spec
CONSTANTS
  Processes = {p1, p2}
  MaxRuns = 1
  Sizes = {0, 1}
  MaxConcurrent = 2
  MaxAttempts = 2
  MaxFaults = 1
INVARIANTS
  StoppedIsRecoverable
