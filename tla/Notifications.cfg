CONSTANTS
  Deliveries = {d1, d2}
  Workers = {w1, w2}
  RetryBudget = 2
  MaxRevision = 2
  MaxCycles = 1
  Nobody = Nobody
SPECIFICATION Spec
CHECK_DEADLOCK FALSE
SYMMETRY Symmetry
INVARIANTS
  WithinBudget
  AttemptsAgree
