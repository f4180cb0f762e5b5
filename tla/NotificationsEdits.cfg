CONSTANTS
  Deliveries = {d1, d2}
  Workers = {w1}
  RetryBudget = 1
  MaxRevision = 3
  MaxCycles = 0
  Nobody = Nobody
SPECIFICATION FairSpec
CHECK_DEADLOCK FALSE
INVARIANTS
  SentWhereIntended
  ChallengedFirst
PROPERTY EventuallySettled
