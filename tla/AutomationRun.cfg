CONSTANTS
  Jobs = {j1, j2}
  Publishers = {alice}
  Workers = {w1, w2}
  MaxVersion = 1
  MaxRevision = 1
  Nobody = Nobody
  Calls = {j1, j2}
  Proxied = {j1}
  Slots = 1
  Deadline = 1
  CleanupTime = 1
  Expiry = 3
SPECIFICATION FairSpecRun
CONSTRAINT Within
INVARIANTS
  SuccessIsEarned
  WorkKeepsItsObjects
PROPERTIES
  VerdictsStand
  Settles
  NothingStays
