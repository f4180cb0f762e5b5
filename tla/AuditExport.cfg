CONSTANTS
  Writers = {t1, t2}
  Workers = {w1, w2}
  BatchSize = 2
  MaxId = 2
  MaxRevision = 2
  Nobody = Nobody
SPECIFICATION FairSpec
INVARIANTS
  VerifiedMeansProbed
PROPERTIES
  DeliverySpec
  Drains
