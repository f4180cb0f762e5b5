CONSTANTS
  Ops = {o1, o2}
  Resources = {r1}
  Users = {alice, bob}
  Keys = {k1}
  Workers = {w1, w2}
  Actions = {"shutdown"}
  Exceptions = {TRUE, FALSE}
  Changes = {"connection", "module", "maintenance", "approve"}
  MaxRevision = 1
  Nobody = Nobody
  NoOp = NoOp
  NoResource = NoResource
SYMMETRY Symmetry
SPECIFICATION Spec
CONSTRAINT Within
INVARIANTS
  KeySubmitsOnce
  LeaseFencesSubmission
PROPERTIES
  LifecycleSpec
  SubmitsOnlyReviewedFacts
CHECK_DEADLOCK FALSE
