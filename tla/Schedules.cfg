CONSTANTS
  Users = {alice, bob}
  Workers = {w1, w2}
  Slot <- MCSlot
  Specs <- MCSpecs
  Grace = 1
  MaxTime = 3
  MaxWrites = 3
  MaxChanges = 1
  Nobody = Nobody
  NoSlot = NoSlot
CONSTRAINT Within
SYMMETRY Symmetry
SPECIFICATION Spec
INVARIANTS
  OncePerInstant
  OneAtATime
PROPERTIES
  RunsInItsWindow
  RunsAsReviewed
