CONSTANTS
  Tabs = {a, b}
  MaxClock = 3
  MaxSessions = 3
  MaxToken = 2
  MaxPassword = 1
  MaxSeed = 2
  MaxCode = 1
  MaxFlow = 1
  NoCall = NoCall
  NoFlow = NoFlow
CONSTRAINT Within
SYMMETRY Symmetry
SPECIFICATION Spec
INVARIANTS
  SessionsInv
  OpenedUnderPresentCredentials
  SecondFactorStands
  BrowserKeepsUp
  EnabledSeedIsHeld
CHECK_DEADLOCK FALSE
