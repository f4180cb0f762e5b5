CONSTANTS
  Day = 4
  Horizon = 12
  Zones <- MCZones
  Rules <- MCRules
  StopRules <- MCStops
  Closures <- MCClosures
  Durations = {2, 4}
  NoOccurrence = NoOccurrence
SPECIFICATION CalendarSpec
INVARIANTS
  CalendarInv
  OpenAsRuled
  PromiseKept
CHECK_DEADLOCK FALSE
