SPECIFICATION Spec
CONSTANTS
  Tabs <- OnePage
  Environments <- Migration
  Life = 2
  MaxTime = 3
  MaxKeys = 4
INVARIANTS
  SessionMatches
CHECK_DEADLOCK FALSE
