SPECIFICATION Spec
CONSTANTS
  Reserved = 1
  MaxPages = 6
INVARIANTS
  PagesAccounted
  ActiveMatchesHeld
PROPERTIES
  GrowsOnlyWhenNeeded
  PoolSpec
CHECK_DEADLOCK FALSE
