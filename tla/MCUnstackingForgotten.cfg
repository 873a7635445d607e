SPECIFICATION Spec
CONSTANTS
  DivergingElse = FALSE
  OnlyBalanced = TRUE
  EndlessLoops = FALSE
  Calls <- TwoForTwo
  IndirectCalls <- OneForTwo
  Annotations = {}
  MaxWords = 6
  MaxScopes = 3
  MaxHeight = 2
INVARIANTS
  EverythingInferred
CHECK_DEADLOCK FALSE
