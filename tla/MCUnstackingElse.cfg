SPECIFICATION Spec
CONSTANTS
  DivergingElse = TRUE
  OnlyBalanced = TRUE
  EndlessLoops = FALSE
  Calls <- TwoForTwo
  IndirectCalls <- OneForTwo
  Annotations = {1}
  MaxWords = 6
  MaxScopes = 4
  MaxHeight = 3
INVARIANTS
  StackFaithful
CHECK_DEADLOCK FALSE
