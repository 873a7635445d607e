SPECIFICATION Spec
CONSTANTS
  DivergingElse = FALSE
  OnlyBalanced = TRUE
  EndlessLoops = FALSE
  Calls <- TwoForTwo
  IndirectCalls <- OneForTwo
  Annotations = {1}
  MaxWords = 5
  MaxScopes = 4
  MaxHeight = 3
INVARIANTS
  StackFaithful
  EntriesFaithful
  ReachedIsReachable
  InferredButForLoops
CHECK_DEADLOCK FALSE
