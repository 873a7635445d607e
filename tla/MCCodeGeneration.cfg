SPECIFICATION Spec
CONSTANTS
  Functions <- MCFunctions
  Top = 176
  MaxHeight = 3
  MaxFields = 2
  WithFaults = FALSE
INVARIANTS
  CodeValid
  ValuesFaithful
CHECK_DEADLOCK FALSE
