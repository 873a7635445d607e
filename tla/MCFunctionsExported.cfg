SPECIFICATION AllSpec
CONSTANTS
  Shapes = {"register", "memory"}
  MaxScopes = 6
  MaxLocals = 4
  Functions <- MCAllFunctions
  Definitions <- MCDefinitions
  Uses <- MCUses
  Arguments <- MCArguments
  Globals <- MCGlobals
  CallsExported = TRUE
  MaxItems = 4
  MaxFrames = 8
INVARIANTS
  NoAssertionFails
CHECK_DEADLOCK FALSE
