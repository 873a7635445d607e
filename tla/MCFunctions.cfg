SPECIFICATION AllSpec
CONSTANTS
  Shapes = {"register", "memory"}
  MaxScopes = 6
  MaxLocals = 4
  Functions <- MCAllFunctions
  Definitions <- MCDefinitions
  Uses <- MCUses
  Arguments <- MCArguments
  Globals <- MCGlobals
  CallsExported = FALSE
  MaxItems = 4
  MaxFrames = 8
INVARIANTS
  LiveLocalsApart
  InstancesFaithful
  DefinitionsFaithful
  MadeOnce
CHECK_DEADLOCK FALSE
