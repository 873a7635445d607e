SPECIFICATION Spec
CONSTANTS
  Vocabularies <- SomeVocabularies
  Structs <- SomeStructs
  Variants <- SomeVariants
  Functions <- SomeFunctions
  Locals <- SomeLocals
  Globals <- SomeGlobals
  Paths <- SomePaths
  Annotations <- SomeAnnotations
  MaxScopes = 1
  MaxQueue = 6
  MaxDepth = 20
INVARIANTS
  WellTyped
  OnNews
CHECK_DEADLOCK FALSE
