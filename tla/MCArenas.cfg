SPECIFICATION AllSpec
CONSTANTS
  Bases = {"Main"}
  MaxDepth = 4
  MaxAllocs = 2
  Arenas = {a1, a2}
  a1 = a1
  a2 = a2
  PageSize = 3
  Header = 1
  Reserved = 1
  MaxPages = 4
  Garbage = {0, 9}
  Sizes = {0, 1, 2, 3}
  MaxPoints = 2
INVARIANTS
  PagesOwnedOnce
  AllocationsIntact
  NoRestoreTraps
  ActiveMemoryExact
  FreesOnlyItsOwn
  ScratchGivenBack
PROPERTIES
  RestoreUndoes
  NothingNeededIsFreed
SYMMETRY Symmetry
