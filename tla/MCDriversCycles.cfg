SPECIFICATION AllSpec
CONSTANTS
  m = m
  a = a
  b = b
  c = c
  Files = {m, a, b, c}
  Main = m
  ImportLists <- Lists
  Mains <- MCMains
  Imports <- MCImports
  MaxDepth = 6
  Threads = {w1, w2}
  w1 = w1
  w2 = w2
  Tests = 3
  Wat <- MCWat
INVARIANTS
  CyclesAreDetected
CHECK_DEADLOCK FALSE
