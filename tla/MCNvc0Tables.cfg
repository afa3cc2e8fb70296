\* Two spaces of two blocks, and an object of each kind.
SPECIFICATION Spec
CONSTANTS
  t1 = t1
  t2 = t2
  v1 = v1
  bar3 = bar3
  small = small
  large = large
  sys = sys
  Threads = {t1, t2}
  Spaces = {v1, bar3}
  Bar3 = bar3
  Objs = {small, large, sys}
  Kind <- Kinds
  Runs <- SomeRuns
  SpaceBlocks <- Blocks
  PdeCount = 2
  BlockPages = 4
  LargePages = 2
  MaxNodes = 2
  MaxTlb = 1
  None = None
SYMMETRY Symmetry
INVARIANTS TranslatesRight NoStale
CHECK_DEADLOCK FALSE
