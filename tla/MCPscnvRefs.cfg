\* Lifetimes: two threads on one file and one on another, 2 channels for 1 number.
SPECIFICATION Spec
CONSTANTS
  f1 = f1
  f2 = f2
  t1 = t1
  t2 = t2
  t3 = t3
  Files = {f1, f2}
  Threads = {t1, t2, t3}
  FileOf <- TwoFiles
  Chans = {c1, c2}
  Vspaces = {v1, v2}
  MaxCid = 1
  MaxVid = 2
  MaxMaps = 2
  SerialFrees = TRUE
  Null = Null
SYMMETRY Symmetry
INVARIANTS RefsBalance NothingDangles DeathReleases
CHECK_DEADLOCK FALSE
