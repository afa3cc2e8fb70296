\* fifo_init_ib on NV50 drops one reference too many.
SPECIFICATION SpecInitIb
CONSTANTS
  f1 = f1
  f2 = f2
  t1 = t1
  t2 = t2
  t3 = t3
  Files = {f1}
  Threads = {t1, t2}
  FileOf <- OneFile
  Chans = {c1, c2}
  Vspaces = {v1, v2}
  MaxCid = 1
  MaxVid = 1
  MaxMaps = 2
  SerialFrees = TRUE
  Null = Null
SYMMETRY Symmetry
INVARIANT UnbindAsserts
CHECK_DEADLOCK FALSE
