\* Mappings: two threads, one address space and the BAR, an object of one page and one of two.
SPECIFICATION Spec
CONSTANTS
  Threads = {t1, t2}
  Vs = {v1}
  Bar = Bar
  b1 = b1
  b2 = b2
  Bos = {b1, b2}
  Size <- SizeOf
  Pages <- PagesOfSpaces
  MaxMmaps = 2
  MaxLeaks = 1
  MaxTlb = 1
  BarMapFails = FALSE
  Null = Null
SYMMETRY Symmetry
INVARIANTS RefsExact NoStaleTranslation MapsExact LocksOrdered
CHECK_DEADLOCK FALSE
