\* Two threads add objects to one channel until the heap and the table are full.
SPECIFICATION Spec
CONSTANTS
  t1 = t1
  t2 = t2
  Threads = {t1, t2}
  Handles <- SomeHandles
  Slots = 4
  Hash <- Hashes
  Start = 1
  RamhtSize = 2
  RamfcSize = 1
  BoSize = 9
  MaxGrctx = 2
  Null = Null
SYMMETRY Symmetry
INVARIANTS HeapDisjoint CardSeesRight FoundAsInserted PushbufIsDma
CHECK_DEADLOCK FALSE
