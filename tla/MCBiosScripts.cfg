\* The script interpreter: every small table, and two threads that run tables for two outputs.
SPECIFICATION FairSpec
CONSTANTS
  t1 = t1
  t2 = t2
  o1 = o1
  o2 = o2
  Threads = {t1, t2}
  Boot = t1
  Outputs = {o1, o2}
  Roms <- AllRoms
  MaxTableOps = 12
  RetryUnit = 1
  RetryMax = 2
  MaxCalls = 1
  PxClks <- Clks
  Null = Null
INVARIANTS InSync BlocksRepeat OwnOutput
PROPERTIES RunsEnd
CHECK_DEADLOCK FALSE
