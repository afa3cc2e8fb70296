\* A buffer of ten words that is gone around several times.
SPECIFICATION FairSpec
CONSTANTS
  Last = 9
  Skips = 2
  MaxSize = 3
  MaxUnfired = 4
  MaxWords = 16
  Impatient = FALSE
INVARIANTS RoomIsFree
PROPERTIES ImplementsFifo Served
CHECK_DEADLOCK FALSE
