\* The range allocator: 14 units, 2 objects.
SPECIFICATION FairSpec
CONSTANTS
  Start = 2
  End = 16
  SP = 1
  LP = 2
  TS = 4
  Word = 32
  Objs = {o1, o2}
  Requests <- MCRequests
  NoReq = NoReq
INVARIANTS Tiles Coalesced Separated Delivered ChainsExact
PROPERTIES Allocates ImplementsRangeAlloc CallsReturn
CHECK_DEADLOCK FALSE
