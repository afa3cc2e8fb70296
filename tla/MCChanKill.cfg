\* Channels started and killed by two threads while the card changes between them.
SPECIFICATION FairSpec
CONSTANTS
  t1 = t1
  t2 = t2
  Threads = {t1, t2}
  Chans = {1, 2}
  Switchable = {1, 2}
  MaxRuns = 3
  Null = Null
INVARIANTS NoCardUse PlaylistExact
PROPERTIES KillEnds
CHECK_DEADLOCK FALSE
