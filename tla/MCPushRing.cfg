\* The push buffer: 8 words, an IB of 2 entries, 16 words written.
SPECIFICATION FairSpec
CONSTANTS
  N = 8
  M = 2
  MaxWords = 16
INVARIANTS RingIntact
PROPERTIES ImplementsFifo Progress
