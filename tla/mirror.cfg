CONSTANTS
  x = x
  y = y
  Value <- Both
  Odd <- OddY
  MaxEpoch = 2
  MaxSeq = 2
  QueueDepth = 2
  Batch = 2
  MaxLosses = 1
  MaxFaults = 1
SPECIFICATION FairSpec
INVARIANT TypeOK
PROPERTIES Follows CatchesUp
