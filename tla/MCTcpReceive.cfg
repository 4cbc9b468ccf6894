CONSTANTS
  MSS = 2
  Capacity = 6
  ReadLen = 8
  Total = 10
  U16 = 16
  AckFirst = FALSE
  Segment <- MCSegment
SPECIFICATION FairSpec
INVARIANTS DeliveredInOrder OfoSorted GrantsFit OverflowsOnlyIfTorn
PROPERTY EventuallyFinished
CHECK_DEADLOCK FALSE
