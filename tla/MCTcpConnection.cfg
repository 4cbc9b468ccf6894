CONSTANTS
  Segments = 2
  MaxLoss = 1
  MaxTimeout = 4
  MaxEarly = 1
SPECIFICATION FairSpec
CHECK_DEADLOCK FALSE
INVARIANTS AckAgreement UnackedKept NoLaterHole
PROPERTY Accepted
