CONSTANTS
  Load <- MCLoad
  PeerWnd = 3
  Ssthresh = 2
  MaxLoss = 1
  U32 <- MCU32
SPECIFICATION FairSpec
CHECK_DEADLOCK FALSE
INVARIANTS SleepsOnlyIfShut UnackedIsKept TimerRuns
PROPERTY AllWritten
