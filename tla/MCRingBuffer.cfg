CONSTANTS
  RingSize = 4
  Byte <- MCByte
SPECIFICATION RingSpec
PROPERTY ImplementsByteQueue
