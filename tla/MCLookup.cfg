CONSTANTS
  Stride = 2
  None = None
  Lines <- MCLines
SPECIFICATION Spec
INVARIANT AllLongest
CHECK_DEADLOCK FALSE
