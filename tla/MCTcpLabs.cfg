CONSTANTS
  Client = {a, b}
  Server = Server
  None = None
  Unused = Unused
SPECIFICATION Spec
INVARIANTS Agree Stream Kept
PROPERTY Ends
CHECK_DEADLOCK FALSE
