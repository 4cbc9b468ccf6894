CONSTANTS
  Topology <- MCTopology
  All = All
  None = None
  Timeout = 2
  MaxSend = 2
SPECIFICATION LanSpec
INVARIANTS LearntPort OnceOnly
PROPERTIES Reached Forgets
