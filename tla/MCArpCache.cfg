CONSTANTS
  Packet = {"p1", "p2", "p3"}
  Host = {"a", "b"}
  Mac = {"m1", "m2"}
  To <- MCTo
  Forwarded = {"p2"}
  MAX_ARP_SIZE = 2
  ARP_ENTRY_TIMEOUT = 1
  ARP_REQUEST_MAX_RETRIES = 2
SPECIFICATION FairSpec
INVARIANTS ExactlyOnce Fresh Tried
PROPERTY Settled
