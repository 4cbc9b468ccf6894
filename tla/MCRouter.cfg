CONSTANTS
  Packet <- MCPacket
  Src <- MCSrc
  Dst <- MCDst
  Ttl <- MCTtl
  Echo <- MCEcho
  Host <- MCHost
  Device <- MCDevice
  Kernel <- MCKernel
  MAX_ARP_SIZE = 2
  ARP_ENTRY_TIMEOUT = 0
  ARP_REQUEST_MAX_RETRIES = 1
  None = None
SPECIFICATION Spec
INVARIANTS OneFate OnlySilent
PROPERTY Settled
CHECK_DEADLOCK FALSE
