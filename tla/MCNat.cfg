CONSTANTS
  Client <- MCClient
  Server <- MCServer
  Remote <- MCRemote
  Bucket <- MCBucket
  Rule <- MCRule
  NAT_PORT_MIN = 12345
  NAT_PORT_MAX = 12346
  MaxSeq = 0
  TCP_ESTABLISHED_TIMEOUT = 0
SPECIFICATION FairSpec
INVARIANTS PoolExact Symmetric
PROPERTY Reclaimed
