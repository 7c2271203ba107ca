SPECIFICATION Spec
CONSTANTS
  Addrs = {a1, a2}
  NoAddr = NoAddr
  Keep = 10000
  MaxRetries = 4
  SendBlocks = TRUE
INVARIANTS
  SocketsOwned
  SilentPeerBound
  LivePeerKept
PROPERTIES
  KilledSendsNoMore
  ConnectEnds
  SilenceEndsSession
