SPECIFICATION Spec
CONSTANTS
  Addrs = {a1, a2}
  NoAddr = NoAddr
  Peers = {p1, p2}
  NoPeer = NoPeer
  SendBlocks = TRUE
INVARIANTS
  SessionsOwned
  LookupIsNew
  KillWakes
PROPERTIES
  ImplementsRelay
  KilledServerStops
  IdleSessionEnds
