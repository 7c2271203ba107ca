SPECIFICATION Spec
CONSTANTS
  Addrs = {a1, a2}
  NoAddr = NoAddr
  Conns = {c1, c2}
  PublicPorts = {m1, m2}
  NoPort = NoPort
  TargetPort = 0
INVARIANTS
  SocketsOwned
  KillWakes
PROPERTIES
  AcceptsNothingAfterKill
  KilledServerStops
