SPECIFICATION Spec
CONSTANTS
  Addrs = {a1, a2, a3}
  NoAddr = NoAddr
  MaxRetries = 10
INVARIANTS
  TaskOwned
PROPERTIES
  ClientEnds
  ConnectEnds
