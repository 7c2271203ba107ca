SPECIFICATION Spec
CONSTANTS
  Addrs = {1, 2}
  NoAddr = NoAddr
  First = 1
  Last = 2
  Separator = "-"
  Keep = 10000
  MaxRetries = 2
  SendBlocks = FALSE
  Forwarding = FALSE
  Conns = {}
  PublicPorts = {m1}
  TargetPort = 80
  PublicAddr = ma
  LocalAddr = ba
  Zero = Zero
  ForkFails = TRUE
PROPERTIES
  PortsInOrder
  EveryPortTried
  SessionResolved
