SPECIFICATION Spec
CONSTANTS
  Addrs = {1}
  NoAddr = NoAddr
  First = 1
  Last = 1
  Separator = "~"
  Keep = 10000
  Cycle = 2
  SendBlocks = FALSE
  MaxTries = 2
  MaxAnswers = 1
  IdleEvents = FALSE
  StunBlocks = FALSE
  Forwarding = {FALSE}
  Peers = {p1}
  NoPeer = NoPeer
  PeersBlock = FALSE
  PublicPorts = {m1}
  PublicAddr = ma
  LocalAddr = ba
  Zero = Zero
  ForkFails = FALSE
PROPERTIES
  StunOnlyWhenAsked
