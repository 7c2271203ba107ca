SPECIFICATION Spec
CONSTANTS
  Addrs = {1}
  NoAddr = NoAddr
  First = 1
  Last = 1
  Separator = "~"
  Keep = 10000
  Cycle = 2
  SendBlocks = TRUE
  MaxTries = 2
  MaxAnswers = 1
  IdleEvents = TRUE
  StunBlocks = TRUE
  Forwarding = {TRUE, FALSE}
  Peers = {p1}
  NoPeer = NoPeer
  PeersBlock = FALSE
  PublicPorts = {m1}
  PublicAddr = ma
  LocalAddr = ba
  Zero = Zero
  ForkFails = FALSE
INVARIANTS
  TypeOK
  StunTaskOwned
  StunServesSession
  DialPortKnown
PROPERTIES
  CheckedEveryCycle
  ForwarderComesBack
  SessionResolved
CHECK_DEADLOCK FALSE
