SPECIFICATION SafetySpec
CONSTANTS
  Addrs = {1, 2}
  NoAddr = NoAddr
  First = 0
  Last = 0
  Separator = ""
  Keep = 10000
  MaxRetries = 2
  SendBlocks = FALSE
  Forwarding = TRUE
  Conns = {c1}
  PublicPorts = {m1}
  TargetPort = 0
  PublicAddr = ma
  LocalAddr = ba
  Zero = Zero
  ForkFails = FALSE
INVARIANTS
  TypeOK
  DialPortKnown
  UnmappedSessionKilled
  OwnAnswerIsForSession
