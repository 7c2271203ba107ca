SPECIFICATION BindSpec
CONSTANTS
  PublicAddrs <- Readable
  PublicPorts <- PortNumbers
  Addrs <- Addresses
  Ports <- PortNumbers
  ExclusiveOr <- Xored
  LocalAddrs = {ba1, ba2}
  LocalPorts = {bp1, bp2}
  Zero = Zero
  NoPort = NoPort
  ForkFails = FALSE
  Tids <- TransactionIds
  Prologues <- Beginnings
  BigEndian = TRUE
INVARIANTS
  AnswerUnderstood
