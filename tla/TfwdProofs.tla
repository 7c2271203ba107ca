------------------------------ MODULE TfwdProofs ------------------------------
(***************************************************************************)
(* What the TCP forwarder promises, for all sets of addresses, of ports    *)
(* and of client connections.                                              *)
(***************************************************************************)
EXTENDS Tfwd, TLAPS

(* A server task and its place in the code go together: the wake-up in     *)
(* hev_tfwd_kill reaches every server that accepts.                        *)
ServerKnown ==
  /\ ftask <=> fpc # "none"
  /\ fpc = "new" => fst = "run"
  /\ fpc = "accept" => fst # "none"
  /\ killed => fpc = "accept"

(* The inductive invariant has a part for the server, ...                  *)
ServerInv ==
  /\ fpc \in {"none", "new", "accept"}
  /\ fst \in TaskStatus
  /\ faddr \in Addrs \cup {NoAddr}
  /\ fsocks = IF fpc = "accept" THEN 1 ELSE 0
  /\ ServerKnown
  /\ KillWakes

FlagsInv ==
  /\ ftask \in BOOLEAN
  /\ quit \in BOOLEAN
  /\ killed \in BOOLEAN

(* ... and one for the client tasks.                                       *)
SocketsOf(pc) ==
  CASE pc = "none" -> 0
    [] pc \in {"new", "dns"} -> 1
    [] OTHER -> 2

ClientsInv ==
  /\ cpc \in [Conns -> {"none", "new", "dns", "connect", "splice"}]
  /\ cport \in [Conns -> PublicPorts \cup {NoPort, TargetPort}]
  /\ csocks \in [Conns -> Nat]
  /\ \A c \in Conns : csocks[c] = SocketsOf(cpc[c])

TfwdInv == ServerInv /\ FlagsInv /\ ClientsInv

LEMMA TfwdInvInit == Init => TfwdInv
<1> SUFFICES ASSUME Init PROVE TfwdInv
  OBVIOUS
<1>1. FlagsInv
  BY Zenon DEF Init, FlagsInv
<1>2. ServerInv
  BY DEF Init, ServerInv, ServerKnown, KillWakes, TaskStatus
<1>3. ClientsInv
  BY DEF Init, ClientsInv, SocketsOf
<1> QED BY <1>1, <1>2, <1>3 DEF TfwdInv

-----------------------------------------------------------------------------
(* Accepting connections and forwarding them keeps the clients' part.      *)
LEMMA SpawnKeepsClients ==
  ASSUME ClientsInv, NEW S \in SUBSET Conns, Spawn(S)
  PROVE  ClientsInv'
BY DEF ClientsInv, Spawn, SocketsOf

LEMMA ClientStepKeepsClients ==
  ASSUME ClientsInv, NEW c \in Conns, NEW m \in PublicPorts \cup {NoPort},
         ClientStep(c, m)
  PROVE  ClientsInv'
<1> USE DEF ClientsInv, SocketsOf
<1>1. CASE Dial(c, m)
  BY <1>1 DEF Dial
<1>2. CASE Connect(c, m)
  BY <1>2 DEF Connect
<1>3. CASE DialFails(c)
  BY <1>3 DEF DialFails, ClientExit
<1>4. CASE Splice(c)
  BY <1>4 DEF Splice
<1>5. CASE SpliceEnds(c)
  BY <1>5 DEF SpliceEnds, ClientExit
<1> QED BY <1>1, <1>2, <1>3, <1>4, <1>5 DEF ClientStep

LEMMA NextKeepsClients == ClientsInv /\ Next => ClientsInv'
<1> SUFFICES ASSUME ClientsInv, Next PROVE ClientsInv'
  OBVIOUS
<1>1. ASSUME UNCHANGED clients PROVE ClientsInv'
  BY <1>1 DEF clients, ClientsInv
<1>2. CASE Run \/ Kill \/ Incoming \/ StartFails \/ Quit
  <2>1. UNCHANGED clients
    BY <1>2 DEF Run, Kill, Incoming, StartFails, Quit, clients
  <2> QED BY <1>1, <2>1
<1>3. ASSUME NEW a \in Addrs, NEW S \in SUBSET Conns,
             Start(a, S) \/ Accept(S) \/ AcceptFails(S)
      PROVE  ClientsInv'
  <2>1. Spawn(S)
    BY <1>3 DEF Start, Accept, AcceptFails
  <2> QED BY <2>1, SpawnKeepsClients
<1>4. ASSUME NEW S \in SUBSET Conns, Accept(S) \/ AcceptFails(S)
      PROVE  ClientsInv'
  <2>1. Spawn(S)
    BY <1>4 DEF Accept, AcceptFails
  <2> QED BY <2>1, SpawnKeepsClients
<1>5. ASSUME NEW c \in Conns, NEW m \in PublicPorts \cup {NoPort},
             ClientStep(c, m)
      PROVE  ClientsInv'
  BY <1>5, ClientStepKeepsClients
<1> QED BY <1>2, <1>3, <1>4, <1>5 DEF Next, ServerSegment

-----------------------------------------------------------------------------
(* The flags stay flags.                                                   *)
LEMMA NextKeepsFlags == FlagsInv /\ Next => FlagsInv'
<1> SUFFICES ASSUME FlagsInv, Next PROVE FlagsInv'
  OBVIOUS
<1>1. ASSUME UNCHANGED <<ftask, quit, killed>> PROVE FlagsInv'
  BY <1>1 DEF FlagsInv
<1>2. CASE Run
  BY <1>2, Zenon DEF Run, FlagsInv
<1>3. CASE Kill
  BY <1>3, Zenon DEF Kill, FlagsInv
<1>4. CASE StartFails \/ Quit
  BY <1>4, Zenon DEF StartFails, Quit, ServerExit, FlagsInv
<1>5. ASSUME NEW a \in Addrs, NEW S \in SUBSET Conns, Start(a, S)
      PROVE  FlagsInv'
  BY <1>5, Zenon DEF Start, ServerExit, FlagsInv
<1>6. ASSUME NEW S \in SUBSET Conns, Accept(S) \/ AcceptFails(S)
      PROVE  FlagsInv'
  BY <1>6, Zenon DEF Accept, AcceptFails, ServerExit, FlagsInv
<1>7. CASE Incoming
  BY <1>1, <1>7 DEF Incoming
<1>8. ASSUME NEW c \in Conns, NEW m \in PublicPorts \cup {NoPort},
             ClientStep(c, m)
      PROVE  FlagsInv'
  BY <1>1, <1>8 DEF ClientStep, Dial, Connect, DialFails, Splice, SpliceEnds,
                    ClientExit, server
<1> QED BY <1>2, <1>3, <1>4, <1>5, <1>6, <1>7, <1>8 DEF Next, ServerSegment

(* The server's part: hev_tfwd_run and hev_tfwd_kill, the segments of the  *)
(* server task, and everything that leaves it alone.                       *)
LEMMA NextKeepsServer == ServerInv /\ Next => ServerInv'
<1> SUFFICES ASSUME ServerInv, Next PROVE ServerInv'
  OBVIOUS
<1> USE DEF ServerInv, ServerKnown, KillWakes, TaskStatus, Blocked, Ready
<1>1. CASE Run
  BY <1>1 DEF Run
<1>2. CASE Kill
  BY <1>2 DEF Kill, Wakeup
<1>3. CASE StartFails \/ Quit
  BY <1>3 DEF StartFails, Quit, ServerExit
<1>4. ASSUME NEW a \in Addrs, NEW S \in SUBSET Conns, Start(a, S)
      PROVE  ServerInv'
  <2>1. ~killed'
    <3>1. fpc = "new"
      BY <1>4, Zenon DEF Start
    <3>2. killed' = killed \/ killed' = FALSE
      BY <1>4, Zenon DEF Start, ServerExit
    <3> QED BY <3>1, <3>2
  <2>2. CASE ServerExit(fsocks)
    BY <1>4, <2>2 DEF Start, ServerExit
  <2>3. CASE ~ServerExit(fsocks)
    <3>1. /\ fpc = "new" /\ fpc' = "accept" /\ fst' = "wait"
          /\ faddr' \in Addrs /\ fsocks' = fsocks + 1
      BY <1>4, <2>3 DEF Start
    <3>2. ftask' = ftask
      BY <1>4, <2>3 DEF Start
    <3> QED BY <2>1, <3>1, <3>2
  <2> QED BY <2>2, <2>3
<1>5. ASSUME NEW S \in SUBSET Conns, Accept(S) \/ AcceptFails(S)
      PROVE  ServerInv'
  BY <1>5 DEF Accept, AcceptFails, ServerExit
<1>6. CASE Incoming
  BY <1>6 DEF Incoming, Wakeup
<1>7. ASSUME NEW c \in Conns, NEW m \in PublicPorts \cup {NoPort},
             ClientStep(c, m)
      PROVE  ServerInv'
  <2>1. UNCHANGED server
    BY <1>7 DEF ClientStep, Dial, Connect, DialFails, Splice, SpliceEnds,
                ClientExit
  <2> QED BY <2>1 DEF server
<1> QED BY <1>1, <1>2, <1>3, <1>4, <1>5, <1>6, <1>7 DEF Next, ServerSegment

LEMMA TfwdInvStep == TfwdInv /\ [Next]_fvars => TfwdInv'
<1>1. TfwdInv /\ Next => TfwdInv'
  BY NextKeepsServer, NextKeepsFlags, NextKeepsClients DEF TfwdInv
<1>2. TfwdInv /\ UNCHANGED fvars => TfwdInv'
  BY DEF fvars, TfwdInv, ServerInv, ServerKnown, KillWakes, FlagsInv,
         ClientsInv
<1> QED BY <1>1, <1>2

LEMMA TfwdInvariant == Spec => []TfwdInv
BY TfwdInvInit, TfwdInvStep, PTL DEF Spec

(* What it is for.                                                         *)
LEMMA TfwdInvImplies == TfwdInv => TypeOK /\ SocketsOwned /\ KillWakes
<1>1. TfwdInv => TypeOK
  BY DEF TfwdInv, ServerInv, FlagsInv, ClientsInv, TypeOK
<1>2. TfwdInv => SocketsOwned
  BY DEF TfwdInv, ServerInv, ClientsInv, SocketsOwned, SocketsOf
<1>3. TfwdInv => KillWakes
  BY DEF TfwdInv, ServerInv
<1> QED BY <1>1, <1>2, <1>3

-----------------------------------------------------------------------------
(* The statics, the listening socket and the connections have their types. *)
THEOREM TfwdTypeCorrect == Spec => []TypeOK
BY TfwdInvImplies, TfwdInvariant, PTL

(* There is never a second server, and no path through a server or client  *)
(* task leaves a socket open or closes one twice.                          *)
THEOREM TfwdSocketsOwned == Spec => []SocketsOwned
BY TfwdInvImplies, TfwdInvariant, PTL

(* A server told to quit while it accepts is in the run queue with quit    *)
(* set until it is gone.                                                   *)
THEOREM TfwdKillWakes == Spec => []KillWakes
BY TfwdInvImplies, TfwdInvariant, PTL

LEMMA StepAcceptsNothing ==
  TfwdInv /\ [Next]_fvars =>
    [killed => \A c \in Conns : cpc[c] = "none" => cpc'[c] = "none"]_fvars
<1> SUFFICES ASSUME TfwdInv, Next, killed,
                    NEW c \in Conns, cpc[c] = "none"
             PROVE  cpc'[c] = "none"
  OBVIOUS
<1>0. quit /\ fpc = "accept"
  BY DEF TfwdInv, ServerInv, ServerKnown, KillWakes
<1>1. ASSUME NEW d \in Conns, NEW m \in PublicPorts \cup {NoPort},
             ClientStep(d, m)
      PROVE  cpc'[c] = "none"
  <2>1. cpc[d] # "none" /\ \E pc : cpc' = [cpc EXCEPT ![d] = pc]
    BY <1>1 DEF ClientStep, Dial, Connect, DialFails, Splice, SpliceEnds,
                ClientExit
  <2>2. DOMAIN cpc = Conns
    BY DEF TfwdInv, ClientsInv
  <2> QED BY <2>1, <2>2
<1>2. CASE Run \/ Kill \/ Incoming \/ StartFails \/ Quit
  BY <1>2 DEF Run, Kill, Incoming, StartFails, Quit, clients
<1>3. ASSUME NEW a \in Addrs, NEW S \in SUBSET Conns,
             Start(a, S) \/ Accept(S) \/ AcceptFails(S)
      PROVE  FALSE
  BY <1>0, <1>3 DEF Start, Accept, AcceptFails
<1>4. ASSUME NEW S \in SUBSET Conns, Accept(S) \/ AcceptFails(S)
      PROVE  FALSE
  BY <1>0, <1>4 DEF Accept, AcceptFails
<1> QED BY <1>1, <1>2, <1>3, <1>4 DEF Next, ServerSegment

(* A server that was told to quit while it accepts takes no connection.    *)
THEOREM TfwdAcceptsNothing == Spec => AcceptsNothingAfterKill
BY StepAcceptsNothing, TfwdInvariant, PTL DEF Spec, AcceptsNothingAfterKill

=============================================================================
