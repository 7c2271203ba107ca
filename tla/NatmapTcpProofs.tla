--------------------------- MODULE NatmapTcpProofs ---------------------------
(***************************************************************************)
(* What the keeper and the STUN client promise together, for all values of *)
(* the constants: any number of addresses, of ports and of connections,    *)
(* any -k and -b, with and without forwarding.                             *)
(***************************************************************************)
EXTENDS NatmapTcp, TLAPS

(* Without a STUN task hev_stun_run makes a new one.                       *)
StunPlace == stask \/ spc = "none"

(* A STUN task that the session made has bound to the session's address.   *)
OwnSocketIsForSession ==
  own /\ spc \in {"connect", "send", "header", "body"} => sbound = saddr

(* The inductive invariant for the address that is announced.              *)
AddressInv == StunPlace /\ OwnSocketIsForSession /\ OwnAnswerIsForSession

LEMMA AddressInvInit == Init => AddressInv
BY DEF Init, S!Init, AddressInv, StunPlace, OwnSocketIsForSession,
       OwnAnswerIsForSession

(* hev_stun_run for the session that has just been bound: the client is    *)
(* one of another session, or it has no socket yet.                        *)
LEMMA RunStunKeepsAddress ==
  ASSUME AddressInv, RunStun
  PROVE  AddressInv'
<1>1. ~learned'
  BY DEF RunStun
<1>2. CASE stask
  <2>1. ~own' /\ UNCHANGED <<stask, spc>>
    BY <1>2 DEF RunStun, S!Run
  <2> QED
    BY <1>1, <2>1 DEF AddressInv, StunPlace, OwnSocketIsForSession,
                      OwnAnswerIsForSession
<1>3. CASE ~stask
  <2>1. stask' /\ spc' = "new"
    BY <1>3 DEF RunStun, S!Run
  <2> QED
    BY <1>1, <2>1 DEF AddressInv, StunPlace, OwnSocketIsForSession,
                      OwnAnswerIsForSession
<1> QED BY <1>2, <1>3

(* Segments of the STUN client.                                            *)
LEMMA StunSegmentKeepsAddress ==
  ASSUME AddressInv, StunSegment
  PROVE  AddressInv'
<1> USE DEF AddressInv, StunPlace, OwnSocketIsForSession,
            OwnAnswerIsForSession
<1>1. CASE StunAlone
  <2>1. UNCHANGED <<saddr, own, learned, answer>>
    BY <1>1 DEF StunAlone, kvars, nvars, hvars
  <2>2. CASE S!Bind(saddr)
    BY <2>1, <2>2 DEF S!Bind
  <2>3. CASE S!Lookup \/ S!DnsAgain \/ S!ConnectAgain
    BY <2>1, <2>3 DEF S!Lookup, S!DnsAgain, S!ConnectAgain
  <2>4. CASE S!Advance
    <3>1. spc \in {"connect", "send", "header", "body"}
      BY <2>4 DEF S!Advance, S!Exchange
    <3>2. UNCHANGED <<stask, sbound>>
      BY <2>4 DEF S!Advance
    <3> QED BY <2>1, <3>1, <3>2
  <2> QED BY <1>1, <2>2, <2>3, <2>4 DEF StunAlone
<1>2. CASE StunSucceeds
  <2>1. /\ spc' = "none"
        /\ spc \in {"connect", "send", "header", "body"}
    BY <1>2 DEF StunSucceeds, S!Succeed, S!Exit, S!InExchange, S!Exchange
  <2>2. answer'.bport = sbound
    BY <1>2 DEF StunSucceeds, N!Report, N!Mapping
  <2>3. UNCHANGED <<saddr, own>>
    BY <1>2 DEF StunSucceeds, kvars
  <2> QED BY <2>1, <2>2, <2>3
<1>3. CASE StunFails
  <2>1. spc' = "none"
    BY <1>3 DEF StunFails, S!Fail, S!Exit
  <2>2. UNCHANGED <<saddr, own, learned, answer>>
    BY <1>3 DEF StunFails, K!Kill, nvars, hvars
  <2> QED BY <2>1, <2>2
<1> QED BY <1>1, <1>2, <1>3 DEF StunSegment

(* All other segments leave the STUN client and the address alone.         *)
LEMMA AddressInvStep == AddressInv /\ [Next]_vars => AddressInv'
<1> SUFFICES ASSUME AddressInv, [Next]_vars PROVE AddressInv'
  OBVIOUS
<1>1. ASSUME UNCHANGED <<stask, spc, sbound, saddr, own, learned, answer>>
      PROVE  AddressInv'
  BY <1>1 DEF AddressInv, StunPlace, OwnSocketIsForSession,
              OwnAnswerIsForSession
<1>2. CASE SessionBegins \/ SessionFailsAtOnce
  BY <1>2, RunStunKeepsAddress DEF SessionBegins, SessionFailsAtOnce
<1>3. CASE Attempt \/ KeeperAlone \/ SessionOver
  BY <1>1, <1>3
     DEF Attempt, KeeperAlone, SessionOver, svars, nvars, hvars,
         K!Begin, K!DnsAgain, K!ConnectStarts, K!ConnectAgain, K!BaseFails,
         K!SendAgain, K!RecvAgain, K!RecvMissed, K!KeepAliveEnds, K!ResendEnds
<1>4. CASE StunSegment
  BY <1>4, StunSegmentKeepsAddress
<1>5. CASE ServerSegment \/ ClientSegment
  BY <1>1, <1>5
     DEF ServerSegment, ClientSegment, ForwarderStartFails, ForwarderAlone,
         kvars, svars, nvars, hvars, K!Kill
<1>6. CASE Event
  BY <1>1, <1>6
     DEF Event, kvars, svars, nvars, hvars, K!Io, K!Timer, S!Io, S!Timer
<1>7. CASE UNCHANGED vars
  BY <1>1, <1>7 DEF vars, kvars, svars, nvars, hvars
<1> QED BY <1>2, <1>3, <1>4, <1>5, <1>6, <1>7 DEF Next, KeeperSegment

(* What is announced in a session whose own STUN task gave the answer is   *)
(* the mapping of the session's address.                                   *)
THEOREM OwnAnswerForSession == SafetySpec => []OwnAnswerIsForSession
<1>1. AddressInv => OwnAnswerIsForSession
  BY DEF AddressInv
<1> QED BY <1>1, AddressInvInit, AddressInvStep, PTL DEF SafetySpec

-----------------------------------------------------------------------------
(* A send buffer that has room for every HEAD never keeps the keeper in    *)
(* send, where a kill could be overwritten.                                *)
NeverInSend == kpc # "send"

(* The inductive invariant for sessions without a mapping.                 *)
KilledInv == NeverInSend /\ UnmappedSessionKilled

LEMMA KilledInvInit == Init => KilledInv
BY DEF Init, K!Init, KilledInv, NeverInSend, UnmappedSessionKilled

(* Segments of the keeper: a session begins with a STUN task, and one that *)
(* was killed in recv gets no new timeout.                                 *)
LEMMA KeeperSegmentKeepsKilled ==
  ASSUME ~SendBlocks, KilledInv, KeeperSegment
  PROVE  KilledInv'
<1> USE DEF KilledInv, NeverInSend, UnmappedSessionKilled
<1>1. CASE Attempt
  BY <1>1 DEF Attempt, K!Begin
<1>2. CASE KeeperAlone
  <2>1. UNCHANGED <<stask, learned>>
    BY <1>2 DEF KeeperAlone, svars, hvars
  <2>2. CASE K!DnsAgain \/ K!ConnectStarts \/ K!ConnectAgain \/ K!BaseFails
    BY <2>2 DEF K!DnsAgain, K!ConnectStarts, K!ConnectAgain, K!BaseFails
  <2>3. CASE K!SendAgain
    BY <2>3 DEF K!SendAgain
  <2>4. CASE K!RecvAgain
    BY <2>1, <2>4 DEF K!RecvAgain
  <2>5. CASE K!RecvMissed
    BY <2>1, <2>5 DEF K!RecvMissed, K!SendHead, K!HeadSent
  <2> QED BY <1>2, <2>2, <2>3, <2>4, <2>5 DEF KeeperAlone
<1>3. CASE SessionBegins
  <2>1. stask'
    BY <1>3 DEF SessionBegins, RunStun, S!Run
  <2>2. kpc' # "send"
    BY <1>3 DEF SessionBegins, K!Established, K!SendHead, K!HeadSent
  <2> QED BY <2>1, <2>2
<1>4. CASE SessionFailsAtOnce \/ SessionOver
  BY <1>4 DEF SessionFailsAtOnce, SessionOver, K!EstablishedEnds,
              K!KeepAliveEnds, K!ResendEnds, K!SessionEnds
<1> QED BY <1>1, <1>2, <1>3, <1>4 DEF KeeperSegment

LEMMA KilledInvStep ==
  ASSUME ~SendBlocks
  PROVE  KilledInv /\ [Next]_vars => KilledInv'
<1> SUFFICES ASSUME KilledInv, [Next]_vars PROVE KilledInv'
  OBVIOUS
<1>1. ASSUME UNCHANGED kpc, timeout' \in {timeout, 0},
             stask => stask', learned => learned'
      PROVE  KilledInv'
  BY <1>1 DEF KilledInv, NeverInSend, UnmappedSessionKilled
<1>2. CASE KeeperSegment
  BY <1>2, KeeperSegmentKeepsKilled
<1>3. CASE StunAlone
  BY <1>1, <1>3
     DEF StunAlone, kvars, hvars, S!Lookup, S!DnsAgain, S!Bind,
         S!ConnectAgain, S!Advance
<1>4. CASE StunSucceeds
  BY <1>4 DEF StunSucceeds, kvars, KilledInv, NeverInSend,
              UnmappedSessionKilled
<1>5. CASE StunFails
  BY <1>5 DEF StunFails, K!Kill, KilledInv, NeverInSend,
              UnmappedSessionKilled
<1>6. CASE ServerSegment \/ ClientSegment
  BY <1>1, <1>6
     DEF ServerSegment, ClientSegment, ForwarderStartFails, ForwarderAlone,
         kvars, svars, hvars, K!Kill
<1>7. CASE Event
  BY <1>1, <1>7
     DEF Event, kvars, svars, hvars, K!Io, K!Timer, S!Io, S!Timer, K!session
<1>8. CASE UNCHANGED vars
  BY <1>1, <1>8 DEF vars, kvars, svars, hvars
<1> QED BY <1>2, <1>3, <1>4, <1>5, <1>6, <1>7, <1>8 DEF Next, StunSegment

(* If sending a HEAD never blocks, a session whose STUN client has ended   *)
(* without an answer has been killed.                                      *)
THEOREM UnmappedKilled ==
  ASSUME ~SendBlocks
  PROVE  SafetySpec => []UnmappedSessionKilled
<1>1. KilledInv => UnmappedSessionKilled
  BY DEF KilledInv
<1> QED BY <1>1, KilledInvInit, KilledInvStep, PTL DEF SafetySpec

-----------------------------------------------------------------------------
(* In a sequential range the port to be taken next follows the present     *)
(* one.                                                                    *)
Follows == bport2 = IF port = Last THEN First ELSE port + 1

(* The inductive invariant for the ports.                                  *)
PortInv ==
  /\ Separator = "-" => brand = FALSE
  /\ port \in First .. Last \cup {NoAddr}
  /\ bport2 \in First .. Last
  /\ brand = FALSE /\ port # NoAddr => Follows

LEMMA PortRange == First \in Nat /\ Last \in Nat /\ First <= Last
BY NatmapTcpAssumption, Zenon DEF NatmapTcpAssumption

LEMMA PortInvInit == Init => PortInv
<1> SUFFICES ASSUME Init PROVE PortInv
  OBVIOUS
<1>1. port = NoAddr /\ bport2 = First
  BY DEF Init, C!Init
<1>2. Separator = "-" => brand = FALSE
  BY DEF Init, C!Init
<1>3. bport2 \in First .. Last
  BY <1>1, PortRange
<1> QED BY <1>1, <1>2, <1>3, Zenon DEF PortInv

(* hev_conf_bport keeps the order, and takes another port only if asked    *)
(* to, or if it is the first call.                                         *)
LEMMA BportInOrder ==
  ASSUME PortInv, NEW next, C!Bport(next)
  PROVE  /\ PortInv'
         /\ port' = port \/ port = NoAddr \/ next
         /\ Separator = "-" /\ port # NoAddr => port' \in {port, bport2}
<1>1. CASE C!PickRandom /\ (port = NoAddr \/ next)
  BY <1>1 DEF C!PickRandom, C!Range, PortInv
<1>2. CASE C!PickNext /\ (port = NoAddr \/ next)
  <2>1. /\ brand = FALSE /\ brand' = brand /\ port' = bport2
        /\ bport2' = IF bport2 + 1 > Last THEN First ELSE bport2 + 1
    BY <1>2 DEF C!PickNext
  <2>2. bport2 \in First .. Last
    BY DEF PortInv
  <2>3. Follows' /\ bport2' \in First .. Last
    BY <2>1, <2>2, PortRange DEF Follows
  <2> QED BY <1>2, <2>1, <2>2, <2>3 DEF PortInv
<1>3. CASE UNCHANGED pvars
  BY <1>3 DEF pvars, PortInv, Follows
<1> QED BY <1>1, <1>2, <1>3 DEF C!Bport, C!pvars, pvars

(* Only the start of an attempt asks for a port.                           *)
LEMMA OnlyAttemptsPick ==
  [Next]_vars => UNCHANGED pvars \/ C!Bport(port_next)
<1> SUFFICES ASSUME [Next]_vars PROVE UNCHANGED pvars \/ C!Bport(port_next)
  OBVIOUS
<1>1. CASE KeeperSegment
  BY <1>1 DEF KeeperSegment, Attempt, KeeperAlone, SessionBegins,
              SessionFailsAtOnce, SessionOver
<1>2. CASE StunSegment
  BY <1>2 DEF StunSegment, StunAlone, StunSucceeds, StunFails
<1>3. CASE ServerSegment \/ ClientSegment \/ Event
  BY <1>3 DEF ServerSegment, ForwarderStartFails, ForwarderAlone,
              ClientSegment, Event
<1>4. CASE UNCHANGED vars
  BY <1>4 DEF vars
<1> QED BY <1>1, <1>2, <1>3, <1>4 DEF Next

LEMMA PortInvStep == PortInv /\ [Next]_vars => PortInv'
<1>1. PortInv /\ UNCHANGED pvars => PortInv'
  BY DEF pvars, PortInv, Follows
<1> QED BY <1>1, OnlyAttemptsPick, BportInOrder

(* The keeper leaves a port only after an attempt failed, and walks a      *)
(* sequential range in order.                                              *)
THEOREM PortsTakenInOrder == SafetySpec => PortsInOrder
<1> DEFINE InOrder ==
      port' # port /\ port # NoAddr =>
        /\ port_next
        /\ Separator = "-" => port' = IF port = Last THEN First ELSE port + 1
<1>1. PortInv /\ [Next]_vars => InOrder
  <2> SUFFICES ASSUME PortInv, [Next]_vars, port' # port, port # NoAddr
               PROVE  /\ port_next
                      /\ Separator = "-" =>
                           port' = IF port = Last THEN First ELSE port + 1
    OBVIOUS
  <2>1. C!Bport(port_next)
    BY OnlyAttemptsPick DEF pvars
  <2>2. port_next
    BY <2>1, BportInOrder
  <2>3. Separator = "-" => port' = bport2
    BY <2>1, BportInOrder
  <2>4. Separator = "-" => Follows
    BY DEF PortInv
  <2> QED BY <2>2, <2>3, <2>4 DEF Follows
<1> QED BY <1>1, PortInvInit, PortInvStep, PTL DEF SafetySpec, PortsInOrder

-----------------------------------------------------------------------------
(***************************************************************************)
(* The port of the target.                                                 *)
(***************************************************************************)

LEMMA KnownPorts ==
  /\ NoAddr \notin PublicPorts /\ Zero \notin PublicPorts
  /\ TargetPort # NoAddr
BY NatmapTcpAssumption, Zenon DEF NatmapTcpAssumption

(* With a server or a connection there was an answer, and after an answer  *)
(* a port is stored, also after one that was no news.                      *)
PortStored ==
  /\ pmport # Zero => mport # NoAddr
  /\ fpc # "none" => mport # NoAddr
  /\ \A c \in Conns : cpc[c] # "none" => mport # NoAddr

(* The inductive invariant.                                                *)
DialInv ==
  /\ DOMAIN cpc = Conns
  /\ DOMAIN cport = Conns
  /\ PortStored
  /\ DialPortKnown

LEMMA DialInvInit == Init => DialInv
BY DEF Init, N!Init, F!Init, DialInv, PortStored, DialPortKnown

LEMMA AnswerStoresPort ==
  ASSUME DialInv, StunSucceeds
  PROVE  mport' # NoAddr
<1>1. PICK mp \in PublicPorts : N!Report(PublicAddr, mp, LocalAddr, sbound)
  BY DEF StunSucceeds
<1>2. mp # NoAddr /\ mp # Zero
  BY KnownPorts
<1>3. CASE N!Changed(PublicAddr, mp, LocalAddr, sbound)
  BY <1>1, <1>2, <1>3 DEF N!Report, N!StorePort
<1>4. CASE ~N!Changed(PublicAddr, mp, LocalAddr, sbound)
  BY <1>1, <1>2, <1>4 DEF N!Report, N!Changed, DialInv, PortStored
<1> QED BY <1>3, <1>4

(* The server accepts only when a port is stored.                          *)
LEMMA ServerKeepsDial ==
  ASSUME DialInv, ServerSegment
  PROVE  DialInv'
<1> USE DEF DialInv, PortStored, DialPortKnown
<1>1. UNCHANGED <<pmport, mport>>
  BY DEF ServerSegment, ForwarderStartFails, ForwarderAlone, nvars
<1>2. fpc # "none"
  BY DEF ServerSegment, ForwarderStartFails, ForwarderAlone, F!StartFails,
         F!Start, F!Accept, F!AcceptFails, F!Quit
<1>3. CASE UNCHANGED F!clients
  BY <1>1, <1>2, <1>3 DEF F!clients
<1>4. ASSUME NEW conns \in SUBSET Conns, F!Spawn(conns) PROVE DialInv'
  BY <1>1, <1>2, <1>4 DEF F!Spawn
<1>5. UNCHANGED F!clients \/ \E conns \in SUBSET Conns : F!Spawn(conns)
  BY DEF ServerSegment, ForwarderStartFails, ForwarderAlone, F!StartFails,
         F!Start, F!Accept, F!AcceptFails, F!Quit
<1> QED BY <1>3, <1>4, <1>5

(* A connection takes its port from mport or from -p.                      *)
LEMMA ClientKeepsDial ==
  ASSUME DialInv, ClientSegment
  PROVE  DialInv'
<1> USE DEF DialInv, PortStored, DialPortKnown
<1>1. UNCHANGED <<pmport, mport>>
  BY DEF ClientSegment, nvars
<1>2. PICK c \in Conns : F!ClientStep(c, mport)
  BY DEF ClientSegment
<1>3. UNCHANGED fpc /\ cpc[c] # "none"
  BY <1>2 DEF F!ClientStep, F!Dial, F!Connect, F!DialFails, F!Splice,
              F!SpliceEnds, F!ClientExit, F!server
<1>4. CASE F!Dial(c, mport)
  BY <1>1, <1>3, <1>4, KnownPorts DEF F!Dial
<1>5. CASE F!Connect(c, mport)
  BY <1>1, <1>3, <1>5, KnownPorts DEF F!Connect
<1>6. CASE F!DialFails(c) \/ F!SpliceEnds(c)
  BY <1>1, <1>3, <1>6 DEF F!DialFails, F!SpliceEnds, F!ClientExit
<1>7. CASE F!Splice(c)
  BY <1>1, <1>3, <1>7 DEF F!Splice
<1> QED BY <1>2, <1>4, <1>5, <1>6, <1>7 DEF F!ClientStep

LEMMA DialInvStep == DialInv /\ [Next]_vars => DialInv'
<1> SUFFICES ASSUME DialInv, [Next]_vars PROVE DialInv'
  OBVIOUS
<1>1. ASSUME UNCHANGED <<pmport, mport, fpc, cpc, cport>> PROVE DialInv'
  BY <1>1 DEF DialInv, PortStored, DialPortKnown
<1>2. CASE KeeperSegment
  <2>1. UNCHANGED nvars
    BY <1>2 DEF KeeperSegment, Attempt, KeeperAlone, SessionBegins,
                SessionFailsAtOnce, SessionOver
  <2>2. UNCHANGED <<fpc, cpc, cport>>
    BY <1>2 DEF KeeperSegment, Attempt, KeeperAlone, SessionBegins,
                SessionFailsAtOnce, SessionOver, StopForwarder, F!Kill,
                F!clients, fvars
  <2> QED BY <1>1, <2>1, <2>2 DEF nvars
<1>3. CASE StunSucceeds
  <2>1. UNCHANGED <<cpc, cport>>
    BY <1>3 DEF StunSucceeds, StartForwarder, F!Run, F!clients, fvars
  <2> QED BY <1>3, <2>1, AnswerStoresPort
          DEF DialInv, PortStored, DialPortKnown
<1>4. CASE StunAlone \/ StunFails
  BY <1>1, <1>4 DEF StunAlone, StunFails, fvars, nvars
<1>5. CASE ServerSegment \/ ClientSegment
  BY <1>5, ServerKeepsDial, ClientKeepsDial
<1>6. CASE Event
  BY <1>1, <1>6 DEF Event, F!Incoming, F!clients, fvars, nvars
<1>7. CASE UNCHANGED vars
  BY <1>1, <1>7 DEF vars, fvars, nvars
<1> QED BY <1>2, <1>3, <1>4, <1>5, <1>6, <1>7 DEF Next, StunSegment

(* With any number of connections, none is forwarded to a port before one  *)
(* is known.                                                               *)
THEOREM ForwarderKnowsPort == SafetySpec => []DialPortKnown
<1>1. DialInv => DialPortKnown
  BY DEF DialInv
<1> QED BY <1>1, DialInvInit, DialInvStep, PTL DEF SafetySpec

-----------------------------------------------------------------------------
(***************************************************************************)
(* The components in the composition.  NATMap calls them as they expect to *)
(* be called, so that it is an implementation of each of them, and what is *)
(* proved of one of them alone holds here.                                 *)
(***************************************************************************)
KP == INSTANCE TnskProofs
SP == INSTANCE StunProofs
FP == INSTANCE TfwdProofs WITH NoPort <- NoAddr
NP == INSTANCE NotifyProofs WITH PublicAddrs <- {PublicAddr},
                                 NoPort <- NoAddr,
                                 LocalAddrs <- {LocalAddr},
                                 LocalPorts <- Addrs

(* The constants are what the components assume of them.                   *)
LEMMA KeeperAssumption == KP!TnskAssumption
BY NatmapTcpAssumption DEF NatmapTcpAssumption, KP!TnskAssumption

LEMMA StunAssumption == SP!StunAssumption
BY NatmapTcpAssumption DEF NatmapTcpAssumption, SP!StunAssumption

LEMMA ForwarderAssumption == FP!TfwdAssumption
BY NatmapTcpAssumption DEF NatmapTcpAssumption, FP!TfwdAssumption

LEMMA NotificationAssumption == NP!NotifyAssumption
BY NatmapTcpAssumption DEF NatmapTcpAssumption, NP!NotifyAssumption

LEMMA PortValues ==
  NoAddr \notin First .. Last /\ First .. Last \subseteq Addrs \cup {0}
<1>1. First .. Last \subseteq Nat
  BY PortRange
<1>2. NoAddr \notin Nat /\ First .. Last \subseteq Addrs \cup {0}
  BY NatmapTcpAssumption, Zenon DEF NatmapTcpAssumption
<1> QED BY <1>1, <1>2, Zenon

(* Static saddr is read by the STUN task and by the server, in segments of *)
(* their own: it is an address by then.                                    *)
AddressKnown ==
  /\ saddr \in Addrs \cup {NoAddr}
  /\ spc # "none" \/ fpc # "none" => saddr \in Addrs
  /\ spc \in {"connect", "send", "header", "body"} => sbound \in Addrs
  /\ kpc # "new" => port # NoAddr

(* The inductive invariant for what is handed from one component to        *)
(* another.                                                                *)
LinkInv == PortInv /\ AddressKnown

LEMMA LinkInvInit == Init => LinkInv
BY PortInvInit
   DEF Init, LinkInv, AddressKnown, K!Init, S!Init, F!Init

(* What hev_sock_client_base binds to is an address.                       *)
LEMMA BindableAddrs ==
  ASSUME LinkInv, kpc # "new"
  PROVE  Bindable \subseteq Addrs
<1>1. port \in Addrs \cup {0}
  BY PortValues, Zenon DEF LinkInv, PortInv, AddressKnown
<1> QED BY <1>1 DEF Bindable

LEMMA SessionAddress ==
  ASSUME LinkInv, SessionBegins \/ SessionFailsAtOnce
  PROVE  /\ \E a \in Addrs : K!Established(a) \/ K!EstablishedEnds(a)
         /\ saddr' \in Addrs
         /\ port # NoAddr
<1>1. PICK a \in Bindable : K!Established(a) \/ K!EstablishedEnds(a)
  BY DEF SessionBegins, SessionFailsAtOnce
<1>2. kpc # "new" /\ saddr' = a
  BY <1>1 DEF K!Established, K!EstablishedEnds, K!BaseSucceeds
<1>3. a \in Addrs
  BY <1>1, <1>2, BindableAddrs
<1> QED BY <1>1, <1>2, <1>3 DEF LinkInv, AddressKnown

(* hev_conf_bport leaves a port in its buffer.                             *)
LEMMA BportIsPort ==
  ASSUME PortInv, NEW next, C!Bport(next)
  PROVE  port' # NoAddr
<1>1. CASE C!PickRandom \/ C!PickNext
  <2>1. port' \in First .. Last
    BY <1>1, Zenon DEF C!PickRandom, C!PickNext, C!Range, PortInv
  <2> QED BY <2>1, PortValues
<1>2. CASE port # NoAddr /\ UNCHANGED C!pvars
  BY <1>2 DEF C!pvars
<1> QED BY <1>1, <1>2 DEF C!Bport

LEMMA KeeperSegmentKeepsLink ==
  ASSUME LinkInv, KeeperSegment
  PROVE  AddressKnown'
<1> USE DEF LinkInv, AddressKnown
<1>1. CASE Attempt
  <2>1. port' # NoAddr
    BY <1>1, BportIsPort DEF Attempt
  <2> QED BY <1>1, <2>1 DEF Attempt, K!Begin, svars, fvars
<1>2. CASE KeeperAlone
  <2>1. UNCHANGED <<saddr, port, spc, sbound, fpc>> /\ kpc # "new"
    BY <1>2 DEF KeeperAlone, svars, fvars, pvars, K!DnsAgain, K!ConnectStarts,
                K!ConnectAgain, K!BaseFails, K!SendAgain, K!RecvAgain,
                K!RecvMissed
  <2> QED BY <2>1
<1>3. CASE SessionBegins \/ SessionFailsAtOnce
  <2>1. saddr' \in Addrs /\ port' # NoAddr
    BY <1>3, SessionAddress DEF SessionBegins, SessionFailsAtOnce, pvars
  <2>2. /\ sbound' = sbound
        /\ spc' \in {"connect", "send", "header", "body"} => spc' = spc
    BY <1>3 DEF SessionBegins, SessionFailsAtOnce, RunStun, S!Run
  <2> QED BY <2>1, <2>2
<1>4. CASE SessionOver
  <2>1. UNCHANGED <<saddr, port, spc, sbound, fpc>> /\ kpc # "new"
    BY <1>4 DEF SessionOver, StopForwarder, svars, fvars, pvars,
                K!KeepAliveEnds, K!ResendEnds, K!InSession, F!Kill
  <2> QED BY <2>1
<1> QED BY <1>1, <1>2, <1>3, <1>4 DEF KeeperSegment

LEMMA StunSegmentKeepsLink ==
  ASSUME LinkInv, StunSegment
  PROVE  AddressKnown'
<1> USE DEF LinkInv, AddressKnown
<1>1. UNCHANGED <<saddr, port, kpc>>
  BY DEF StunSegment, StunAlone, StunSucceeds, StunFails, kvars, pvars, K!Kill
<1>2. spc # "none"
  BY DEF StunSegment, StunAlone, StunSucceeds, StunFails, S!Lookup, S!DnsAgain,
         S!Bind, S!ConnectAgain, S!Advance, S!Succeed, S!Fail, S!Exchange,
         S!InExchange
<1>3. spc' \in {"connect", "send", "header", "body"} => sbound' \in Addrs
  <2>1. CASE S!Bind(saddr)
    BY <1>2, <2>1 DEF S!Bind
  <2>2. CASE S!Lookup \/ S!DnsAgain \/ S!ConnectAgain \/ S!Succeed \/ S!Fail
    BY <2>2 DEF S!Lookup, S!DnsAgain, S!ConnectAgain, S!Succeed, S!Fail, S!Exit
  <2>3. CASE S!Advance
    BY <2>3 DEF S!Advance, S!Exchange
  <2> QED BY <2>1, <2>2, <2>3
          DEF StunSegment, StunAlone, StunSucceeds, StunFails
<1> QED BY <1>1, <1>2, <1>3

LEMMA AddressKnownStep ==
  ASSUME LinkInv, [Next]_vars
  PROVE  AddressKnown'
<1>1. ASSUME UNCHANGED <<saddr, port, kpc, spc, sbound>>,
             fpc' = fpc \/ fpc # "none"
      PROVE  AddressKnown'
  BY <1>1 DEF LinkInv, AddressKnown
<1>2. CASE KeeperSegment
  BY <1>2, KeeperSegmentKeepsLink
<1>3. CASE StunSegment
  BY <1>3, StunSegmentKeepsLink
<1>4. CASE ServerSegment \/ ClientSegment
  <2>1. UNCHANGED <<saddr, port, kpc, spc, sbound>>
    BY <1>4 DEF ServerSegment, ClientSegment, ForwarderStartFails,
                ForwarderAlone, kvars, svars, pvars, K!Kill
  <2>2. fpc' = fpc \/ fpc # "none"
    BY <1>4 DEF ServerSegment, ClientSegment, ForwarderStartFails,
                ForwarderAlone, F!StartFails, F!Start, F!Accept,
                F!AcceptFails, F!Quit, F!ClientStep, F!Dial, F!Connect,
                F!DialFails, F!Splice, F!SpliceEnds, F!ClientExit, F!server
  <2> QED BY <1>1, <2>1, <2>2
<1>5. CASE Event
  BY <1>1, <1>5 DEF Event, kvars, svars, fvars, pvars, K!Io, K!Timer, S!Io,
                    S!Timer, F!Incoming
<1>6. CASE UNCHANGED vars
  BY <1>1, <1>6 DEF vars, kvars, svars, fvars, pvars
<1> QED BY <1>2, <1>3, <1>4, <1>5, <1>6 DEF Next

LEMMA LinkInvStep == LinkInv /\ [Next]_vars => LinkInv'
BY PortInvStep, AddressKnownStep DEF LinkInv

LEMMA LinkInvariant == SafetySpec => []LinkInv
BY LinkInvInit, LinkInvStep, PTL DEF SafetySpec

-----------------------------------------------------------------------------
(***************************************************************************)
(* With one port given, a STUN task that is left over from an earlier      *)
(* session does no harm: its socket has the port of the new session, too.  *)
(***************************************************************************)

(* The inductive invariant for it.                                         *)
OnePortInv ==
  /\ saddr \in {First, NoAddr}
  /\ spc \in {"connect", "send", "header", "body"} => sbound = First
  /\ learned => saddr = First /\ answer.bport = First

LEMMA OnePortInvInit == Init => OnePortInv
BY DEF Init, OnePortInv, K!Init, S!Init

LEMMA OnePortInvStep ==
  ASSUME First = Last, First # 0
  PROVE  LinkInv /\ OnePortInv /\ [Next]_vars => OnePortInv'
<1> SUFFICES ASSUME LinkInv, OnePortInv, [Next]_vars PROVE OnePortInv'
  OBVIOUS
<1>1. ASSUME UNCHANGED <<saddr, spc, sbound, learned, answer>>
      PROVE  OnePortInv'
  BY <1>1 DEF OnePortInv
<1>2. port # NoAddr => Bindable = {First}
  BY PortRange DEF LinkInv, PortInv, Bindable
<1>3. CASE Attempt \/ KeeperAlone \/ SessionOver
  BY <1>1, <1>3
     DEF Attempt, KeeperAlone, SessionOver, svars, nvars, hvars, K!Begin,
         K!DnsAgain, K!ConnectStarts, K!ConnectAgain, K!BaseFails, K!SendAgain,
         K!RecvAgain, K!RecvMissed, K!KeepAliveEnds, K!ResendEnds
<1>4. CASE SessionBegins \/ SessionFailsAtOnce
  <2>1. saddr' = First
    <3>1. \E a \in Bindable : K!Established(a) \/ K!EstablishedEnds(a)
      BY <1>4 DEF SessionBegins, SessionFailsAtOnce
    <3>2. port # NoAddr
      BY <1>4, SessionAddress
    <3> QED BY <1>2, <3>1, <3>2
            DEF K!Established, K!EstablishedEnds, K!BaseSucceeds
  <2>2. learned' = FALSE /\ sbound' = sbound
        /\ (spc' = spc \/ spc' = "new")
    BY <1>4 DEF SessionBegins, SessionFailsAtOnce, RunStun, S!Run
  <2> QED BY <2>1, <2>2 DEF OnePortInv
<1>5. CASE StunSegment
  <2>1. UNCHANGED saddr
    BY <1>5 DEF StunSegment, StunAlone, StunSucceeds, StunFails, kvars, K!Kill
  <2>2. saddr = First
    <3>1. spc # "none"
      BY <1>5 DEF StunSegment, StunAlone, StunSucceeds, StunFails, S!Lookup,
                  S!DnsAgain, S!Bind, S!ConnectAgain, S!Advance, S!Succeed,
                  S!Fail, S!Exchange, S!InExchange
    <3>2. NoAddr \notin Addrs
      BY NatmapTcpAssumption
    <3> QED BY <3>1, <3>2 DEF LinkInv, AddressKnown, OnePortInv
  <2>3. CASE StunSucceeds
    <3>1. sbound = First
      BY <2>3 DEF StunSucceeds, S!Succeed, S!InExchange, S!Exchange, OnePortInv
    <3>2. answer'.bport = First /\ spc' = "none"
      BY <2>3, <3>1 DEF StunSucceeds, S!Succeed, S!Exit, N!Report, N!Mapping
    <3> QED BY <2>1, <2>2, <3>2 DEF OnePortInv
  <2>4. CASE StunAlone \/ StunFails
    <3>1. UNCHANGED <<learned, answer>>
      BY <2>4 DEF StunAlone, StunFails, hvars, nvars
    <3>2. spc' \in {"connect", "send", "header", "body"} => sbound' = First
      BY <2>2, <2>4
         DEF StunAlone, StunFails, S!Lookup, S!DnsAgain, S!Bind,
             S!ConnectAgain, S!Advance, S!Exchange, S!Fail, S!Exit, OnePortInv
    <3> QED BY <2>1, <2>2, <3>1, <3>2 DEF OnePortInv
  <2> QED BY <1>5, <2>3, <2>4 DEF StunSegment
<1>6. CASE ServerSegment \/ ClientSegment \/ Event
  BY <1>1, <1>6
     DEF ServerSegment, ForwarderStartFails, ForwarderAlone, ClientSegment,
         Event, kvars, svars, nvars, hvars, K!Kill, K!Io, K!Timer, S!Io,
         S!Timer
<1>7. CASE UNCHANGED vars
  BY <1>1, <1>7 DEF vars, kvars, svars, nvars, hvars
<1> QED BY <1>3, <1>4, <1>5, <1>6, <1>7 DEF Next, KeeperSegment

(* With -b and a single port the mapping learned in a session is one of    *)
(* the session's port, as README.md:106 says; that it need not be is due   *)
(* to a range of ports, or to -b 0.                                        *)
THEOREM OnePortStunFromSession ==
  ASSUME First = Last, First # 0
  PROVE  SafetySpec => []StunFromSessionPort
<1>1. OnePortInv => StunFromSessionPort
  BY DEF OnePortInv, StunFromSessionPort
<1>2. LinkInv /\ OnePortInv /\ [Next]_vars => OnePortInv'
  BY OnePortInvStep
<1> QED BY <1>1, <1>2, OnePortInvInit, LinkInvariant, PTL DEF SafetySpec

-----------------------------------------------------------------------------
(* The keeper, with the ports that hev_conf_bport chose, ...               *)
LEMMA KeeperStep == LinkInv /\ [Next]_vars => [K!Next]_kvars
<1> SUFFICES ASSUME LinkInv, [Next]_vars PROVE K!Next \/ UNCHANGED kvars
  OBVIOUS
<1>1. CASE Attempt \/ KeeperAlone \/ SessionOver
  BY <1>1 DEF Attempt, KeeperAlone, SessionOver, K!Next, K!Segment
<1>2. CASE SessionBegins \/ SessionFailsAtOnce
  BY <1>2, SessionAddress DEF K!Next, K!Segment
<1>3. CASE StunSegment
  BY <1>3 DEF StunSegment, StunAlone, StunSucceeds, StunFails, K!Next
<1>4. CASE ServerSegment \/ ClientSegment \/ Event
  BY <1>4 DEF ServerSegment, ForwarderStartFails, ForwarderAlone,
              ClientSegment, Event, K!Next
<1>5. CASE UNCHANGED vars
  BY <1>5 DEF vars
<1> QED BY <1>1, <1>2, <1>3, <1>4, <1>5 DEF Next, KeeperSegment

(* ... the STUN client, with what it reads from saddr, ...                 *)
LEMMA StunStep == LinkInv /\ [Next]_vars => [S!Next]_svars
<1> SUFFICES ASSUME LinkInv, [Next]_vars PROVE S!Next \/ UNCHANGED svars
  OBVIOUS
<1>1. CASE KeeperSegment
  BY <1>1 DEF KeeperSegment, Attempt, KeeperAlone, SessionBegins,
              SessionFailsAtOnce, SessionOver, RunStun, S!Next
<1>2. CASE StunSegment
  <2>1. S!Segment(saddr)
    BY <1>2 DEF StunSegment, StunAlone, StunSucceeds, StunFails, S!Segment
  <2>2. spc # "none"
    BY <1>2 DEF StunSegment, StunAlone, StunSucceeds, StunFails, S!Lookup,
                S!DnsAgain, S!Bind, S!ConnectAgain, S!Advance, S!Succeed,
                S!Fail, S!Exchange, S!InExchange
  <2> QED BY <2>1, <2>2 DEF S!Next, LinkInv, AddressKnown
<1>3. CASE ServerSegment \/ ClientSegment \/ Event
  BY <1>3 DEF ServerSegment, ForwarderStartFails, ForwarderAlone,
              ClientSegment, Event, S!Next
<1>4. CASE UNCHANGED vars
  BY <1>4 DEF vars
<1> QED BY <1>1, <1>2, <1>3, <1>4 DEF Next

(* ... the notification, with the address of a STUN socket, ...            *)
LEMMA NotifyStep == LinkInv /\ [Next]_vars => [N!Next]_nvars
<1> SUFFICES ASSUME LinkInv, [Next]_vars PROVE N!Next \/ UNCHANGED nvars
  OBVIOUS
<1>1. CASE StunSucceeds
  <2>1. sbound \in Addrs
    BY <1>1 DEF StunSucceeds, S!Succeed, S!InExchange, S!Exchange, LinkInv,
                AddressKnown
  <2> QED BY <1>1, <2>1 DEF StunSucceeds, N!Next
<1>2. CASE StunAlone \/ StunFails \/ KeeperSegment
  BY <1>2 DEF StunAlone, StunFails, KeeperSegment, Attempt, KeeperAlone,
              SessionBegins, SessionFailsAtOnce, SessionOver
<1>3. CASE ServerSegment \/ ClientSegment \/ Event
  BY <1>3 DEF ServerSegment, ForwarderStartFails, ForwarderAlone,
              ClientSegment, Event
<1>4. CASE UNCHANGED vars
  BY <1>4 DEF vars
<1> QED BY <1>1, <1>2, <1>3, <1>4 DEF Next, StunSegment

(* ... and the forwarder, with saddr and the port of mport.                *)
LEMMA ForwarderStep ==
  LinkInv /\ N!TypeOK /\ [Next]_vars => [F!Next]_fvars
<1> SUFFICES ASSUME LinkInv, N!TypeOK, [Next]_vars
             PROVE  F!Next \/ UNCHANGED fvars
  OBVIOUS
<1>1. CASE KeeperSegment
  BY <1>1 DEF KeeperSegment, Attempt, KeeperAlone, SessionBegins,
              SessionFailsAtOnce, SessionOver, StopForwarder, F!Next
<1>2. CASE StunSegment
  BY <1>2 DEF StunSegment, StunAlone, StunSucceeds, StunFails,
              StartForwarder, F!Next
<1>3. CASE ServerSegment
  <2>1. fpc # "none"
    BY <1>3 DEF ServerSegment, ForwarderStartFails, ForwarderAlone,
                F!StartFails, F!Start, F!Accept, F!AcceptFails, F!Quit
  <2>2. saddr \in Addrs
    BY <2>1 DEF LinkInv, AddressKnown
  <2> QED BY <1>3, <2>2
          DEF ServerSegment, ForwarderStartFails, ForwarderAlone, F!Next,
              F!ServerSegment
<1>4. CASE ClientSegment
  <2>1. mport \in PublicPorts \cup {NoAddr}
    BY DEF N!TypeOK
  <2> QED BY <1>4, <2>1 DEF ClientSegment, F!Next
<1>5. CASE Event
  BY <1>5 DEF Event, F!Next
<1>6. CASE UNCHANGED vars
  BY <1>6 DEF vars
<1> QED BY <1>1, <1>2, <1>3, <1>4, <1>5, <1>6 DEF Next

(* The invariant of the notification holds, for the forwarder's step needs *)
(* it.  N and NP are the same module twice.                                *)
LEMMA NotifyInstances ==
  /\ N!Init => NP!Init
  /\ [N!Next]_nvars => [NP!Next]_(NP!nvars)
  /\ NP!TypeOK => N!TypeOK
  /\ NP!DialsLatestPort => N!DialsLatestPort
  /\ NP!ToldLatest => N!ToldLatest
BY DEF nvars, NP!nvars, N!Init, NP!Init, N!Next, NP!Next, N!Report, NP!Report,
       N!Remember, NP!Remember, N!Changed, NP!Changed, N!Exec, NP!Exec,
       N!StorePort, NP!StorePort, N!Mapping, NP!Mapping, N!NoMapping,
       NP!NoMapping, N!Mappings, NP!Mappings, N!TypeOK, NP!TypeOK,
       N!DialsLatestPort, NP!DialsLatestPort, N!ToldLatest, NP!ToldLatest

LEMMA NotifyHolds == SafetySpec => []NP!NotifyInv
<1>1. Init => NP!NotifyInv
  BY NotifyInstances, NP!NotifyInvInit, NotificationAssumption DEF Init
<1>2. LinkInv /\ NP!NotifyInv /\ [Next]_vars => NP!NotifyInv'
  BY NotifyStep, NotifyInstances, NP!NotifyInvStep, NotificationAssumption
<1> QED BY <1>1, <1>2, LinkInvariant, PTL DEF SafetySpec

LEMMA NotifyHoldsImplies ==
  NP!NotifyInv =>
    N!TypeOK /\ N!DialsLatestPort /\ (~ForkFails => N!ToldLatest)
BY NotifyInstances, NP!NotifyInvImplies, NotificationAssumption

(* NATMap in TCP mode implements each of its components: whatever their    *)
(* proofs say of all behaviours of a component is true of it in NATMap.    *)
THEOREM ImplementsKeeper == SafetySpec => K!Init /\ [][K!Next]_(K!kvars)
<1>1. Init => K!Init
  BY DEF Init
<1>2. LinkInv /\ [Next]_vars => [K!Next]_(K!kvars)
  BY KeeperStep DEF kvars, K!kvars
<1> QED BY <1>1, <1>2, LinkInvariant, PTL DEF SafetySpec

THEOREM ImplementsStun == SafetySpec => S!Init /\ [][S!Next]_(S!svars)
<1>1. Init => S!Init
  BY DEF Init
<1>2. LinkInv /\ [Next]_vars => [S!Next]_(S!svars)
  BY StunStep DEF svars, S!svars
<1> QED BY <1>1, <1>2, LinkInvariant, PTL DEF SafetySpec

THEOREM ImplementsNotify == SafetySpec => N!Spec
<1>1. Init => N!Init
  BY DEF Init
<1>2. LinkInv /\ [Next]_vars => [N!Next]_(N!nvars)
  BY NotifyStep DEF nvars, N!nvars
<1> QED BY <1>1, <1>2, LinkInvariant, PTL DEF SafetySpec, N!Spec

THEOREM ImplementsForwarder == SafetySpec => F!Init /\ [][F!Next]_(F!fvars)
<1>1. Init => F!Init
  BY DEF Init
<1>2. LinkInv /\ NP!NotifyInv /\ [Next]_vars => [F!Next]_(F!fvars)
  BY ForwarderStep, NotifyHoldsImplies DEF fvars, F!fvars
<1> QED BY <1>1, <1>2, LinkInvariant, NotifyHolds, PTL DEF SafetySpec
-----------------------------------------------------------------------------
(***************************************************************************)
(* What is proved of each component on its own, in the composition.  Each  *)
(* component is an instance here and in the proofs about it, of the same   *)
(* module with the same constants and variables.                           *)
(***************************************************************************)
LEMMA KeeperInstances ==
  /\ K!Init => KP!Init
  /\ [K!Next]_kvars => [KP!Next]_(KP!kvars)
  /\ KP!TypeOK => K!TypeOK
  /\ KP!SocketsOwned => K!SocketsOwned
  /\ KP!SilentPeerBound => K!SilentPeerBound
  /\ KP!LivePeerKept => K!LivePeerKept
BY DEF kvars, KP!kvars, K!Init, KP!Init, K!Next, KP!Next, K!Segment,
       KP!Segment, K!Kill, KP!Kill, K!Io, KP!Io, K!Timer, KP!Timer, K!Begin,
       KP!Begin, K!DnsAgain, KP!DnsAgain, K!ConnectStarts, KP!ConnectStarts,
       K!ConnectAgain, KP!ConnectAgain, K!BaseFails, KP!BaseFails,
       K!Established, KP!Established, K!EstablishedEnds, KP!EstablishedEnds,
       K!SendAgain, KP!SendAgain, K!RecvAgain, KP!RecvAgain, K!RecvMissed,
       KP!RecvMissed, K!KeepAliveEnds, KP!KeepAliveEnds, K!ResendEnds,
       KP!ResendEnds, K!SendHead, KP!SendHead, K!HeadSent, KP!HeadSent,
       K!SessionEnds, KP!SessionEnds, K!BaseSucceeds, KP!BaseSucceeds,
       K!session, KP!session, K!Wakeup, KP!Wakeup, K!Blocked, KP!Blocked,
       K!Ready, KP!Ready, K!MayHaveElapsed, KP!MayHaveElapsed,
       K!MayHaveTimeLeft, KP!MayHaveTimeLeft, K!InSession, KP!InSession,
       K!TypeOK, KP!TypeOK, K!SocketsOwned, KP!SocketsOwned, K!TaskStatus,
       KP!TaskStatus, K!SendTimeout, KP!SendTimeout, K!SilentPeerBound,
       KP!SilentPeerBound, K!LivePeerKept, KP!LivePeerKept

LEMMA StunInstances ==
  /\ S!Init => SP!Init
  /\ [S!Next]_svars => [SP!Next]_(SP!svars)
  /\ SP!TypeOK => S!TypeOK
  /\ SP!TaskOwned => S!TaskOwned
BY DEF svars, SP!svars, S!Init, SP!Init, S!Next, SP!Next, S!Segment,
       SP!Segment, S!Run, SP!Run, S!Io, SP!Io, S!Timer, SP!Timer, S!Lookup,
       SP!Lookup, S!DnsAgain, SP!DnsAgain, S!Bind, SP!Bind, S!ConnectAgain,
       SP!ConnectAgain, S!Advance, SP!Advance, S!Exchange, SP!Exchange,
       S!InExchange, SP!InExchange, S!Succeed, SP!Succeed, S!Fail, SP!Fail,
       S!Exit, SP!Exit, S!Wakeup, SP!Wakeup, S!Blocked, SP!Blocked, S!Ready,
       SP!Ready, S!MayHaveTimeLeft, SP!MayHaveTimeLeft, S!TaskStatus,
       SP!TaskStatus, S!TypeOK, SP!TypeOK, S!TaskOwned, SP!TaskOwned

LEMMA ForwarderInstances ==
  /\ F!Init => FP!Init
  /\ [F!Next]_fvars => [FP!Next]_(FP!fvars)
  /\ FP!TypeOK => F!TypeOK
  /\ FP!SocketsOwned => F!SocketsOwned
  /\ FP!KillWakes => F!KillWakes
BY DEF fvars, FP!fvars, F!server, FP!server, F!clients, FP!clients, F!Init,
       FP!Init, F!Next, FP!Next, F!Run, FP!Run, F!Kill, FP!Kill, F!Spawn,
       FP!Spawn, F!ServerExit, FP!ServerExit, F!StartFails, FP!StartFails,
       F!Start, FP!Start, F!Quit, FP!Quit, F!Accept, FP!Accept,
       F!AcceptFails, FP!AcceptFails, F!Incoming, FP!Incoming, F!Dial,
       FP!Dial, F!ClientExit, FP!ClientExit, F!Connect, FP!Connect,
       F!DialFails, FP!DialFails, F!Splice, FP!Splice, F!SpliceEnds,
       FP!SpliceEnds, F!ClientStep, FP!ClientStep, F!ServerSegment,
       FP!ServerSegment, F!Wakeup, FP!Wakeup, F!Blocked, FP!Blocked, F!Ready,
       FP!Ready, F!TaskStatus, FP!TaskStatus, F!TypeOK, FP!TypeOK,
       F!SocketsOwned, FP!SocketsOwned, F!KillWakes, FP!KillWakes

LEMMA KeeperHolds == SafetySpec => []KP!KeeperInv
<1>1. Init => KP!KeeperInv
  BY KeeperInstances, KP!KeeperInvInit, KeeperAssumption DEF Init
<1>2. LinkInv /\ KP!KeeperInv /\ [Next]_vars => KP!KeeperInv'
  BY KeeperStep, KeeperInstances, KP!KeeperInvStep, KeeperAssumption
<1> QED BY <1>1, <1>2, LinkInvariant, PTL DEF SafetySpec

LEMMA StunHolds == SafetySpec => []SP!StunInv
<1>1. Init => SP!StunInv
  BY StunInstances, SP!StunInvInit, StunAssumption DEF Init
<1>2. LinkInv /\ SP!StunInv /\ [Next]_vars => SP!StunInv'
  BY StunStep, StunInstances, SP!StunInvStep, StunAssumption
<1> QED BY <1>1, <1>2, LinkInvariant, PTL DEF SafetySpec

LEMMA ForwarderHolds == SafetySpec => []FP!TfwdInv
<1>1. Init => FP!TfwdInv
  BY ForwarderInstances, FP!TfwdInvInit, ForwarderAssumption DEF Init
<1>2. LinkInv /\ NP!NotifyInv /\ FP!TfwdInv /\ [Next]_vars => FP!TfwdInv'
  BY ForwarderStep, NotifyHoldsImplies, ForwarderInstances, FP!TfwdInvStep,
     ForwarderAssumption
<1> QED BY <1>1, <1>2, LinkInvariant, NotifyHolds, PTL DEF SafetySpec

-----------------------------------------------------------------------------
(* The variables that no component has for itself.                         *)
FlagsInv ==
  /\ brand \in BOOLEAN
  /\ learned \in BOOLEAN
  /\ own \in BOOLEAN

LEMMA FlagsInvInit == Init => FlagsInv
<1> SUFFICES ASSUME Init PROVE FlagsInv
  OBVIOUS
<1>1. brand \in BOOLEAN
  <2>1. CASE Separator = ""
    BY <2>1 DEF Init, C!Init
  <2>2. CASE Separator # ""
    <3>1. brand = (Separator = "~")
      BY <2>2, Zenon DEF Init, C!Init
    <3> QED BY <3>1, Zenon
  <2> QED BY <2>1, <2>2
<1>2. learned \in BOOLEAN /\ own \in BOOLEAN
  BY Zenon DEF Init
<1> QED BY <1>1, <1>2 DEF FlagsInv

LEMMA FlagsInvStep == FlagsInv /\ [Next]_vars => FlagsInv'
<1> SUFFICES ASSUME FlagsInv, [Next]_vars PROVE FlagsInv'
  OBVIOUS
<1>1. brand' = brand
  BY OnlyAttemptsPick, Zenon
     DEF pvars, C!Bport, C!PickRandom, C!PickNext, C!pvars
<1>2. ASSUME UNCHANGED hvars PROVE FlagsInv'
  BY <1>1, <1>2, Zenon DEF FlagsInv, hvars
<1>3. CASE Attempt \/ KeeperAlone \/ SessionOver
  BY <1>2, <1>3, Zenon DEF Attempt, KeeperAlone, SessionOver
<1>4. CASE SessionBegins \/ SessionFailsAtOnce
  <2>1. learned' = FALSE /\ own' = ~stask
    BY <1>4, Zenon DEF SessionBegins, SessionFailsAtOnce, RunStun
  <2> QED BY <1>1, <2>1, Zenon DEF FlagsInv
<1>5. CASE StunAlone \/ StunFails
  BY <1>2, <1>5, Zenon DEF StunAlone, StunFails
<1>6. CASE StunSucceeds
  BY <1>1, <1>6, Zenon DEF StunSucceeds, FlagsInv
<1>7. CASE ServerSegment \/ ClientSegment \/ Event
  BY <1>2, <1>7, Zenon
     DEF ServerSegment, ForwarderStartFails, ForwarderAlone, ClientSegment,
         Event
<1>8. CASE UNCHANGED vars
  BY <1>2, <1>8, Zenon DEF vars
<1> QED BY <1>3, <1>4, <1>5, <1>6, <1>7, <1>8, Zenon
        DEF Next, KeeperSegment, StunSegment

(* Every variable of NATMap in TCP mode keeps its type: no step hands a    *)
(* component an address, a port or a task status that it cannot deal with. *)
THEOREM TcpTypeCorrect == SafetySpec => []TypeOK
<1>1. KP!KeeperInv => K!TypeOK
  BY KP!KeeperInvImplies, KeeperAssumption, KeeperInstances
<1>2. SP!StunInv => S!TypeOK
  BY SP!StunInvImplies, StunAssumption, StunInstances
<1>3. FP!TfwdInv => F!TypeOK
  BY FP!TfwdInvImplies, ForwarderAssumption, ForwarderInstances
<1>4. LinkInv /\ FlagsInv => C!TypeOK /\ learned \in BOOLEAN /\ own \in BOOLEAN
  BY Zenon DEF LinkInv, PortInv, FlagsInv, C!TypeOK, C!Range
<1>5. /\ KP!KeeperInv /\ SP!StunInv /\ FP!TfwdInv /\ NP!NotifyInv
      /\ LinkInv /\ FlagsInv
      => TypeOK
  BY <1>1, <1>2, <1>3, <1>4, NotifyHoldsImplies, Zenon DEF TypeOK
<1> QED BY <1>5, KeeperHolds, StunHolds, ForwarderHolds, NotifyHolds,
           LinkInvariant, FlagsInvInit, FlagsInvStep, PTL DEF SafetySpec

(* With every call that one component makes into another, no path through  *)
(* a task leaves a socket open, closes one twice, or leaves a static task  *)
(* behind that is gone.                                                    *)
THEOREM TcpTasksAndSocketsOwned ==
  SafetySpec => [](K!SocketsOwned /\ S!TaskOwned /\ F!SocketsOwned)
<1>1. KP!KeeperInv => K!SocketsOwned
  BY KP!KeeperInvImplies, KeeperAssumption, KeeperInstances
<1>2. SP!StunInv => S!TaskOwned
  BY SP!StunInvImplies, StunAssumption, StunInstances
<1>3. FP!TfwdInv => F!SocketsOwned
  BY FP!TfwdInvImplies, ForwarderAssumption, ForwarderInstances
<1> QED BY <1>1, <1>2, <1>3, KeeperHolds, StunHolds, ForwarderHolds, PTL

(* The keeper that the STUN client and the forwarder may kill still gives  *)
(* a silent peer two HEADs at most, and an answering one all it needs; and *)
(* the server that the end of a session kills still stops.                 *)
THEOREM TcpPeerAndServerBounds ==
  SafetySpec => [](K!SilentPeerBound /\ K!LivePeerKept /\ F!KillWakes)
<1>1. KP!KeeperInv => K!SilentPeerBound /\ K!LivePeerKept
  BY KP!KeeperInvImplies, KeeperAssumption, KeeperInstances
<1>2. FP!TfwdInv => F!KillWakes
  BY FP!TfwdInvImplies, ForwarderAssumption, ForwarderInstances
<1> QED BY <1>1, <1>2, KeeperHolds, ForwarderHolds, PTL

(* A keeper killed in recv, by a STUN client or a forwarder that failed,   *)
(* sends nothing more in that session; and the server it tells to quit     *)
(* then takes no connection, whatever an answer does meanwhile.            *)
THEOREM TcpKilledStop ==
  SafetySpec => K!KilledSendsNoMore /\ F!AcceptsNothingAfterKill
<1>1. LinkInv /\ KP!KeeperInv /\ [Next]_vars =>
        [kpc = "recv" /\ timeout = 0 => kpc' \in {"recv", "sleep"}
                                        /\ unanswered' <= unanswered]_(K!kvars)
  BY KeeperStep, KeeperInstances, KP!StepSendsNoMore, KeeperAssumption
     DEF K!kvars, KP!kvars
<1>2. LinkInv /\ NP!NotifyInv /\ FP!TfwdInv /\ [Next]_vars =>
        [killed =>
           \A c \in Conns : cpc[c] = "none" => cpc'[c] = "none"]_(F!fvars)
  BY ForwarderStep, NotifyHoldsImplies, ForwarderInstances,
     FP!StepAcceptsNothing, ForwarderAssumption DEF F!fvars, FP!fvars
<1> QED BY <1>1, <1>2, KeeperHolds, ForwarderHolds, NotifyHolds,
           LinkInvariant, PTL
        DEF SafetySpec, K!KilledSendsNoMore, F!AcceptsNothingAfterKill

(* The port that mport holds for the forwarder is the public port of the   *)
(* last answer, whichever session's STUN task gave it; and with a fork     *)
(* that does not fail, the script was run for that answer's mapping.       *)
THEOREM TcpDialsLatest == SafetySpec => []N!DialsLatestPort
BY NotifyHolds, NotifyHoldsImplies, PTL

THEOREM TcpToldLatest ==
  ASSUME ~ForkFails
  PROVE  SafetySpec => []N!ToldLatest
BY NotifyHolds, NotifyHoldsImplies, PTL

(* As long as fork works, NATMap in TCP mode is an announcer of mappings,  *)
(* whatever else it does: the script is run for every answer that is news, *)
(* and for no other.                                                       *)
THEOREM TcpImplementsAnnouncer ==
  ASSUME ~ForkFails
  PROVE  SafetySpec => N!ImplementsAnnouncer
<1>1. Init => N!A!Init
  BY DEF Init, N!Init, N!A!Init
<1>2. ASSUME LinkInv, NP!NotifyInv, [Next]_vars
      PROVE  [N!A!Next]_(N!A!avars)
  <2>1. [NP!Next]_(NP!nvars)
    BY <1>2, NotifyStep, NotifyInstances
  <2>2. [NP!A!Next]_(NP!A!avars)
    BY <1>2, <2>1, NP!StepAnnounces, NotificationAssumption
  <2> QED
    BY <2>2 DEF N!A!Next, N!A!avars, NP!A!Next, NP!A!avars, N!A!News,
                NP!A!News, N!Mappings, NP!Mappings, N!Mapping, NP!Mapping
<1> QED BY <1>1, <1>2, LinkInvariant, NotifyHolds, PTL
        DEF SafetySpec, N!ImplementsAnnouncer, N!A!Spec

=============================================================================
