--------------------------- MODULE NatmapUdpProofs ---------------------------
(***************************************************************************)
(* What the keeper, the STUN client and the forwarder promise together in  *)
(* UDP mode, for all values of the constants: any -k, -c and -b, any       *)
(* number of peers, tries and answers on their way, with and without       *)
(* forwarding, and whether or not sends block.                             *)
(***************************************************************************)
EXTENDS NatmapUdp, TLAPS

LEMMA CycleIsPositive == Cycle \in Nat \ {0}
BY NatmapUdpAssumption, Zenon DEF NatmapUdpAssumption

-----------------------------------------------------------------------------
(***************************************************************************)
(* The STUN task.                                                          *)
(***************************************************************************)

(* The inductive invariant: an answer waits in a socket that is open only, *)
(* so a task that has none yet cannot succeed.                             *)
StunInv == S!TaskOwned /\ (ssocks = 0 => inbox = 0)

LEMMA StunInvInit == Init => StunInv
BY DEF Init, S!Init, S!T!Init, StunInv, S!TaskOwned

(* hev_stun_run, which only wakes a task up that is there.                 *)
LEMMA RunKeepsStun ==
  ASSUME StunInv, S!Run
  PROVE  StunInv'
<1> USE DEF StunInv, S!TaskOwned
<1>1. UNCHANGED <<ssocks, inbox>>
  BY DEF S!Run, S!T!Run, S!net
<1>2. CASE stask = TRUE
  BY <1>1, <1>2 DEF S!Run, S!T!Run, S!T!Wakeup, S!T!Blocked
<1>3. CASE stask # TRUE
  BY <1>1, <1>3 DEF S!Run, S!T!Run
<1> QED BY <1>2, <1>3

(* Segments of the STUN client itself: the socket comes with the first     *)
(* request and goes with the task.                                         *)
LEMMA StunSegmentKeepsStun ==
  ASSUME StunInv,
         S!Lookup \/ (\E a : S!Ask(a)) \/ S!RecvAgain \/ S!Succeed \/ S!Fail
  PROVE  StunInv'
<1> USE DEF StunInv, S!TaskOwned, S!net
<1>1. CASE S!Lookup
  BY <1>1 DEF S!Lookup, S!T!Lookup, S!T!DnsAgain
<1>2. ASSUME NEW a, S!Ask(a) PROVE StunInv'
  <2>1. spc \in {"dns", "idle", "send", "recv"} /\ spc' \in {"send", "recv"}
    BY <1>2 DEF S!Ask, S!NextTry
  <2>2. ssocks' = 1
    BY <1>2, <2>1 DEF S!Ask, S!Bound
  <2>3. stask' = stask /\ sst' = "sleep"
    BY <1>2 DEF S!Ask
  <2> QED BY <2>1, <2>2, <2>3
<1>3. CASE S!RecvAgain
  BY <1>3 DEF S!RecvAgain
<1>4. CASE S!Succeed
  <2>1. spc \in {"dns", "idle", "send", "recv"}
    BY <1>4 DEF S!Succeed, S!NextTry
  <2>2. inbox # 0
    BY <1>4 DEF S!Succeed
  <2>3. /\ spc' = "idle" /\ sst' = "wait"
        /\ UNCHANGED <<stask, ssocks>>
    BY <1>4 DEF S!Succeed
  <2> QED BY <2>1, <2>2, <2>3
<1>5. CASE S!Fail
  BY <1>5 DEF S!Fail, S!T!Exit
<1> QED BY <1>1, <1>2, <1>3, <1>4, <1>5

LEMMA StunInvStep == StunInv /\ [Next]_vars => StunInv'
<1> SUFFICES ASSUME StunInv, [Next]_vars PROVE StunInv'
  OBVIOUS
<1>1. ASSUME UNCHANGED svars PROVE StunInv'
  BY <1>1 DEF svars, StunInv, S!TaskOwned
<1>2. CASE KeeperSegment
  BY <1>1, <1>2, RunKeepsStun
     DEF KeeperSegment, Attempt, KeeperAlone, KeepMapping, SessionBegins,
         SessionFailsAtOnce, CheckMapping, SessionOver, RunStun
<1>3. CASE StunSegment
  BY <1>3, StunSegmentKeepsStun
     DEF StunSegment, StunAlone, StunSucceeds, StunFails
<1>4. CASE ServerSegment \/ ClientSegment
  BY <1>1, <1>4 DEF ServerSegment, ForwarderStartFails, ForwarderAlone,
                    ClientSegment
<1>5. CASE StunTimer \/ StunEvent
  BY <1>5 DEF StunTimer, StunEvent, S!Timer, S!T!Timer, S!Event, S!Blocked,
              S!net, StunInv, S!TaskOwned
<1>6. CASE Network
  <2>1. ssocks' = ssocks /\ stask' = stask /\ spc' = spc
    BY <1>6 DEF Network, S!Arrive, S!Lost
  <2>2. sst' # "none" <=> sst # "none"
    BY <1>6 DEF Network, S!Arrive, S!Lost, S!Wakeup, S!Blocked
  <2>3. ssocks = 0 => inbox' = inbox
    BY <1>6 DEF Network, S!Arrive, S!Lost
  <2> QED BY <2>1, <2>2, <2>3 DEF StunInv, S!TaskOwned
<1>7. CASE KeeperTimer \/ KeeperResolver \/ ForwarderEvent \/ UNCHANGED vars
  BY <1>1, <1>7 DEF KeeperTimer, KeeperResolver, ForwarderEvent, vars
<1> QED BY <1>2, <1>3, <1>4, <1>5, <1>6, <1>7 DEF Next, Event

(* Static task, the STUN task and its socket come and go together, however *)
(* sessions and STUN exchanges overlap.                                    *)
THEOREM UdpStunTaskOwned == SafetySpec => []StunTaskOwned
<1>1. StunInv => StunTaskOwned
  BY DEF StunInv, StunTaskOwned
<1> QED BY <1>1, StunInvInit, StunInvStep, PTL DEF SafetySpec

-----------------------------------------------------------------------------
(***************************************************************************)
(* Sessions and their STUN client.                                         *)
(***************************************************************************)

(* The inductive invariant.  A keeper without a status could not be woken  *)
(* up by hev_xnsk_kill.                                                    *)
ServesInv == kst \in TaskStatus \ {"none"} /\ StunServesSession

LEMMA ServesInvInit == Init => ServesInv
BY DEF Init, K!Init, ServesInv, StunServesSession, K!InSession,
       TaskStatus, Blocked, Ready

(* hev_xnsk_kill, when the STUN client ends or the forwarder cannot start. *)
LEMMA KillKeepsServes ==
  ASSUME ServesInv, K!Kill
  PROVE  ServesInv'
BY DEF ServesInv, StunServesSession, K!InSession, K!Kill, K!Wakeup, K!Blocked,
       TaskStatus, Blocked, Ready

(* Segments of the keeper: a session begins with a STUN task, and the      *)
(* keeper sleeps again only if it was not killed.                          *)
LEMMA KeeperSegmentKeepsServes ==
  ASSUME ServesInv, KeeperSegment
  PROVE  ServesInv'
<1> USE DEF ServesInv, StunServesSession, K!InSession, TaskStatus, Blocked,
        Ready
<1>1. CASE Attempt
  BY <1>1 DEF Attempt, K!Begin
<1>2. CASE KeeperAlone
  BY <1>2 DEF KeeperAlone, svars, K!DnsAgain, K!BaseFails, K!SendAgain
<1>3. CASE KeepMapping
  <2>1. kpc = "keep" /\ UNCHANGED <<timeout, stask>>
    BY <1>3 DEF KeepMapping, svars, K!Sends, K!IntervalOver
  <2>2. CASE K!Sleeps(n + 1)
    BY <2>1, <2>2 DEF K!Sleeps
  <2>3. CASE K!SendWaits(n + 1)
    BY <2>1, <2>3 DEF K!SendWaits
  <2> QED BY <1>3, <2>2, <2>3 DEF KeepMapping, K!Sends
<1>4. CASE SessionBegins
  <2>1. stask'
    BY <1>4 DEF SessionBegins, RunStun, S!Run, S!T!Run
  <2>2. kst' \in {"sleep", "wait"}
    BY <1>4 DEF SessionBegins, K!Established, K!EstablishedWaits, K!Sleeps,
                K!SendWaits
  <2> QED BY <2>1, <2>2
<1>5. CASE CheckMapping
  <2>1. stask'
    BY <1>5 DEF CheckMapping, RunStun, S!Run, S!T!Run
  <2>2. kst' = "sleep"
    BY <1>5 DEF CheckMapping, K!Checks, K!Sleeps
  <2> QED BY <2>1, <2>2
<1>6. CASE SessionFailsAtOnce \/ SessionOver
  BY <1>6 DEF SessionFailsAtOnce, SessionOver, K!EstablishedEnds,
              K!ChecksAndEnds, K!KeepAliveEnds, K!SessionEnds
<1> QED BY <1>1, <1>2, <1>3, <1>4, <1>5, <1>6 DEF KeeperSegment

LEMMA ServesInvStep == ServesInv /\ [Next]_vars => ServesInv'
<1> SUFFICES ASSUME ServesInv, [Next]_vars PROVE ServesInv'
  OBVIOUS
<1>1. ASSUME UNCHANGED kvars, stask => stask' PROVE ServesInv'
  BY <1>1 DEF kvars, ServesInv, StunServesSession, K!InSession
<1>2. CASE KeeperSegment
  BY <1>2, KeeperSegmentKeepsServes
<1>3. CASE StunAlone \/ StunSucceeds
  BY <1>1, <1>3 DEF StunAlone, StunSucceeds, S!Lookup, S!T!Lookup,
                    S!T!DnsAgain, S!Ask, S!RecvAgain, S!Succeed
<1>4. CASE StunFails \/ ForwarderStartFails
  BY <1>4, KillKeepsServes DEF StunFails, ForwarderStartFails
<1>5. CASE ForwarderAlone \/ ClientSegment \/ ForwarderEvent \/ UNCHANGED vars
  BY <1>1, <1>5 DEF ForwarderAlone, ClientSegment, ForwarderEvent, vars, svars
<1>6. CASE KeeperTimer
  BY <1>6 DEF KeeperTimer, K!Timer, svars, ServesInv, StunServesSession,
              K!InSession, TaskStatus, Blocked, Ready
<1>7. CASE KeeperResolver
  BY <1>7 DEF KeeperResolver, K!Io, ServesInv, StunServesSession,
              K!InSession, TaskStatus, Blocked, Ready
<1>8. CASE StunTimer \/ StunEvent \/ Network
  BY <1>1, <1>8 DEF StunTimer, StunEvent, Network, S!Timer, S!T!Timer,
                    S!Event, S!Arrive, S!Lost
<1> QED BY <1>2, <1>3, <1>4, <1>5, <1>6, <1>7, <1>8
        DEF Next, StunSegment, ServerSegment, Event

(* A session whose STUN client has ended has been killed, and does not     *)
(* sleep through an interval.                                              *)
THEOREM SessionsAreServed == SafetySpec => []StunServesSession
<1>1. ServesInv => StunServesSession
  BY DEF ServesInv
<1> QED BY <1>1, ServesInvInit, ServesInvStep, PTL DEF SafetySpec

-----------------------------------------------------------------------------
(***************************************************************************)
(* The check of the mapping.                                               *)
(***************************************************************************)

(* The inductive invariant: n, the code's count, is never behind the real  *)
(* number of intervals without a check.                                    *)
CountInv ==
  /\ n \in Nat
  /\ unchecked \in Nat
  /\ unchecked <= n
  /\ unchecked < Cycle

LEMMA CountInvInit == Init => CountInv
BY CycleIsPositive DEF Init, K!Init, CountInv

(* Segments of the keeper: only KeepMapping lets an interval pass, and it  *)
(* counts it.                                                              *)
LEMMA KeeperSegmentKeepsCount ==
  ASSUME CountInv, KeeperSegment
  PROVE  CountInv'
<1> USE CycleIsPositive DEF CountInv
<1>1. CASE Attempt \/ KeeperAlone
  BY <1>1 DEF Attempt, KeeperAlone, hvars, K!Begin, K!DnsAgain, K!BaseFails,
              K!SendAgain
<1>2. CASE KeepMapping
  <2>1. unchecked' = unchecked + 1
    BY <1>2 DEF KeepMapping
  <2>2. n + 1 < Cycle
    BY <1>2 DEF KeepMapping, K!Sends, K!MustCheck
  <2>3. n' = n + 1
    BY <1>2 DEF KeepMapping, K!Sends, K!Sleeps, K!SendWaits
  <2> QED BY <2>1, <2>2, <2>3
<1>3. CASE SessionBegins
  <2>1. unchecked' = 0
    BY <1>3 DEF SessionBegins, RunStun
  <2>2. n' \in {0, 1}
    BY <1>3 DEF SessionBegins, K!Established, K!EstablishedWaits, K!Sleeps,
                K!SendWaits
  <2> QED BY <2>1, <2>2
<1>4. CASE CheckMapping
  BY <1>4 DEF CheckMapping, RunStun, K!Checks, K!Sleeps
<1>5. CASE SessionFailsAtOnce
  BY <1>5 DEF SessionFailsAtOnce, RunStun, K!EstablishedEnds, K!SessionEnds
<1>6. CASE SessionOver
  BY <1>6 DEF SessionOver, K!ChecksAndEnds, K!KeepAliveEnds, K!SessionEnds
<1> QED BY <1>1, <1>2, <1>3, <1>4, <1>5, <1>6 DEF KeeperSegment

LEMMA CountInvStep == CountInv /\ [Next]_vars => CountInv'
<1> SUFFICES ASSUME CountInv, [Next]_vars PROVE CountInv'
  OBVIOUS
<1>1. ASSUME UNCHANGED <<n, unchecked>> PROVE CountInv'
  BY <1>1 DEF CountInv
<1>2. CASE KeeperSegment
  BY <1>2, KeeperSegmentKeepsCount
<1>3. CASE StunSegment
  BY <1>1, <1>3 DEF StunSegment, StunAlone, StunSucceeds, StunFails, kvars,
                    hvars, K!Kill
<1>4. CASE ServerSegment \/ ClientSegment
  BY <1>1, <1>4 DEF ServerSegment, ForwarderStartFails, ForwarderAlone,
                    ClientSegment, kvars, hvars, K!Kill
<1>5. CASE Event
  BY <1>1, <1>5 DEF Event, KeeperTimer, KeeperResolver, StunTimer, StunEvent,
                    Network, ForwarderEvent, kvars, hvars, K!Timer, K!Io
<1>6. CASE UNCHANGED vars
  BY <1>1, <1>6 DEF vars, kvars, hvars
<1> QED BY <1>2, <1>3, <1>4, <1>5, <1>6 DEF Next

(* An interval that goes by without a check is one in which hev_ufwd_fd    *)
(* has a socket.                                                           *)
LEMMA OnlyKeptPasses ==
  ASSUME CountInv, [Next]_vars
  PROVE  [unchecked' > unchecked => hev_ufwd_fd]_vars
<1>1. SUFFICES ASSUME unchecked' > unchecked PROVE hev_ufwd_fd
  OBVIOUS
<1>2. unchecked \in Nat
  BY DEF CountInv
<1>3. unchecked' # unchecked /\ unchecked' # 0
  BY <1>1, <1>2
<1>4. CASE KeeperSegment
  <2>1. CASE KeepMapping
    BY <2>1 DEF KeepMapping, K!Sends, K!MustCheck
  <2> QED BY <1>3, <1>4, <2>1
          DEF KeeperSegment, Attempt, KeeperAlone, SessionBegins,
              SessionFailsAtOnce, CheckMapping, SessionOver, RunStun, hvars
<1>5. CASE StunSegment
  BY <1>3, <1>5 DEF StunSegment, StunAlone, StunSucceeds, StunFails, hvars
<1>6. CASE ServerSegment \/ ClientSegment
  BY <1>3, <1>6 DEF ServerSegment, ForwarderStartFails, ForwarderAlone,
                    ClientSegment, hvars
<1>7. CASE Event
  BY <1>3, <1>7 DEF Event, KeeperTimer, KeeperResolver, StunTimer, StunEvent,
                    Network, ForwarderEvent, hvars
<1>8. CASE UNCHANGED vars
  BY <1>3, <1>8 DEF vars, hvars
<1> QED BY <1>4, <1>5, <1>6, <1>7, <1>8 DEF Next

(* Whatever the forwarder does and whenever hev_ufwd_fd is asked, fewer    *)
(* than Cycle intervals go by without a check, and none while the          *)
(* forwarder is gone.                                                      *)
THEOREM MappingChecked == SafetySpec => CheckedEveryCycle
<1>1. CountInv => unchecked < Cycle
  BY DEF CountInv
<1>2. CountInv /\ [Next]_vars => [unchecked' > unchecked => hev_ufwd_fd]_vars
  BY OnlyKeptPasses
<1> QED BY <1>1, <1>2, CountInvInit, CountInvStep, PTL
        DEF SafetySpec, CheckedEveryCycle

-----------------------------------------------------------------------------
(***************************************************************************)
(* The port of the target.                                                 *)
(***************************************************************************)

(* The inductive invariant: an answer that is no news finds the port of an *)
(* earlier one in place.                                                   *)
DialInv == (pmport # Zero => mport # NoAddr) /\ DialPortKnown

LEMMA DialInvInit == Init => DialInv
BY DEF Init, N!Init, U!Init, DialInv, DialPortKnown

(* After an answer the port is known, news or not.                         *)
LEMMA AnswerStoresPort ==
  ASSUME DialInv, StunSucceeds
  PROVE  mport' # NoAddr
<1>1. PICK mp \in PublicPorts : N!Report(PublicAddr, mp, LocalAddr, sbound)
  BY DEF StunSucceeds
<1>2. mp # NoAddr /\ mp # Zero
  BY NatmapUdpAssumption, Zenon DEF NatmapUdpAssumption
<1>3. CASE N!Changed(PublicAddr, mp, LocalAddr, sbound)
  BY <1>1, <1>2, <1>3 DEF N!Report, N!StorePort
<1>4. CASE ~N!Changed(PublicAddr, mp, LocalAddr, sbound)
  BY <1>1, <1>2, <1>4 DEF N!Report, N!Changed, DialInv
<1> QED BY <1>3, <1>4

(* The forwarder does not come to be by its own segments.                  *)
LEMMA ForwarderStaysAway ==
  ASSUME ForwarderStartFails \/ ForwarderAlone
  PROVE  upc # "none"
BY DEF ForwarderStartFails, ForwarderAlone, U!StartFails, U!Quit, U!DnsAgain,
       U!Start, U!Receive, U!SessionFails, U!SessionNew, U!SendAgain, U!At

LEMMA DialInvStep == DialInv /\ [Next]_vars => DialInv'
<1> SUFFICES ASSUME DialInv, [Next]_vars PROVE DialInv'
  OBVIOUS
<1>1. ASSUME UNCHANGED <<pmport, mport>>, upc' # "none" => upc # "none"
      PROVE  DialInv'
  BY <1>1 DEF DialInv, DialPortKnown
<1>2. CASE KeeperSegment
  <2>1. UNCHANGED nvars
    BY <1>2 DEF KeeperSegment, Attempt, KeeperAlone, KeepMapping,
                SessionBegins, SessionFailsAtOnce, CheckMapping, SessionOver
  <2>2. upc' = upc
    BY <1>2 DEF KeeperSegment, Attempt, KeeperAlone, KeepMapping,
                SessionBegins, SessionFailsAtOnce, CheckMapping, SessionOver,
                StopForwarder, U!Kill, uvars
  <2> QED BY <1>1, <2>1, <2>2 DEF nvars
<1>3. CASE StunSucceeds
  BY <1>3, AnswerStoresPort DEF DialInv, DialPortKnown
<1>4. CASE StunAlone \/ StunFails
  BY <1>1, <1>4 DEF StunAlone, StunFails, uvars, nvars
<1>5. CASE ServerSegment
  BY <1>1, <1>5, ForwarderStaysAway
     DEF ServerSegment, ForwarderStartFails, ForwarderAlone, nvars
<1>6. CASE ClientSegment
  <2>1. UNCHANGED upc
    BY <1>6 DEF ClientSegment, U!ClientSegment, U!ClientStarts, U!ClientAgain,
                U!ClientAnswers, U!ClientSendsAgain, U!ClientFails,
                U!ClientTimesOut, U!server
  <2> QED BY <1>1, <1>6, <2>1 DEF ClientSegment, nvars
<1>7. CASE Event
  BY <1>1, <1>7 DEF Event, KeeperTimer, KeeperResolver, StunTimer, StunEvent,
                    Network, ForwarderEvent, uvars, nvars, U!Incoming,
                    U!ClientIo, U!ClientTimer, U!server
<1>8. CASE UNCHANGED vars
  BY <1>1, <1>8 DEF vars, uvars, nvars
<1> QED BY <1>2, <1>3, <1>4, <1>5, <1>6, <1>7, <1>8 DEF Next, StunSegment

(* A server that can meet a new peer knows the port of a mapping.          *)
THEOREM ForwarderKnowsPort == SafetySpec => []DialPortKnown
<1>1. DialInv => DialPortKnown
  BY DEF DialInv
<1> QED BY <1>1, DialInvInit, DialInvStep, PTL DEF SafetySpec

-----------------------------------------------------------------------------
(***************************************************************************)
(* The components in the composition, as in TCP mode.  NATMap calls the    *)
(* forwarder and the notification as they expect to be called, so that     *)
(* what is proved of each of them alone holds here.                        *)
(***************************************************************************)
UP == INSTANCE UfwdProofs WITH SendBlocks <- PeersBlock
NP == INSTANCE NotifyProofs WITH PublicAddrs <- {PublicAddr},
                                 NoPort <- NoAddr,
                                 LocalAddrs <- {LocalAddr},
                                 LocalPorts <- Addrs

(* The constants are what the components assume of them.                   *)
LEMMA ForwarderAssumption == UP!UfwdAssumption
BY NatmapUdpAssumption DEF NatmapUdpAssumption, UP!UfwdAssumption

LEMMA NotificationAssumption == NP!NotifyAssumption
BY NatmapUdpAssumption DEF NatmapUdpAssumption, NP!NotifyAssumption

LEMMA PortRange == First \in Nat /\ Last \in Nat /\ First <= Last
BY NatmapUdpAssumption, Zenon DEF NatmapUdpAssumption

LEMMA PortValues ==
  NoAddr \notin First .. Last /\ First .. Last \subseteq Addrs \cup {0}
<1>1. First .. Last \subseteq Nat
  BY PortRange
<1>2. NoAddr \notin Nat /\ First .. Last \subseteq Addrs \cup {0}
  BY NatmapUdpAssumption, Zenon DEF NatmapUdpAssumption
<1> QED BY <1>1, <1>2, Zenon

-----------------------------------------------------------------------------
(* In a sequential range the port to be taken next follows the present     *)
(* one.                                                                    *)
Follows == bport2 = IF port = Last THEN First ELSE port + 1

(* The inductive invariant for the ports, as in TCP mode.                  *)
PortInv ==
  /\ Separator = "-" => brand = FALSE
  /\ port \in First .. Last \cup {NoAddr}
  /\ bport2 \in First .. Last
  /\ brand = FALSE /\ port # NoAddr => Follows

LEMMA PortInvInit == Init => PortInv
<1> SUFFICES ASSUME Init PROVE PortInv
  OBVIOUS
<1>1. port = NoAddr /\ bport2 = First
  BY DEF Init, C!Init
<1>2. Separator = "-" => brand = FALSE
  BY DEF Init, C!Init
<1>3. bport2 \in First .. Last
  BY <1>1, PortRange
<1> QED BY <1>1, <1>2, <1>3, Zenon DEF PortInv

(* hev_conf_bport leaves a port of the range, and keeps the order.         *)
LEMMA BportInOrder ==
  ASSUME PortInv, NEW next, C!Bport(next)
  PROVE  /\ PortInv' /\ port' # NoAddr
         /\ port' = port \/ port = NoAddr \/ next
         /\ Separator = "-" /\ port # NoAddr => port' \in {port, bport2}
<1>1. CASE C!PickRandom /\ (port = NoAddr \/ next)
  BY <1>1, PortValues DEF C!PickRandom, C!Range, PortInv
<1>2. CASE C!PickNext /\ (port = NoAddr \/ next)
  <2>1. /\ brand = FALSE /\ brand' = brand /\ port' = bport2
        /\ bport2' = IF bport2 + 1 > Last THEN First ELSE bport2 + 1
    BY <1>2 DEF C!PickNext
  <2>2. bport2 \in First .. Last
    BY DEF PortInv
  <2>3. Follows' /\ bport2' \in First .. Last
    BY <2>1, <2>2, PortRange DEF Follows
  <2> QED BY <1>2, <2>1, <2>2, <2>3, PortValues DEF PortInv
<1>3. CASE port # NoAddr /\ UNCHANGED pvars
  BY <1>3 DEF pvars, PortInv, Follows
<1> QED BY <1>1, <1>2, <1>3 DEF C!Bport, C!pvars, pvars

(* Only the start of an attempt asks for a port.                           *)
LEMMA OnlyAttemptsPick ==
  [Next]_vars => UNCHANGED pvars \/ C!Bport(port_next)
<1> SUFFICES ASSUME [Next]_vars PROVE UNCHANGED pvars \/ C!Bport(port_next)
  OBVIOUS
<1>1. CASE KeeperSegment
  BY <1>1 DEF KeeperSegment, Attempt, KeeperAlone, KeepMapping, SessionBegins,
              SessionFailsAtOnce, CheckMapping, SessionOver, ovars
<1>2. CASE StunSegment
  BY <1>2 DEF StunSegment, StunAlone, StunSucceeds, StunFails, ovars
<1>3. CASE ServerSegment \/ ClientSegment
  BY <1>3 DEF ServerSegment, ForwarderStartFails, ForwarderAlone,
              ClientSegment, ovars
<1>4. CASE Event
  BY <1>4 DEF Event, KeeperTimer, KeeperResolver, StunTimer, StunEvent,
              Network, ForwarderEvent, ovars
<1>5. CASE UNCHANGED vars
  BY <1>5 DEF vars, ovars
<1> QED BY <1>1, <1>2, <1>3, <1>4, <1>5 DEF Next

LEMMA PortInvStep == PortInv /\ [Next]_vars => PortInv'
<1>1. PortInv /\ UNCHANGED pvars => PortInv'
  BY DEF pvars, PortInv, Follows
<1> QED BY <1>1, OnlyAttemptsPick, BportInOrder

(* In UDP mode, too, the keeper leaves a port only after an attempt failed *)
(* and walks a sequential range in order.                                  *)
THEOREM UdpPortsInOrder ==
  SafetySpec =>
    [][port' # port /\ port # NoAddr =>
         /\ port_next
         /\ Separator = "-" =>
              port' = IF port = Last THEN First ELSE port + 1]_vars
<1> DEFINE InOrder ==
      port' # port /\ port # NoAddr =>
        /\ port_next
        /\ Separator = "-" => port' = IF port = Last THEN First ELSE port + 1
<1>1. PortInv /\ [Next]_vars => InOrder
  <2> SUFFICES ASSUME PortInv, [Next]_vars, port' # port, port # NoAddr
               PROVE  /\ port_next
                      /\ Separator = "-" =>
                           port' = IF port = Last THEN First ELSE port + 1
    OBVIOUS
  <2>1. C!Bport(port_next)
    BY OnlyAttemptsPick DEF pvars
  <2>2. port_next
    BY <2>1, BportInOrder
  <2>3. Separator = "-" => port' = bport2
    BY <2>1, BportInOrder
  <2>4. Separator = "-" => Follows
    BY DEF PortInv
  <2> QED BY <2>2, <2>3, <2>4 DEF Follows
<1> QED BY <1>1, PortInvInit, PortInvStep, PTL DEF SafetySpec

-----------------------------------------------------------------------------
(* Static saddr is read by the STUN task when it first asks, and by the    *)
(* server when it starts: it is an address by then.  A session is what     *)
(* runs the STUN client, and an answer what runs the server.               *)
AddressKnown ==
  /\ saddr \in Addrs \cup {NoAddr}
  /\ K!InSession \/ spc # "none" \/ upc # "none" => saddr \in Addrs
  /\ spc \in {"send", "recv", "idle"} => sbound \in Addrs
  /\ kpc # "new" => port # NoAddr

(* The inductive invariant for what is handed from one component to        *)
(* another.                                                                *)
LinkInv == PortInv /\ StunInv /\ AddressKnown

LEMMA LinkInvInit == Init => LinkInv
<1> SUFFICES ASSUME Init PROVE LinkInv
  OBVIOUS
<1>1. AddressKnown
  BY DEF Init, AddressKnown, K!Init, K!InSession, S!Init, S!T!Init, U!Init
<1> QED BY <1>1, PortInvInit, StunInvInit DEF LinkInv

(* What hev_sock_client_base binds to is an address.                       *)
LEMMA SessionAddress ==
  ASSUME LinkInv, SessionBegins \/ SessionFailsAtOnce
  PROVE  /\ saddr' \in Addrs
         /\ port # NoAddr
<1>1. PICK a \in Bindable : K!BaseSucceeds(a)
  BY DEF SessionBegins, SessionFailsAtOnce, K!Established,
         K!EstablishedWaits, K!EstablishedEnds
<1>2. kpc # "new" /\ saddr' = a
  BY <1>1 DEF K!BaseSucceeds
<1>3. port # NoAddr
  BY <1>2 DEF LinkInv, AddressKnown
<1>4. port \in Addrs \cup {0}
  BY <1>3, PortValues, Zenon DEF LinkInv, PortInv
<1> QED BY <1>1, <1>2, <1>3, <1>4 DEF Bindable

LEMMA KeeperSegmentKeepsLink ==
  ASSUME LinkInv, KeeperSegment
  PROVE  AddressKnown'
<1> USE DEF LinkInv, AddressKnown, K!InSession
<1>0. S!Run => sbound' = sbound /\ (spc' = spc \/ spc' = "new")
  BY DEF S!Run, S!T!Run
<1>1. CASE Attempt
  <2>1. port' # NoAddr
    BY <1>1, BportInOrder DEF Attempt
  <2> QED BY <1>1, <2>1 DEF Attempt, K!Begin, svars, uvars
<1>2. CASE KeeperAlone
  BY <1>2 DEF KeeperAlone, svars, uvars, ovars, pvars, K!DnsAgain,
              K!BaseFails, K!SendAgain
<1>3. CASE KeepMapping
  <2>1. kpc = "keep" /\ UNCHANGED saddr
    BY <1>3 DEF KeepMapping, K!Sends, K!IntervalOver
  <2> QED BY <1>3, <2>1 DEF KeepMapping, svars, uvars, ovars, pvars
<1>4. CASE SessionBegins \/ SessionFailsAtOnce
  <2>1. saddr' \in Addrs /\ port' # NoAddr
    BY <1>4, SessionAddress DEF SessionBegins, SessionFailsAtOnce, ovars, pvars
  <2> QED BY <1>0, <1>4, <2>1 DEF SessionBegins, SessionFailsAtOnce, RunStun
<1>5. CASE CheckMapping \/ SessionOver
  <2>1. kpc \in {"keep", "send"} /\ UNCHANGED <<saddr, port>>
    BY <1>5 DEF CheckMapping, SessionOver, K!Checks, K!ChecksAndEnds,
                K!KeepAliveEnds, K!InSession, K!IntervalOver, ovars, pvars
  <2>2. S!Run \/ UNCHANGED svars
    BY <1>5 DEF CheckMapping, SessionOver, RunStun
  <2> QED BY <1>0, <2>1, <2>2 DEF svars
<1> QED BY <1>1, <1>2, <1>3, <1>4, <1>5 DEF KeeperSegment

(* An answer waits in a socket only, so that a task whose address is being *)
(* looked up does not succeed.                                             *)
LEMMA SuccessHasAddress ==
  ASSUME LinkInv, S!Succeed
  PROVE  spc # "none" /\ sbound \in Addrs
<1>1. spc \in {"dns", "idle", "send", "recv"} /\ inbox # 0
  BY DEF S!Succeed, S!NextTry
<1>2. spc # "dns"
  BY <1>1 DEF LinkInv, StunInv, S!TaskOwned
<1> QED BY <1>1, <1>2 DEF LinkInv, AddressKnown

LEMMA StunSegmentKeepsLink ==
  ASSUME LinkInv, StunSegment
  PROVE  AddressKnown'
<1> USE DEF LinkInv, AddressKnown, K!InSession
<1>1. UNCHANGED <<saddr, port, kpc>>
  BY DEF StunSegment, StunAlone, StunSucceeds, StunFails, kvars, ovars, pvars,
         K!Kill
<1>2. spc # "none"
  BY SuccessHasAddress
     DEF StunSegment, StunAlone, StunSucceeds, StunFails, S!Lookup, S!T!Lookup,
         S!T!DnsAgain, S!Ask, S!NextTry, S!RecvAgain, S!Fail
<1>3. spc' \in {"send", "recv", "idle"} => sbound' \in Addrs
  <2>1. CASE S!Ask(saddr)
    <3>1. spc \in {"dns", "idle", "send", "recv"}
      BY <2>1 DEF S!Ask, S!NextTry
    <3> QED BY <1>2, <2>1, <3>1 DEF S!Ask, S!Bound
  <2>2. CASE S!Lookup \/ S!RecvAgain \/ S!Fail
    BY <2>2 DEF S!Lookup, S!T!Lookup, S!T!DnsAgain, S!RecvAgain, S!Fail,
                S!T!Exit
  <2>3. CASE S!Succeed
    BY <2>3, SuccessHasAddress DEF S!Succeed
  <2> QED BY <2>1, <2>2, <2>3
          DEF StunSegment, StunAlone, StunSucceeds, StunFails
<1> QED BY <1>1, <1>2, <1>3

LEMMA AddressKnownStep ==
  ASSUME LinkInv, [Next]_vars
  PROVE  AddressKnown'
<1>1. ASSUME UNCHANGED <<saddr, port, kpc, spc, sbound>>,
             upc' = upc \/ upc # "none"
      PROVE  AddressKnown'
  BY <1>1 DEF LinkInv, AddressKnown, K!InSession
<1>2. CASE KeeperSegment
  BY <1>2, KeeperSegmentKeepsLink
<1>3. CASE StunSegment
  BY <1>3, StunSegmentKeepsLink
<1>4. CASE ServerSegment
  <2>1. UNCHANGED <<saddr, port, kpc, spc, sbound>>
    BY <1>4 DEF ServerSegment, ForwarderStartFails, ForwarderAlone, kvars,
                svars, ovars, pvars, K!Kill
  <2> QED BY <1>1, <1>4, <2>1, ForwarderStaysAway DEF ServerSegment
<1>5. CASE ClientSegment
  <2>1. UNCHANGED upc
    BY <1>5 DEF ClientSegment, U!ClientSegment, U!ClientStarts, U!ClientAgain,
                U!ClientAnswers, U!ClientSendsAgain, U!ClientFails,
                U!ClientTimesOut, U!server
  <2> QED BY <1>1, <1>5, <2>1 DEF ClientSegment, kvars, svars, ovars, pvars
<1>6. CASE Event
  BY <1>1, <1>6
     DEF Event, KeeperTimer, KeeperResolver, StunTimer, StunEvent, Network,
         ForwarderEvent, kvars, svars, uvars, ovars, pvars, K!Io, K!Timer,
         S!Timer, S!T!Timer, S!Event, S!Arrive, S!Lost, U!Incoming,
         U!ClientIo, U!ClientTimer, U!server
<1>7. CASE UNCHANGED vars
  BY <1>1, <1>7 DEF vars, kvars, svars, uvars, ovars, pvars
<1> QED BY <1>2, <1>3, <1>4, <1>5, <1>6, <1>7 DEF Next

LEMMA LinkInvStep == LinkInv /\ [Next]_vars => LinkInv'
BY PortInvStep, StunInvStep, AddressKnownStep DEF LinkInv

LEMMA LinkInvariant == SafetySpec => []LinkInv
BY LinkInvInit, LinkInvStep, PTL DEF SafetySpec

-----------------------------------------------------------------------------
(***************************************************************************)
(* With one port given, the socket that the STUN task keeps from session   *)
(* to session has the port of each of them.                                *)
(***************************************************************************)

(* The inductive invariant for it.                                         *)
OnePortInv ==
  /\ saddr \in {First, NoAddr}
  /\ spc \in {"send", "recv", "idle"} => sbound = First
  /\ learned => saddr = First /\ answer.bport = First

LEMMA OnePortInvInit == Init => OnePortInv
BY DEF Init, OnePortInv, K!Init, S!Init, S!T!Init

LEMMA OnePortInvStep ==
  ASSUME First = Last, First # 0
  PROVE  LinkInv /\ OnePortInv /\ [Next]_vars => OnePortInv'
<1> SUFFICES ASSUME LinkInv, OnePortInv, [Next]_vars PROVE OnePortInv'
  OBVIOUS
<1>1. ASSUME UNCHANGED <<saddr, sbound, learned, answer>>,
             spc' = spc \/ spc' = "new"
      PROVE  OnePortInv'
  BY <1>1 DEF OnePortInv
<1>2. port # NoAddr => Bindable = {First}
  BY PortRange DEF LinkInv, PortInv, Bindable
<1>3. S!Run => sbound' = sbound /\ (spc' = spc \/ spc' = "new")
  BY DEF S!Run, S!T!Run
<1>4. CASE Attempt \/ KeeperAlone \/ KeepMapping \/ CheckMapping \/ SessionOver
  <2>1. UNCHANGED <<saddr, learned, answer>>
    BY <1>4 DEF Attempt, KeeperAlone, KeepMapping, CheckMapping, SessionOver,
                nvars, hvars, K!Begin, K!DnsAgain, K!BaseFails, K!SendAgain,
                K!Sends, K!Checks, K!ChecksAndEnds, K!KeepAliveEnds,
                K!IntervalOver
  <2>2. S!Run \/ UNCHANGED svars
    BY <1>4 DEF Attempt, KeeperAlone, KeepMapping, CheckMapping, SessionOver,
                RunStun
  <2> QED BY <1>1, <1>3, <2>1, <2>2 DEF svars
<1>5. CASE SessionBegins \/ SessionFailsAtOnce
  <2>1. saddr' = First
    <3>1. \E a \in Bindable : K!BaseSucceeds(a)
      BY <1>5 DEF SessionBegins, SessionFailsAtOnce, K!Established,
                  K!EstablishedWaits, K!EstablishedEnds
    <3>2. port # NoAddr
      BY <1>5, SessionAddress
    <3> QED BY <1>2, <3>1, <3>2 DEF K!BaseSucceeds
  <2>2. learned' = FALSE /\ S!Run
    BY <1>5 DEF SessionBegins, SessionFailsAtOnce, RunStun
  <2> QED BY <1>3, <2>1, <2>2 DEF OnePortInv
<1>6. CASE StunSegment
  <2>1. UNCHANGED saddr
    BY <1>6 DEF StunSegment, StunAlone, StunSucceeds, StunFails, kvars, K!Kill
  <2>2. saddr = First
    <3>1. spc # "none"
      BY <1>6, SuccessHasAddress
         DEF StunSegment, StunAlone, StunSucceeds, StunFails, S!Lookup,
             S!T!Lookup, S!T!DnsAgain, S!Ask, S!NextTry, S!RecvAgain, S!Fail
    <3>2. NoAddr \notin Addrs
      BY NatmapUdpAssumption
    <3> QED BY <3>1, <3>2 DEF LinkInv, AddressKnown, OnePortInv
  <2>3. CASE StunSucceeds
    <3>1. sbound = First
      <4>1. spc \in {"dns", "idle", "send", "recv"} /\ inbox # 0
        BY <2>3 DEF StunSucceeds, S!Succeed, S!NextTry
      <4>2. spc # "dns"
        BY <4>1 DEF LinkInv, StunInv, S!TaskOwned
      <4> QED BY <4>1, <4>2 DEF OnePortInv
    <3>2. answer'.bport = First /\ UNCHANGED sbound
      BY <2>3, <3>1 DEF StunSucceeds, S!Succeed, N!Report, N!Mapping
    <3> QED BY <2>1, <2>2, <3>1, <3>2 DEF OnePortInv
  <2>4. CASE StunAlone \/ StunFails
    <3>1. UNCHANGED <<learned, answer>>
      BY <2>4 DEF StunAlone, StunFails, hvars, nvars
    <3>2. spc' \in {"send", "recv", "idle"} => sbound' = First
      <4>1. CASE S!Ask(saddr)
        <5>1. spc \in {"dns", "idle", "send", "recv"}
          BY <4>1 DEF S!Ask, S!NextTry
        <5> QED BY <2>2, <4>1, <5>1 DEF S!Ask, S!Bound, OnePortInv
      <4>2. CASE S!Lookup \/ S!RecvAgain \/ S!Fail
        BY <4>2 DEF S!Lookup, S!T!Lookup, S!T!DnsAgain, S!RecvAgain, S!Fail,
                    S!T!Exit, OnePortInv
      <4> QED BY <2>4, <4>1, <4>2 DEF StunAlone, StunFails
    <3> QED BY <2>1, <2>2, <3>1, <3>2 DEF OnePortInv
  <2> QED BY <1>6, <2>3, <2>4 DEF StunSegment
<1>7. CASE ServerSegment \/ ClientSegment
  BY <1>1, <1>7
     DEF ServerSegment, ForwarderStartFails, ForwarderAlone, ClientSegment,
         kvars, svars, nvars, hvars, K!Kill
<1>8. CASE Event
  BY <1>1, <1>8
     DEF Event, KeeperTimer, KeeperResolver, StunTimer, StunEvent, Network,
         ForwarderEvent, kvars, svars, nvars, hvars, K!Io, K!Timer, S!Timer,
         S!T!Timer, S!Event, S!Arrive, S!Lost
<1>9. CASE UNCHANGED vars
  BY <1>1, <1>9 DEF vars, kvars, svars, nvars, hvars
<1> QED BY <1>4, <1>5, <1>6, <1>7, <1>8, <1>9 DEF Next, KeeperSegment

(* With -b and a single port the mapping learned in a session is one of    *)
(* the session's port, as in TCP mode ("Establish a connection with the    *)
(* STUN server from the same port", README.md:106).                        *)
THEOREM UdpOnePortStunFromSession ==
  ASSUME First = Last, First # 0
  PROVE  SafetySpec => [](learned /\ K!InSession => answer.bport = saddr)
<1>1. OnePortInv => (learned /\ K!InSession => answer.bport = saddr)
  BY DEF OnePortInv
<1>2. LinkInv /\ OnePortInv /\ [Next]_vars => OnePortInv'
  BY OnePortInvStep
<1> QED BY <1>1, <1>2, OnePortInvInit, LinkInvariant, PTL DEF SafetySpec

-----------------------------------------------------------------------------
(* The notification, with the address of a STUN socket, ...                *)
LEMMA NotifyStep == LinkInv /\ [Next]_vars => [N!Next]_nvars
<1> SUFFICES ASSUME LinkInv, [Next]_vars PROVE N!Next \/ UNCHANGED nvars
  OBVIOUS
<1>1. CASE StunSucceeds
  BY <1>1, SuccessHasAddress DEF StunSucceeds, N!Next
<1>2. CASE StunAlone \/ StunFails \/ KeeperSegment
  BY <1>2 DEF StunAlone, StunFails, KeeperSegment, Attempt, KeeperAlone,
              KeepMapping, SessionBegins, SessionFailsAtOnce, CheckMapping,
              SessionOver
<1>3. CASE ServerSegment \/ ClientSegment
  BY <1>3 DEF ServerSegment, ForwarderStartFails, ForwarderAlone,
              ClientSegment
<1>4. CASE Event
  BY <1>4 DEF Event, KeeperTimer, KeeperResolver, StunTimer, StunEvent,
              Network, ForwarderEvent
<1>5. CASE UNCHANGED vars
  BY <1>5 DEF vars
<1> QED BY <1>1, <1>2, <1>3, <1>4, <1>5 DEF Next, StunSegment

(* ... and the forwarder, with the address in saddr.                       *)
LEMMA ForwarderStep == LinkInv /\ [Next]_vars => [U!Next]_uvars
<1> SUFFICES ASSUME LinkInv, [Next]_vars PROVE U!Next \/ UNCHANGED uvars
  OBVIOUS
<1>1. CASE KeeperSegment
  BY <1>1 DEF KeeperSegment, Attempt, KeeperAlone, KeepMapping, SessionBegins,
              SessionFailsAtOnce, CheckMapping, SessionOver, StopForwarder,
              U!Next
<1>2. CASE StunSegment
  BY <1>2 DEF StunSegment, StunAlone, StunSucceeds, StunFails,
              StartForwarder, U!Next
<1>3. CASE ServerSegment
  <2>1. saddr \in Addrs
    BY <1>3, ForwarderStaysAway DEF ServerSegment, LinkInv, AddressKnown
  <2>2. U!ServerSegment
    BY <1>3, <2>1 DEF ServerSegment, ForwarderStartFails, ForwarderAlone,
                      U!ServerSegment
  <2> QED BY <2>2 DEF U!Next
<1>4. CASE ClientSegment
  BY <1>4 DEF ClientSegment, U!Next
<1>5. CASE Event
  BY <1>5 DEF Event, KeeperTimer, KeeperResolver, StunTimer, StunEvent,
              Network, ForwarderEvent, U!Next
<1>6. CASE UNCHANGED vars
  BY <1>6 DEF vars
<1> QED BY <1>1, <1>2, <1>3, <1>4, <1>5, <1>6 DEF Next

(* In UDP mode, too, NATMap implements them.                               *)
THEOREM UdpImplementsNotify == SafetySpec => N!Spec
<1>1. Init => N!Init
  BY DEF Init
<1>2. LinkInv /\ [Next]_vars => [N!Next]_(N!nvars)
  BY NotifyStep DEF nvars, N!nvars
<1> QED BY <1>1, <1>2, LinkInvariant, PTL DEF SafetySpec, N!Spec

THEOREM UdpImplementsForwarder == SafetySpec => U!Init /\ [][U!Next]_(U!uvars)
<1>1. Init => U!Init
  BY DEF Init
<1>2. LinkInv /\ [Next]_vars => [U!Next]_(U!uvars)
  BY ForwarderStep DEF uvars, U!uvars
<1> QED BY <1>1, <1>2, LinkInvariant, PTL DEF SafetySpec

-----------------------------------------------------------------------------
(* N and NP, U and UP are the same module with the same constants and      *)
(* variables.                                                              *)
LEMMA NotifyInstances ==
  /\ N!Init => NP!Init
  /\ [N!Next]_nvars => [NP!Next]_(NP!nvars)
  /\ NP!TypeOK => N!TypeOK
  /\ NP!DialsLatestPort => N!DialsLatestPort
  /\ NP!ToldLatest => N!ToldLatest
BY DEF nvars, NP!nvars, N!Init, NP!Init, N!Next, NP!Next, N!Report, NP!Report,
       N!Remember, NP!Remember, N!Changed, NP!Changed, N!Exec, NP!Exec,
       N!StorePort, NP!StorePort, N!Mapping, NP!Mapping, N!NoMapping,
       NP!NoMapping, N!Mappings, NP!Mappings, N!TypeOK, NP!TypeOK,
       N!DialsLatestPort, NP!DialsLatestPort, N!ToldLatest, NP!ToldLatest

LEMMA ForwarderInstances ==
  /\ U!Init => UP!Init
  /\ [U!Next]_uvars => [UP!Next]_(UP!uvars)
  /\ UP!TypeOK => U!TypeOK
  /\ UP!SessionsOwned => U!SessionsOwned
  /\ UP!LookupIsNew => U!LookupIsNew
  /\ UP!KillWakes => U!KillWakes
BY DEF uvars, UP!uvars, U!server, UP!server, U!clients, UP!clients, U!Init,
       UP!Init, U!Next, UP!Next, U!NewServer, UP!NewServer, U!Run, UP!Run,
       U!Kill, UP!Kill, U!At, UP!At, U!ServerWaits, UP!ServerWaits,
       U!ServerExit, UP!ServerExit, U!LookUp, UP!LookUp, U!Serve, UP!Serve,
       U!StartFails, UP!StartFails, U!Start, UP!Start, U!Quit, UP!Quit,
       U!Receive, UP!Receive, U!DnsAgain, UP!DnsAgain, U!SessionFails,
       UP!SessionFails, U!SessionNew, UP!SessionNew, U!SendAgain,
       UP!SendAgain, U!Incoming, UP!Incoming, U!ClientGone, UP!ClientGone,
       U!ClientEnds, UP!ClientEnds, U!ClientWaits, UP!ClientWaits,
       U!ClientLoop, UP!ClientLoop, U!ClientStarts, UP!ClientStarts,
       U!ClientAgain, UP!ClientAgain, U!ClientAnswers, UP!ClientAnswers,
       U!ClientSendsAgain, UP!ClientSendsAgain, U!ClientFails,
       UP!ClientFails, U!ClientTimesOut, UP!ClientTimesOut, U!ClientSegment,
       UP!ClientSegment, U!ClientIo, UP!ClientIo, U!ClientTimer,
       UP!ClientTimer, U!ServerSegment, UP!ServerSegment, U!Wakeup,
       UP!Wakeup, U!Blocked, UP!Blocked, U!Ready, UP!Ready, U!TaskStatus,
       UP!TaskStatus, U!MayHaveTimeLeft, UP!MayHaveTimeLeft,
       U!MayHaveElapsed, UP!MayHaveElapsed, U!TypeOK, UP!TypeOK,
       U!SessionsOwned, UP!SessionsOwned, U!LookupIsNew, UP!LookupIsNew,
       U!KillWakes, UP!KillWakes

LEMMA NotifyHolds == SafetySpec => []NP!NotifyInv
<1>1. Init => NP!NotifyInv
  BY NotifyInstances, NP!NotifyInvInit, NotificationAssumption DEF Init
<1>2. LinkInv /\ NP!NotifyInv /\ [Next]_vars => NP!NotifyInv'
  BY NotifyStep, NotifyInstances, NP!NotifyInvStep, NotificationAssumption
<1> QED BY <1>1, <1>2, LinkInvariant, PTL DEF SafetySpec

LEMMA NotifyHoldsImplies ==
  NP!NotifyInv =>
    N!TypeOK /\ N!DialsLatestPort /\ (~ForkFails => N!ToldLatest)
BY NotifyInstances, NP!NotifyInvImplies, NotificationAssumption

LEMMA ForwarderHolds == SafetySpec => []UP!UfwdInv
<1>1. Init => UP!UfwdInv
  BY ForwarderInstances, UP!UfwdInvInit, ForwarderAssumption DEF Init
<1>2. LinkInv /\ UP!UfwdInv /\ [Next]_vars => UP!UfwdInv'
  BY ForwarderStep, ForwarderInstances, UP!UfwdInvStep, ForwarderAssumption
<1> QED BY <1>1, <1>2, LinkInvariant, PTL DEF SafetySpec

LEMMA ForwarderHoldsImplies ==
  UP!UfwdInv =>
    U!TypeOK /\ U!SessionsOwned /\ U!LookupIsNew /\ U!KillWakes
BY ForwarderInstances, UP!UfwdInvImplies, ForwarderAssumption

-----------------------------------------------------------------------------
(***************************************************************************)
(* The types of the keeper, of the STUN client and of what NATMap adds.    *)
(***************************************************************************)

(* The keeper without saddr, which LinkInv is about.                       *)
KeeperTypes ==
  /\ kpc \in {"new", "dns", "keep", "send", "pause"}
  /\ kst \in TaskStatus \ {"none"}
  /\ timeout \in {0, Keep}
  /\ n \in Nat
  /\ port_next \in BOOLEAN

LEMMA KeeperTypesInit == Init => KeeperTypes
<1> SUFFICES ASSUME Init PROVE KeeperTypes
  OBVIOUS
<1>1. port_next \in BOOLEAN
  BY Zenon DEF Init, K!Init
<1> QED BY <1>1 DEF Init, K!Init, KeeperTypes, TaskStatus, Blocked, Ready

(* A segment of the keeper is one of these.                                *)
LEMMA KeeperSegmentKeepsTypes ==
  ASSUME KeeperTypes, KeeperSegment
  PROVE  KeeperTypes'
<1> USE DEF KeeperTypes, TaskStatus, Blocked, Ready
<1>1. CASE Attempt
  BY <1>1 DEF Attempt, K!Begin
<1>2. CASE KeeperAlone
  BY <1>2 DEF KeeperAlone, K!DnsAgain, K!BaseFails, K!SendAgain
<1>3. ASSUME NEW k \in Nat, K!Sleeps(k) \/ K!SendWaits(k) \/ K!SessionEnds,
             UNCHANGED timeout, port_next' \in BOOLEAN
      PROVE  KeeperTypes'
  BY <1>3 DEF K!Sleeps, K!SendWaits, K!SessionEnds
<1>4. CASE SessionBegins \/ SessionFailsAtOnce
  <2>1. PICK a : K!Established(a) \/ K!EstablishedWaits(a, hev_ufwd_fd)
                 \/ K!EstablishedEnds(a)
    BY <1>4 DEF SessionBegins, SessionFailsAtOnce
  <2>2. K!BaseSucceeds(a)
    BY <2>1 DEF K!Established, K!EstablishedWaits, K!EstablishedEnds
  <2>3. port_next' \in BOOLEAN
    BY <2>2, Zenon DEF K!BaseSucceeds
  <2>4. \E k \in Nat : K!Sleeps(k) \/ K!SendWaits(k) \/ K!SessionEnds
    BY <2>1 DEF K!Established, K!EstablishedWaits, K!EstablishedEnds
  <2> QED BY <1>3, <2>2, <2>3, <2>4 DEF K!BaseSucceeds
<1>5. CASE KeepMapping \/ CheckMapping \/ SessionOver
  <2>1. UNCHANGED <<timeout, port_next>>
    BY <1>5 DEF KeepMapping, CheckMapping, SessionOver, K!Sends, K!Checks,
                K!ChecksAndEnds, K!KeepAliveEnds, K!IntervalOver
  <2>2. \E k \in {0, n + 1} : K!Sleeps(k) \/ K!SendWaits(k) \/ K!SessionEnds
    BY <1>5 DEF KeepMapping, CheckMapping, SessionOver, K!Sends, K!Checks,
                K!ChecksAndEnds, K!KeepAliveEnds
  <2> QED BY <1>3, <2>1, <2>2
<1> QED BY <1>1, <1>2, <1>4, <1>5 DEF KeeperSegment

LEMMA KeeperTypesStep == KeeperTypes /\ [Next]_vars => KeeperTypes'
<1> SUFFICES ASSUME KeeperTypes, [Next]_vars PROVE KeeperTypes'
  OBVIOUS
<1>1. ASSUME UNCHANGED kvars PROVE KeeperTypes'
  BY <1>1 DEF kvars, KeeperTypes
<1>2. CASE KeeperSegment
  BY <1>2, KeeperSegmentKeepsTypes
<1>3. CASE StunAlone \/ StunSucceeds \/ ForwarderAlone \/ ClientSegment
  BY <1>1, <1>3 DEF StunAlone, StunSucceeds, ForwarderAlone, ClientSegment
<1>4. CASE StunFails \/ ForwarderStartFails
  BY <1>4 DEF StunFails, ForwarderStartFails, K!Kill, K!Wakeup, K!Blocked,
              KeeperTypes, TaskStatus, Blocked, Ready
<1>5. CASE KeeperTimer \/ KeeperResolver
  BY <1>5 DEF KeeperTimer, KeeperResolver, K!Timer, K!Io, KeeperTypes,
              TaskStatus, Blocked, Ready
<1>6. CASE StunTimer \/ StunEvent \/ Network \/ ForwarderEvent
           \/ UNCHANGED vars
  BY <1>1, <1>6 DEF StunTimer, StunEvent, Network, ForwarderEvent, vars
<1> QED BY <1>2, <1>3, <1>4, <1>5, <1>6
        DEF Next, StunSegment, ServerSegment, Event

(* The STUN client without its sockets, which StunInv is about, and static *)
(* task.                                                                   *)
StunTypes ==
  /\ spc \in {"none", "new", "dns", "send", "recv", "idle"}
  /\ sst \in TaskStatus
  /\ tries \in 0 .. MaxTries
  /\ sbound \in Addrs \cup {NoAddr}
  /\ inbox \in Nat
  /\ flight \in Nat

LEMMA TriesRange == MaxTries \in Nat /\ 1 .. MaxTries \subseteq 0 .. MaxTries
<1>1. MaxTries \in Nat
  BY NatmapUdpAssumption, Zenon DEF NatmapUdpAssumption
<1> QED BY <1>1

LEMMA StunTypesInit == Init => StunTypes
BY TriesRange DEF Init, S!Init, S!T!Init, StunTypes, TaskStatus

(* Segments of the STUN client.                                            *)
LEMMA StunSegmentKeepsTypes ==
  ASSUME StunTypes, LinkInv, StunSegment
  PROVE  StunTypes'
<1> USE DEF StunTypes, TaskStatus, Blocked, Ready
<1>1. CASE S!Lookup
  BY <1>1 DEF S!Lookup, S!T!Lookup, S!T!DnsAgain, S!net
<1>2. CASE S!Ask(saddr)
  <2>1. spc \in {"dns", "idle", "send", "recv"} /\ spc' \in {"send", "recv"}
    BY <1>2 DEF S!Ask, S!NextTry
  <2>2. sbound' \in Addrs \cup {NoAddr}
    BY <1>2, <2>1 DEF S!Ask, S!Bound, LinkInv, AddressKnown
  <2>3. tries' \in 0 .. MaxTries
    BY <1>2, TriesRange DEF S!Ask
  <2>4. flight' \in Nat
    BY <1>2 DEF S!Ask, S!Request
  <2> QED BY <1>2, <2>1, <2>2, <2>3, <2>4 DEF S!Ask
<1>3. CASE S!RecvAgain
  BY <1>3 DEF S!RecvAgain, S!net
<1>4. CASE S!Succeed
  BY <1>4, TriesRange DEF S!Succeed, S!Request
<1>5. CASE S!Fail
  <2>1. spc' = "none" /\ sst' = "none" /\ sbound' = NoAddr
    BY <1>5 DEF S!Fail, S!T!Exit
  <2>2. tries' = 0 /\ inbox' = 0 /\ flight' \in Nat
    BY <1>5 DEF S!Fail, S!Request
  <2> QED BY <2>1, <2>2, TriesRange
<1> QED BY <1>1, <1>2, <1>3, <1>4, <1>5
        DEF StunSegment, StunAlone, StunSucceeds, StunFails

LEMMA StunTypesStep == StunTypes /\ LinkInv /\ [Next]_vars => StunTypes'
<1> SUFFICES ASSUME StunTypes, LinkInv, [Next]_vars PROVE StunTypes'
  OBVIOUS
<1>1. ASSUME UNCHANGED svars PROVE StunTypes'
  BY <1>1 DEF svars, StunTypes
<1>2. CASE S!Run
  BY <1>2 DEF S!Run, S!T!Run, S!T!Wakeup, S!T!Blocked, S!net, StunTypes,
              TaskStatus, Blocked, Ready
<1>3. CASE KeeperSegment
  <2>1. S!Run \/ UNCHANGED svars
    BY <1>3 DEF KeeperSegment, Attempt, KeeperAlone, KeepMapping,
                SessionBegins, SessionFailsAtOnce, CheckMapping, SessionOver,
                RunStun
  <2> QED BY <1>1, <1>2, <2>1
<1>4. CASE StunSegment
  BY <1>4, StunSegmentKeepsTypes
<1>5. CASE ServerSegment \/ ClientSegment
  BY <1>1, <1>5 DEF ServerSegment, ForwarderStartFails, ForwarderAlone,
                    ClientSegment
<1>6. CASE StunTimer \/ StunEvent
  BY <1>6 DEF StunTimer, StunEvent, S!Timer, S!T!Timer, S!Event, S!net,
              StunTypes, TaskStatus, Blocked, Ready
<1>7. CASE Network
  BY <1>7 DEF Network, S!Arrive, S!Lost, S!Wakeup, S!Blocked, StunTypes,
              TaskStatus, Blocked, Ready
<1>8. CASE KeeperTimer \/ KeeperResolver \/ ForwarderEvent \/ UNCHANGED vars
  BY <1>1, <1>8 DEF KeeperTimer, KeeperResolver, ForwarderEvent, vars
<1> QED BY <1>3, <1>4, <1>5, <1>6, <1>7, <1>8 DEF Next, Event

(* What has the two truth values.                                          *)
FlagsInv ==
  /\ brand \in BOOLEAN
  /\ stask \in BOOLEAN
  /\ ufwd \in BOOLEAN
  /\ learned \in BOOLEAN

LEMMA FlagsInvInit == Init => FlagsInv
<1> SUFFICES ASSUME Init PROVE FlagsInv
  OBVIOUS
<1>1. brand \in BOOLEAN
  <2>1. CASE Separator = ""
    BY <2>1 DEF Init, C!Init
  <2>2. CASE Separator # ""
    <3>1. brand = (Separator = "~")
      BY <2>2, Zenon DEF Init, C!Init
    <3> QED BY <3>1, Zenon
  <2> QED BY <2>1, <2>2
<1>2. stask \in BOOLEAN /\ learned \in BOOLEAN
  BY Zenon DEF Init, S!Init, S!T!Init
<1>3. ufwd \in BOOLEAN
  BY NatmapUdpAssumption, Zenon DEF NatmapUdpAssumption, Init
<1> QED BY <1>1, <1>2, <1>3 DEF FlagsInv

LEMMA FlagsInvStep == FlagsInv /\ [Next]_vars => FlagsInv'
<1> SUFFICES ASSUME FlagsInv, [Next]_vars PROVE FlagsInv'
  OBVIOUS
<1>1. brand' = brand
  BY OnlyAttemptsPick, Zenon
     DEF pvars, C!Bport, C!PickRandom, C!PickNext, C!pvars
<1>2. ufwd' = ufwd
  BY Zenon
     DEF Next, KeeperSegment, Attempt, KeeperAlone, KeepMapping,
         SessionBegins, SessionFailsAtOnce, CheckMapping, SessionOver,
         StunSegment, StunAlone, StunSucceeds, StunFails, ServerSegment,
         ForwarderStartFails, ForwarderAlone, ClientSegment, Event,
         KeeperTimer, KeeperResolver, StunTimer, StunEvent, Network,
         ForwarderEvent, ovars, vars
<1>3. stask' \in {stask, TRUE, FALSE}
  <2>1. S!Run => stask' \in {stask, TRUE, FALSE}
    BY Zenon DEF S!Run, S!T!Run
  <2>2. CASE KeeperSegment
    BY <2>1, <2>2, Zenon
       DEF KeeperSegment, Attempt, KeeperAlone, KeepMapping, SessionBegins,
           SessionFailsAtOnce, CheckMapping, SessionOver, RunStun, svars
  <2>3. CASE StunSegment
    BY <2>3, Zenon
       DEF StunSegment, StunAlone, StunSucceeds, StunFails, S!Lookup,
           S!T!Lookup, S!T!DnsAgain, S!Ask, S!RecvAgain, S!Succeed, S!Fail,
           S!T!Exit
  <2>4. CASE ServerSegment \/ ClientSegment
    BY <2>4, Zenon DEF ServerSegment, ForwarderStartFails, ForwarderAlone,
                       ClientSegment, svars
  <2>5. CASE Event
    BY <2>5, Zenon DEF Event, KeeperTimer, KeeperResolver, StunTimer,
                       StunEvent, Network, ForwarderEvent, svars, S!Timer,
                       S!T!Timer, S!Event, S!Arrive, S!Lost
  <2>6. CASE UNCHANGED vars
    BY <2>6, Zenon DEF vars, svars
  <2> QED BY <2>2, <2>3, <2>4, <2>5, <2>6, Zenon DEF Next
<1>4. learned' \in {learned, TRUE, FALSE}
  BY Zenon
     DEF Next, KeeperSegment, Attempt, KeeperAlone, KeepMapping,
         SessionBegins, SessionFailsAtOnce, CheckMapping, SessionOver,
         StunSegment, StunAlone, StunSucceeds, StunFails, ServerSegment,
         ForwarderStartFails, ForwarderAlone, ClientSegment, Event,
         KeeperTimer, KeeperResolver, StunTimer, StunEvent, Network,
         ForwarderEvent, hvars, vars
<1> QED BY <1>1, <1>2, <1>3, <1>4, Zenon DEF FlagsInv

(* Every variable of NATMap in UDP mode keeps its type.                    *)
THEOREM UdpTypeCorrect == SafetySpec => []TypeOK
<1>1. LinkInv /\ KeeperTypes => K!TypeOK
  BY DEF LinkInv, AddressKnown, KeeperTypes, K!TypeOK, TaskStatus, Blocked,
         Ready, K!TaskStatus, K!Blocked, K!Ready
<1>2. LinkInv /\ StunTypes /\ FlagsInv => S!TypeOK
  <2> SUFFICES ASSUME LinkInv, StunTypes, FlagsInv PROVE S!TypeOK
    OBVIOUS
  <2>1. ssocks \in {0, 1}
    BY DEF LinkInv, StunInv, S!TaskOwned
  <2>2. stask \in BOOLEAN
    BY Zenon DEF FlagsInv
  <2> QED BY <2>1, <2>2 DEF StunTypes, S!TypeOK, TaskStatus, Blocked, Ready,
                            S!TaskStatus, S!Blocked, S!Ready
<1>3. LinkInv /\ FlagsInv =>
        C!TypeOK /\ ufwd \in BOOLEAN /\ learned \in BOOLEAN
  BY Zenon DEF LinkInv, PortInv, FlagsInv, C!TypeOK, C!Range
<1>4. CountInv => unchecked \in Nat
  BY DEF CountInv
<1>5. /\ LinkInv /\ KeeperTypes /\ StunTypes /\ FlagsInv /\ CountInv
      /\ UP!UfwdInv /\ NP!NotifyInv
      => TypeOK
  BY <1>1, <1>2, <1>3, <1>4, ForwarderHoldsImplies, NotifyHoldsImplies,
     Zenon DEF TypeOK
<1> QED BY <1>5, LinkInvariant, KeeperTypesInit, KeeperTypesStep,
           StunTypesInit, StunTypesStep, FlagsInvInit, FlagsInvStep,
           CountInvInit, CountInvStep, ForwarderHolds, NotifyHolds, PTL
        DEF SafetySpec

(* The tree of the forwarder holds the sessions that have tasks and no     *)
(* other, and session_add meets a new address only, whichever task starts  *)
(* and kills servers meanwhile; and a server killed in recv stops.         *)
THEOREM UdpSessionsOwned ==
  SafetySpec => [](U!SessionsOwned /\ U!LookupIsNew /\ U!KillWakes)
BY ForwarderHolds, ForwarderHoldsImplies, PTL

(* The server that the end of a session kills in recv forwards nothing     *)
(* more, also if an answer calls hev_ufwd_run before it is gone.           *)
THEOREM UdpKilledForwardsNothing == SafetySpec => U!KilledForwardsNothing
<1>1. LinkInv /\ UP!UfwdInv /\ [Next]_vars =>
        [killed => \A p \in Peers : /\ p \in sessions' => p \in sessions
                                    /\ active'[p] => active[p]]_(U!uvars)
  BY ForwarderStep, ForwarderInstances, UP!StepForwardsNothing,
     ForwarderAssumption DEF U!uvars, UP!uvars
<1> QED BY <1>1, LinkInvariant, ForwarderHolds, PTL
        DEF SafetySpec, U!KilledForwardsNothing

(* The forwarder in NATMap implements the relay, whichever of the keeper,  *)
(* the STUN client and its own clients runs and kills it, and when.        *)
THEOREM UdpImplementsRelay == SafetySpec => U!ImplementsRelay
<1>1. Init => U!R!Init
  BY DEF Init, U!Init, U!R!Init
<1>2. ASSUME LinkInv, UP!UfwdInv, [Next]_vars
      PROVE  [U!R!Next]_(U!R!rvars)
  <2>1. [UP!Next]_(UP!uvars)
    BY <1>2, ForwarderStep, ForwarderInstances
  <2>2. [UP!R!Next]_(UP!R!rvars)
    BY <1>2, <2>1, UP!StepRelays, ForwarderAssumption
  <2> QED
    BY <2>2
       DEF U!R!Next, UP!R!Next, U!R!rvars, UP!R!rvars, U!R!Run, UP!R!Run,
           U!R!Kill, UP!R!Kill, U!R!End, UP!R!End, U!R!Forward, UP!R!Forward,
           U!R!Unmark, UP!R!Unmark, U!R!Leave, UP!R!Leave
<1> QED BY <1>1, <1>2, LinkInvariant, ForwarderHolds, PTL
        DEF SafetySpec, U!ImplementsRelay, U!R!Spec

(* The port that a new UDP session dials is the one of the last answer.    *)
THEOREM UdpDialsLatest == SafetySpec => []N!DialsLatestPort
BY NotifyHolds, NotifyHoldsImplies, PTL

(* As long as fork works, the script was told the last answer, ...         *)
THEOREM UdpToldLatest ==
  ASSUME ~ForkFails
  PROVE  SafetySpec => []N!ToldLatest
BY NotifyHolds, NotifyHoldsImplies, PTL

(* ... and NATMap in UDP mode is an announcer: the script is run for every *)
(* answer that is news, and for no other, however many checks there are.   *)
THEOREM UdpImplementsAnnouncer ==
  ASSUME ~ForkFails
  PROVE  SafetySpec => N!ImplementsAnnouncer
<1>1. Init => N!A!Init
  BY DEF Init, N!Init, N!A!Init
<1>2. ASSUME LinkInv, NP!NotifyInv, [Next]_vars
      PROVE  [N!A!Next]_(N!A!avars)
  <2>1. [NP!Next]_(NP!nvars)
    BY <1>2, NotifyStep, NotifyInstances
  <2>2. [NP!A!Next]_(NP!A!avars)
    BY <1>2, <2>1, NP!StepAnnounces, NotificationAssumption
  <2> QED
    BY <2>2 DEF N!A!Next, N!A!avars, NP!A!Next, NP!A!avars, N!A!News,
                NP!A!News, N!Mappings, NP!Mappings, N!Mapping, NP!Mapping
<1> QED BY <1>1, <1>2, LinkInvariant, NotifyHolds, PTL
        DEF SafetySpec, N!ImplementsAnnouncer, N!A!Spec

=============================================================================
