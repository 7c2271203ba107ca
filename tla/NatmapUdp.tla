------------------------------ MODULE NatmapUdp ------------------------------
(***************************************************************************)
(* NATMap in UDP mode: the keeper, the STUN client, the UDP forwarder, the *)
(* notification and the choice of the bind port, with the calls between    *)
(* them.  A call is a conjunct of the action of the calling task.          *)
(*                                                                         *)
(*   Unsk  -- hev_conf_bport -->  ConfPort    before each attempt          *)
(*   Unsk  -- hev_stun_run -->    StunUdp     a session is established;    *)
(*                                            at intervals                 *)
(*   Unsk  -- hev_ufwd_fd -->     Ufwd        at every interval            *)
(*   Unsk  -- hev_ufwd_kill -->   Ufwd        a session has ended          *)
(*   StunUdp -- handler -->       Ufwd        an answer: hev_ufwd_run      *)
(*   StunUdp -- cmp_addr ... -->  Notify      an answer                    *)
(*   StunUdp, Ufwd -- hev_xnsk_kill --> Unsk  a failure                    *)
(***************************************************************************)
EXTENDS TaskSystem, Integers

CONSTANTS
  Addrs,        \* bound addresses, named by their port
  NoAddr,       \* no address, and no port
  First, Last, Separator,   \* -b, see ConfPort
  Keep, Cycle, SendBlocks,  \* see Unsk
  MaxTries, MaxAnswers, IdleEvents, StunBlocks,  \* see StunUdp
  Forwarding,   \* whether -t may be given, or not
  Peers, NoPeer, PeersBlock,  \* see Ufwd
  PublicPorts, PublicAddr, LocalAddr, Zero, ForkFails  \* see Notify

ASSUME NatmapUdpAssumption ==
  /\ Addrs \subseteq Nat \ {0}
  /\ First \in Nat /\ Last \in Nat
  /\ First <= Last           \* hev_conf_init refuses anything else
  /\ First .. Last \subseteq Addrs \cup {0}
  /\ Separator = "" => First = Last
  /\ NoAddr \notin Nat
  /\ NoPeer \notin Peers
  /\ NoAddr \notin PublicPorts
  /\ Zero \notin {PublicAddr, LocalAddr} \cup PublicPorts \cup Addrs
  /\ Keep \in Nat \ {0}      \* hev_conf_init puts a default in its place
  /\ Cycle \in Nat \ {0}     \* likewise
  /\ MaxTries \in Nat \ {0}
  /\ MaxAnswers \in Nat
  /\ {SendBlocks, PeersBlock, StunBlocks, IdleEvents, ForkFails}
       \subseteq BOOLEAN
  /\ Forwarding \subseteq BOOLEAN

VARIABLES
  kpc, kst, timeout, n, port_next, saddr,
  stask, spc, sst, tries, sbound, ssocks, inbox, flight,
  utask, quit, upc, ust, uaddr, usocks, peer, sessions, cpc, cst, active,
  csocks, killed,
  pmaddr, pmport, pbaddr, pbport, mport, answer, told, ran,
  brand, port, bport2,
  ufwd,       \* the local ufwd of unsk_run: -t was given
  learned,    \* history: an answer came since the session was established
  unchecked   \* history: intervals of the session that have gone by since
              \* hev_stun_run was last called

kvars == <<kpc, kst, timeout, n, port_next, saddr>>
svars == <<stask, spc, sst, tries, sbound, ssocks, inbox, flight>>
uvars == <<utask, quit, upc, ust, uaddr, usocks, peer, sessions, cpc, cst,
           active, csocks, killed>>
nvars == <<pmaddr, pmport, pbaddr, pbport, mport, answer, told, ran>>
pvars == <<brand, port, bport2>>
ovars == <<pvars, ufwd>>
hvars == <<learned, unchecked>>
vars == <<kvars, svars, uvars, nvars, ovars, hvars>>

K == INSTANCE Unsk
S == INSTANCE StunUdp
U == INSTANCE Ufwd WITH SendBlocks <- PeersBlock
N == INSTANCE Notify WITH PublicAddrs <- {PublicAddr}, NoPort <- NoAddr,
                          LocalAddrs <- {LocalAddr}, LocalPorts <- Addrs
C == INSTANCE ConfPort WITH NoPort <- NoAddr

Init ==
  /\ K!Init
  /\ S!Init
  /\ U!Init
  /\ N!Init
  /\ C!Init
  /\ ufwd \in Forwarding
  /\ learned = FALSE
  /\ unchecked = 0

-----------------------------------------------------------------------------
(***************************************************************************)
(* Segments of the keeper.                                                 *)
(***************************************************************************)

(* Port 0 leaves the choice of the port to the kernel.                     *)
Bindable == IF port = 0 THEN Addrs ELSE {port}

(* hev_ufwd_fd () is a socket.                                             *)
hev_ufwd_fd == uaddr # NoAddr

Attempt ==
  /\ K!Begin
  /\ C!Bport(port_next)
  /\ UNCHANGED <<svars, uvars, nvars, hvars, ufwd>>

KeeperAlone ==
  /\ K!DnsAgain \/ K!BaseFails \/ K!SendAgain
  /\ UNCHANGED <<svars, uvars, nvars, ovars, hvars>>

KeepMapping ==
  /\ K!Sends(hev_ufwd_fd)
  /\ unchecked' = unchecked + 1
  /\ UNCHANGED <<svars, uvars, nvars, ovars, learned>>

(* hev_stun_run                                                            *)
RunStun == S!Run /\ unchecked' = 0

(* hev_ufwd_kill at the end of unsk_run, with a target only.               *)
StopForwarder ==
  \/ ufwd /\ U!Kill
  \/ ~ufwd /\ UNCHANGED uvars

(* Mutant of SessionBegins: the forwarder does not wait for an answer.     *)
SessionBeginsForwarding ==
  /\ \E a \in Bindable : K!Established(a) \/ K!EstablishedWaits(a, hev_ufwd_fd)
  /\ RunStun
  /\ learned' = FALSE
  /\ \/ ufwd /\ U!Run
     \/ ~ufwd /\ UNCHANGED uvars
  /\ UNCHANGED <<nvars, ovars>>

(* A killed keeper may come to a second hev_stun_run in the same segment,  *)
(* which finds a task that is in the run queue already.                    *)
SessionBegins ==
  /\ \E a \in Bindable : K!Established(a) \/ K!EstablishedWaits(a, hev_ufwd_fd)
  /\ RunStun
  /\ learned' = FALSE
  /\ UNCHANGED <<uvars, nvars, ovars>>

SessionFailsAtOnce ==
  /\ \E a \in Bindable : K!EstablishedEnds(a)
  /\ RunStun
  /\ learned' = FALSE
  /\ StopForwarder
  /\ UNCHANGED <<nvars, ovars>>

CheckMapping ==
  /\ K!Checks(hev_ufwd_fd)
  /\ RunStun
  /\ UNCHANGED <<uvars, nvars, ovars, learned>>

SessionOver ==
  /\ \/ K!ChecksAndEnds(hev_ufwd_fd) /\ S!Run
     \/ K!KeepAliveEnds(hev_ufwd_fd) /\ UNCHANGED svars
  /\ unchecked' = 0
  /\ StopForwarder
  /\ UNCHANGED <<nvars, ovars, learned>>

KeeperSegment ==
  \/ Attempt
  \/ KeeperAlone
  \/ KeepMapping
  \/ SessionBegins
  \/ SessionFailsAtOnce
  \/ CheckMapping
  \/ SessionOver

-----------------------------------------------------------------------------
(***************************************************************************)
(* Segments of the STUN client.                                            *)
(***************************************************************************)
StunAlone ==
  /\ S!Lookup \/ S!Ask(saddr) \/ S!RecvAgain
  /\ UNCHANGED <<kvars, uvars, nvars, ovars, hvars>>

(* stun_handler of the keeper: hev_ufwd_run, with a target only.           *)
StartForwarder ==
  \/ ufwd /\ U!Run
  \/ ~ufwd /\ UNCHANGED uvars

(* Mutant of StunSucceeds: the handler runs for a changed mapping only.    *)
StunSucceedsIfNews ==
  /\ S!Succeed
  /\ \E mp \in PublicPorts :
       /\ N!Report(PublicAddr, mp, LocalAddr, sbound)
       /\ IF N!Changed(PublicAddr, mp, LocalAddr, sbound)
            THEN StartForwarder
            ELSE UNCHANGED uvars
  /\ learned' = TRUE
  /\ UNCHANGED <<kvars, ovars, unchecked>>

(* The handler first, then the news: both before any other task runs.      *)
StunSucceeds ==
  /\ S!Succeed
  /\ StartForwarder
  /\ \E mp \in PublicPorts : N!Report(PublicAddr, mp, LocalAddr, sbound)
  /\ learned' = TRUE
  /\ UNCHANGED <<kvars, ovars, unchecked>>

(* Mutant of StunFails: hev_xnsk_kill is not called.                       *)
StunFailsQuietly ==
  /\ S!Fail
  /\ UNCHANGED <<kvars, uvars, nvars, ovars, hvars>>

StunFails ==
  /\ S!Fail
  /\ K!Kill
  /\ UNCHANGED <<uvars, nvars, ovars, hvars>>

StunSegment == StunAlone \/ StunSucceeds \/ StunFails

-----------------------------------------------------------------------------
(***************************************************************************)
(* Segments of the forwarder.                                              *)
(***************************************************************************)
ForwarderStartFails ==
  /\ U!StartFails
  /\ K!Kill
  /\ UNCHANGED <<svars, nvars, ovars, hvars>>

ForwarderAlone ==
  /\ \/ U!Quit
     \/ U!DnsAgain
     \/ \E Q \in SUBSET Peers :
          \/ U!Start(saddr, Q)
          \/ U!Receive(Q)
          \/ U!SessionFails(Q)
          \/ U!SessionNew(Q)
          \/ U!SendAgain(Q)
  /\ UNCHANGED <<kvars, svars, nvars, ovars, hvars>>

ServerSegment == ForwarderStartFails \/ ForwarderAlone

ClientSegment ==
  /\ \E p \in Peers : U!ClientSegment(p)
  /\ UNCHANGED <<kvars, svars, nvars, ovars, hvars>>

-----------------------------------------------------------------------------
(* The outside: sockets, the network, the resolver and the clock.          *)
KeeperTimer == K!Timer /\ UNCHANGED <<svars, uvars, nvars, ovars, hvars>>

KeeperResolver == K!Io /\ UNCHANGED <<svars, uvars, nvars, ovars, hvars>>

StunTimer == S!Timer /\ UNCHANGED <<kvars, uvars, nvars, ovars, hvars>>

StunEvent == S!Event /\ UNCHANGED <<kvars, uvars, nvars, ovars, hvars>>

Network ==
  /\ S!Arrive \/ S!Lost
  /\ UNCHANGED <<kvars, uvars, nvars, ovars, hvars>>

ForwarderEvent ==
  /\ \/ U!Incoming
     \/ \E p \in Peers : U!ClientIo(p) \/ U!ClientTimer(p)
  /\ UNCHANGED <<kvars, svars, nvars, ovars, hvars>>

Event ==
  \/ KeeperTimer
  \/ KeeperResolver
  \/ StunTimer
  \/ StunEvent
  \/ Network
  \/ ForwarderEvent

Next ==
  \/ KeeperSegment
  \/ StunSegment
  \/ ServerSegment
  \/ ClientSegment
  \/ Event

SafetySpec == Init /\ [][Next]_vars

(* Of the library: queued tasks run, timers run out, and a lookup does not *)
(* take for ever.  The three seconds of a STUN request begin anew whenever *)
(* hev_stun_run wakes the task; they do run out if -k is longer.           *)
Fairness ==
  /\ WF_vars(KeeperSegment)
  /\ WF_vars(StunSegment)
  /\ WF_vars(ServerSegment)
  /\ WF_vars(KeeperTimer)
  /\ SF_vars(StunTimer)
  /\ WF_vars(KeeperResolver)
  /\ WF_vars(spc = "dns" /\ StunEvent)
  /\ SF_vars(kpc = "dns" /\ KeeperSegment /\ kpc' # "dns")
  /\ SF_vars(spc = "dns" /\ StunSegment /\ spc' # "dns")

Spec == SafetySpec /\ Fairness

-----------------------------------------------------------------------------
TypeOK ==
  /\ K!TypeOK
  /\ S!TypeOK
  /\ U!TypeOK
  /\ N!TypeOK
  /\ C!TypeOK
  /\ ufwd \in BOOLEAN
  /\ learned \in BOOLEAN
  /\ unchecked \in Nat

(* However the keeper's sessions and the STUN client overlap, static task  *)
(* is NULL exactly when there is no STUN task, and the one socket of the   *)
(* STUN client is closed when the task ends, not when a session does.      *)
StunTaskOwned == S!TaskOwned

(* A session goes on only as long as there is a STUN client that checks    *)
(* its mapping: the client's end has killed the keeper, which is about to  *)
(* end the session and will not sleep through another interval first.  A   *)
(* keeper that cannot send its byte may wait on, killed as it is.          *)
StunServesSession ==
  K!InSession /\ ~stask => timeout = 0 /\ (kpc = "keep" => kst \in Ready)

(* However the forwarder comes and goes between the intervals, no session  *)
(* passes Cycle intervals without hev_stun_run ("UDP STUN check cycle      *)
(* (every <count> intervals)", README.md:72), and at the end of one that   *)
(* passes without it the forwarder is there: while it is gone, as it       *)
(* always is without -t, every interval ends with a check.                 *)
CheckedEveryCycle ==
  /\ [](unchecked < Cycle)
  /\ [][unchecked' > unchecked => hev_ufwd_fd]_vars

(* A UDP session of a peer is connected to the target's port, with -p 0 to *)
(* that of a mapping: whenever the server can meet a new peer, a mapping   *)
(* has been stored, although it is made before the first one is.           *)
DialPortKnown == upc # "none" => mport # NoAddr

(* A forwarder that has ended, also one that recvfrom gave an error, is    *)
(* replaced in the session, or the session ends: hev_ufwd_fd says at the   *)
(* next interval that it is gone, the mapping is checked, and the handler  *)
(* makes another.  Provided the STUN exchange does not have events for     *)
(* ever, and sendto does not wait for ever.                                *)
Calm == <>[][~(S!InExchange /\ StunEvent)]_vars /\ []<>(kpc # "send")

ForwarderComesBack ==
  Calm => (ufwd /\ K!InSession ~> utask \/ ~K!InSession)

(* A session is not left without an outcome: its mapping is learned, or it *)
(* ends, also if a STUN task that has been idle since an earlier session   *)
(* has to do it.                                                           *)
SessionResolved == Calm => (K!InSession ~> learned \/ ~K!InSession)

-----------------------------------------------------------------------------
(***************************************************************************)
(* What the documentation says and the code does not do.                   *)
(***************************************************************************)

(* "UDP STUN check cycle (every <count> intervals)" (README.md:72): a STUN *)
(* client that waits for the next check is woken up by hev_stun_run.  Does *)
(* not hold: the task waits for any event of its socket, and a late or     *)
(* doubled answer is one.                                                  *)
StunOnlyWhenAsked ==
  [][spc = "idle" /\ sst \in Blocked /\ sst' \in Ready => S!Run]_vars

=============================================================================
