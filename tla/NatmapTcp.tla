------------------------------ MODULE NatmapTcp ------------------------------
(***************************************************************************)
(* NATMap in TCP mode: the keeper, the STUN client, the TCP forwarder, the *)
(* notification and the choice of the bind port, with the calls between    *)
(* them.  A call is made within a segment of the calling task, so it is a  *)
(* conjunct of the action that models the segment.                         *)
(*                                                                         *)
(*   Tnsk  -- hev_conf_bport -->  ConfPort    before each attempt          *)
(*   Tnsk  -- hev_stun_run -->    Stun        a session is established     *)
(*   Tnsk  -- hev_tfwd_kill -->   Tfwd        a session has ended          *)
(*   Stun  -- handler -->         Tfwd        an answer: hev_tfwd_run      *)
(*   Stun  -- cmp_addr ... -->    Notify      an answer                    *)
(*   Stun, Tfwd -- hev_xnsk_kill --> Tnsk     a failure                    *)
(***************************************************************************)
EXTENDS TaskSystem, Integers

CONSTANTS
  Addrs,        \* bound addresses, named by their port
  NoAddr,       \* no address, and no port
  First, Last, Separator,   \* -b, see ConfPort
  Keep, MaxRetries, SendBlocks,  \* see Tnsk
  Forwarding,   \* -t was given
  Conns, PublicPorts, TargetPort,  \* see Tfwd
  PublicAddr, LocalAddr, Zero,  \* see Notify
  ForkFails

ASSUME NatmapTcpAssumption ==
  /\ Addrs \subseteq Nat \ {0}
  /\ First \in Nat /\ Last \in Nat
  /\ First <= Last           \* hev_conf_init refuses anything else
  /\ First .. Last \subseteq Addrs \cup {0}
  /\ Separator = "" => First = Last
  /\ NoAddr \notin Nat
  /\ NoAddr \notin PublicPorts /\ 0 \notin PublicPorts
  /\ Zero \notin {PublicAddr, LocalAddr} \cup PublicPorts \cup Addrs
  /\ TargetPort \in Nat
  /\ Keep \in Nat \ {0}      \* hev_conf_init puts a default in its place
  /\ MaxRetries \in Nat \ {0, 1}
  /\ {SendBlocks, Forwarding, ForkFails} \subseteq BOOLEAN

VARIABLES
  kpc, kst, timeout, misscnt, kretries, port_next, saddr, ksocks, unanswered,
  stask, spc, sst, sretries, sbound, ssocks,
  ftask, quit, fpc, fst, faddr, fsocks, cpc, cport, csocks, killed,
  pmaddr, pmport, pbaddr, pbport, mport, answer, told, ran,
  brand, port, bport2,
  learned,  \* history: an answer came since the session was established
  own       \* history: the session's hev_stun_run made a task of its own

kvars == <<kpc, kst, timeout, misscnt, kretries, port_next, saddr, ksocks,
           unanswered>>
svars == <<stask, spc, sst, sretries, sbound, ssocks>>
fvars == <<ftask, quit, fpc, fst, faddr, fsocks, cpc, cport, csocks, killed>>
nvars == <<pmaddr, pmport, pbaddr, pbport, mport, answer, told, ran>>
pvars == <<brand, port, bport2>>
hvars == <<learned, own>>
vars == <<kvars, svars, fvars, nvars, pvars, hvars>>

K == INSTANCE Tnsk
S == INSTANCE Stun
F == INSTANCE Tfwd WITH NoPort <- NoAddr
N == INSTANCE Notify WITH PublicAddrs <- {PublicAddr}, NoPort <- NoAddr,
                          LocalAddrs <- {LocalAddr}, LocalPorts <- Addrs
C == INSTANCE ConfPort WITH NoPort <- NoAddr

Init ==
  /\ K!Init
  /\ S!Init
  /\ F!Init
  /\ N!Init
  /\ C!Init
  /\ learned = FALSE
  /\ own = FALSE

-----------------------------------------------------------------------------
(***************************************************************************)
(* Segments of the keeper.                                                 *)
(***************************************************************************)

(* Mutant of Bindable: the address is not asked for after the bind.        *)
BindableAsGiven == {port}

(* Port 0 leaves the choice of the port to the kernel.                     *)
Bindable == IF port = 0 THEN Addrs ELSE {port}

Attempt ==
  /\ K!Begin
  /\ C!Bport(port_next)
  /\ UNCHANGED <<svars, fvars, nvars, hvars>>

KeeperAlone ==
  /\ \/ K!DnsAgain
     \/ K!ConnectStarts
     \/ K!ConnectAgain
     \/ K!BaseFails
     \/ K!SendAgain
     \/ K!RecvAgain
     \/ K!RecvMissed
  /\ UNCHANGED <<svars, fvars, nvars, pvars, hvars>>

(* hev_stun_run, for a new session.                                        *)
RunStun ==
  /\ S!Run
  /\ learned' = FALSE
  /\ own' = ~stask

(* hev_tfwd_kill at the end of tnsk_run, with a target only.               *)
StopForwarder ==
  \/ Forwarding /\ F!Kill
  \/ ~Forwarding /\ UNCHANGED fvars

(* Mutant of SessionBegins: the forwarder does not wait for an answer.     *)
SessionBeginsForwarding ==
  /\ \E a \in Bindable : K!Established(a)
  /\ RunStun
  /\ \/ Forwarding /\ F!Run
     \/ ~Forwarding /\ UNCHANGED fvars
  /\ UNCHANGED <<nvars, pvars>>

SessionBegins ==
  /\ \E a \in Bindable : K!Established(a)
  /\ RunStun
  /\ UNCHANGED <<fvars, nvars, pvars>>

SessionFailsAtOnce ==
  /\ \E a \in Bindable : K!EstablishedEnds(a)
  /\ RunStun
  /\ StopForwarder
  /\ UNCHANGED <<nvars, pvars>>

SessionOver ==
  /\ K!KeepAliveEnds \/ K!ResendEnds
  /\ StopForwarder
  /\ UNCHANGED <<svars, nvars, pvars, hvars>>

KeeperSegment ==
  \/ Attempt
  \/ KeeperAlone
  \/ SessionBegins
  \/ SessionFailsAtOnce
  \/ SessionOver

-----------------------------------------------------------------------------
(***************************************************************************)
(* Segments of the STUN client.                                            *)
(***************************************************************************)
(* Mutant of StunAlone: the socket is not bound to the keeper's address.   *)
StunAloneUnbound ==
  /\ \/ S!Lookup
     \/ S!DnsAgain
     \/ \E a \in Addrs : S!Bind(a)
     \/ S!ConnectAgain
     \/ S!Advance
  /\ UNCHANGED <<kvars, fvars, nvars, pvars, hvars>>

StunAlone ==
  /\ \/ S!Lookup
     \/ S!DnsAgain
     \/ S!Bind(saddr)
     \/ S!ConnectAgain
     \/ S!Advance
  /\ UNCHANGED <<kvars, fvars, nvars, pvars, hvars>>

(* stun_handler of the keeper: hev_tfwd_run, with a target only.           *)
StartForwarder ==
  \/ Forwarding /\ F!Run
  \/ ~Forwarding /\ UNCHANGED fvars

(* The handler first, then the news: both before any other task runs.      *)
StunSucceeds ==
  /\ S!Succeed
  /\ StartForwarder
  /\ \E mp \in PublicPorts : N!Report(PublicAddr, mp, LocalAddr, sbound)
  /\ learned' = TRUE
  /\ UNCHANGED <<kvars, pvars, own>>

(* Mutant of StunFails: hev_xnsk_kill is not called.                       *)
StunFailsQuietly ==
  /\ S!Fail
  /\ UNCHANGED <<kvars, fvars, nvars, pvars, hvars>>

StunFails ==
  /\ S!Fail
  /\ K!Kill
  /\ UNCHANGED <<fvars, nvars, pvars, hvars>>

StunSegment == StunAlone \/ StunSucceeds \/ StunFails

-----------------------------------------------------------------------------
(***************************************************************************)
(* Segments of the forwarder.                                              *)
(***************************************************************************)
ForwarderStartFails ==
  /\ F!StartFails
  /\ K!Kill
  /\ UNCHANGED <<svars, nvars, pvars, hvars>>

ForwarderAlone ==
  /\ \/ \E conns \in SUBSET Conns :
          F!Start(saddr, conns) \/ F!Accept(conns) \/ F!AcceptFails(conns)
     \/ F!Quit
  /\ UNCHANGED <<kvars, svars, nvars, pvars, hvars>>

ServerSegment == ForwarderStartFails \/ ForwarderAlone

ClientSegment ==
  /\ \E c \in Conns : F!ClientStep(c, mport)
  /\ UNCHANGED <<kvars, svars, nvars, pvars, hvars>>

-----------------------------------------------------------------------------
(* The outside: sockets, the resolver and the clock.                       *)
Event ==
  \/ /\ K!Io \/ K!Timer
     /\ UNCHANGED <<svars, fvars, nvars, pvars, hvars>>
  \/ /\ S!Io \/ S!Timer
     /\ UNCHANGED <<kvars, fvars, nvars, pvars, hvars>>
  \/ /\ F!Incoming
     /\ UNCHANGED <<kvars, svars, nvars, pvars, hvars>>

Next ==
  \/ KeeperSegment
  \/ StunSegment
  \/ ServerSegment
  \/ ClientSegment
  \/ Event

SafetySpec == Init /\ [][Next]_vars

(* Of the library: queued tasks run, timers run out, and a lookup does not *)
(* take for ever.                                                          *)
Fairness ==
  /\ WF_vars(KeeperSegment)
  /\ WF_vars(StunSegment)
  /\ WF_vars(ServerSegment)
  /\ WF_vars(Event /\ K!Timer)
  /\ WF_vars(Event /\ S!Timer)
  /\ WF_vars(Event /\ kpc = "dns" /\ K!Io)
  /\ WF_vars(Event /\ spc = "dns" /\ S!Io)
  /\ SF_vars(KeeperSegment /\ K!DnsAnswered)
  /\ SF_vars(StunSegment /\ S!DnsAnswered(saddr))

Spec == SafetySpec /\ Fairness

-----------------------------------------------------------------------------
TypeOK ==
  /\ K!TypeOK
  /\ S!TypeOK
  /\ F!TypeOK
  /\ N!TypeOK
  /\ C!TypeOK
  /\ learned \in BOOLEAN
  /\ own \in BOOLEAN

(* With -p 0 a connection is forwarded to the port of a mapping, never to  *)
(* the empty string mport starts with: the forwarder is started before the *)
(* first mapping is stored, but by the same segment.                       *)
DialPortKnown ==
  \A c \in Conns : cpc[c] \in {"dns", "connect", "splice"} => cport[c] # NoAddr

(* A session in which the STUN client came to its end without an answer    *)
(* does not go on: the keeper that waits for its peer has been killed, so  *)
(* that another attempt is made to learn the mapping.                      *)
UnmappedSessionKilled ==
  kpc = "recv" /\ ~stask /\ ~learned => timeout = 0

(* What is announced is the mapping of the session: the last answer was    *)
(* for the address that the session is bound to, if the session's own STUN *)
(* task gave it, although that task reads saddr long after it was made.    *)
OwnAnswerIsForSession == own /\ learned => answer.bport = saddr

(* The keeper stays on its port until an attempt fails, as another port is *)
(* another mapping, and with a sequential range it then takes the next     *)
(* one, the first after the last ("sequential allocation within the        *)
(* range", README.md:83).                                                  *)
PortsInOrder ==
  [][port' # port /\ port # NoAddr =>
       /\ port_next
       /\ Separator = "-" => port' = IF port = Last THEN First ELSE port + 1]_vars

(* If from some time on every attempt fails, each port of a sequential     *)
(* range gets its turn again and again, whatever STUN tasks of earlier     *)
(* sessions do to the keeper meanwhile.                                    *)
EveryPortTried ==
  Separator = "-" /\ <>[]port_next =>
    \A p \in First .. Last : []<>(port = p)

(* A session is not left without an outcome: its mapping is learned, or it *)
(* ends, provided a STUN exchange does not have events for ever.           *)
SessionResolved ==
  <>[][~(S!InExchange /\ S!Io)]_vars =>
    (K!InSession ~> learned \/ ~K!InSession)

-----------------------------------------------------------------------------
(***************************************************************************)
(* What the documentation says and the code does not do.                   *)
(***************************************************************************)

(* "Establish a connection with the STUN server from the same port"        *)
(* (README.md:106): the mapping learned in a session is one of the         *)
(* session's port.  Does not hold: hev_stun_run leaves the work to a task  *)
(* of an earlier session if there still is one.                            *)
StunFromSessionPort == learned /\ K!InSession => answer.bport = saddr

=============================================================================
