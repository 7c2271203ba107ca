-------------------------------- MODULE Unsk --------------------------------
(***************************************************************************)
(* The UDP keeper (hev-unsk.c): one task that, for ever, finds out which   *)
(* address it can bind to, runs the STUN client, sends one byte to the     *)
(* server at every keep-alive interval through the forwarder's socket, and *)
(* sleeps five seconds once that ends.  It has no socket of its own: the   *)
(* one it binds is closed before the STUN client is run.                   *)
(*                                                                         *)
(* When there is no forwarder, and otherwise at every Cycle-th interval,   *)
(* the STUN client is run instead.  unsk_kill does not wait: it sets       *)
(* timeout to 0 and wakes the keeper.                                      *)
(*                                                                         *)
(* The module is composed in NatmapUdp, which gives fd: whether            *)
(* hev_ufwd_fd () is a socket.                                             *)
(***************************************************************************)
EXTENDS TaskSystem, Naturals

CONSTANTS
  Addrs,       \* addresses a session can be bound to
  NoAddr,      \* saddr before the first session
  Keep,        \* -k in milliseconds, never 0 after hev_conf_init
  Cycle,       \* -c, never 0 after hev_conf_init
  SendBlocks   \* the forwarder's send buffer may be full

VARIABLES
  kpc,        \* where the keeper is
  kst,        \* its scheduling status
  timeout,    \* static timeout, read at every sleep
  n,          \* intervals since the STUN client was run, the local n
  port_next,  \* static port_next: the last attempt failed
  saddr       \* static saddr: the bound address of the last session

kvars == <<kpc, kst, timeout, n, port_next, saddr>>

Init ==
  /\ kpc = "new"
  /\ kst = "run"
  /\ timeout = 0
  /\ n = 0
  /\ port_next = FALSE
  /\ saddr = NoAddr

InSession == kpc \in {"keep", "send"}

-----------------------------------------------------------------------------
(* unsk_kill                                                               *)
Kill ==
  /\ timeout' = 0
  /\ kst' = Wakeup(kst)
  /\ UNCHANGED <<kpc, n, port_next, saddr>>

(* The resolver answers.                                                   *)
Io ==
  /\ kpc = "dns"
  /\ kst = "wait"
  /\ kst' = "run"
  /\ UNCHANGED <<kpc, timeout, n, port_next, saddr>>

Timer ==
  /\ kst = "sleep"
  /\ kst' = "expired"
  /\ UNCHANGED <<kpc, timeout, n, port_next, saddr>>

-----------------------------------------------------------------------------
(***************************************************************************)
(* From the start of unsk_run to the session.                              *)
(***************************************************************************)

(* The port is chosen (hev_conf_bport (port_next)), timeout set, and the   *)
(* addresses are looked up.  The 5 s are not repeated when a wake-up cuts  *)
(* them short.                                                             *)
Begin ==
  /\ kpc \in {"new", "pause"}
  /\ kst \in Ready
  /\ kpc' = "dns"
  /\ kst' = "wait"
  /\ timeout' = Keep
  /\ UNCHANGED <<n, port_next, saddr>>

(* Woken up before the resolver has answered.                              *)
DnsAgain ==
  /\ kpc = "dns"
  /\ kst \in Ready
  /\ kst' = "wait"
  /\ UNCHANGED <<kpc, timeout, n, port_next, saddr>>

(* hev_sock_client_base fails; to connect a datagram socket does not wait. *)
BaseFails ==
  /\ kpc = "dns"
  /\ kst \in Ready
  /\ kpc' = "pause"
  /\ kst' = "sleep"
  /\ port_next' = TRUE
  /\ UNCHANGED <<timeout, n, saddr>>

(* The keeper sleeps until the next interval is over, the k-th ...         *)
Sleeps(k) ==
  /\ timeout # 0
  /\ kpc' = "keep"
  /\ kst' = "sleep"
  /\ n' = k

(* ... or the session is over.  The forwarder is told, see NatmapUdp.      *)
SessionEnds ==
  /\ kpc' = "pause"
  /\ kst' = "sleep"
  /\ n' = 0

(* The byte cannot be sent yet: sendto waits, with no timeout and on a     *)
(* socket whose events go to the forwarder's task.                         *)
SendWaits(k) ==
  /\ SendBlocks
  /\ kpc' = "send"
  /\ kst' = "wait"
  /\ n' = k

(* An address was bound.  The STUN client is run, see NatmapUdp.           *)
BaseSucceeds(a) ==
  /\ kpc = "dns"
  /\ kst \in Ready
  /\ saddr' = a
  /\ port_next' = FALSE
  /\ UNCHANGED timeout

Established(a) ==
  /\ BaseSucceeds(a)
  /\ Sleeps(0)

(* Mutant of MustCheck: a forwarder that is gone is not noticed.           *)
MustCheckCounting(fd) == n + 1 >= Cycle

(* The task must check the mapping in this interval, not only keep it.     *)
MustCheck(fd) == ~fd \/ n + 1 >= Cycle

(* Killed during the lookup: sleep (0) returns at once, and the session    *)
(* ends after one round, or in its sendto.                                 *)
EstablishedEnds(a) ==
  /\ BaseSucceeds(a)
  /\ timeout = 0
  /\ SessionEnds

EstablishedWaits(a, fd) ==
  /\ BaseSucceeds(a)
  /\ timeout = 0
  /\ fd /\ Cycle > 1
  /\ SendWaits(1)

-----------------------------------------------------------------------------
(***************************************************************************)
(* unsk_keep_alive.                                                        *)
(***************************************************************************)

(* The interval is over, without a kill, or with one that came after.      *)
IntervalOver ==
  /\ kpc = "keep"
  /\ MayHaveElapsed(kst)
  /\ UNCHANGED <<port_next, saddr, timeout>>

(* hev_stun_run, and the loop starts over, or ends.                        *)
Checks(fd) ==
  /\ IntervalOver
  /\ MustCheck(fd)
  /\ Sleeps(0)

ChecksAndEnds(fd) ==
  /\ IntervalOver
  /\ MustCheck(fd)
  /\ timeout = 0
  /\ SessionEnds

(* Mutant of Sends: the interval is not counted.                           *)
SendsUncounted(fd) ==
  /\ IntervalOver
  /\ ~MustCheck(fd)
  /\ timeout # 0
  /\ kpc' = "keep"
  /\ kst' = "sleep"
  /\ UNCHANGED n

(* One byte to the server.                                                 *)
Sends(fd) ==
  /\ IntervalOver
  /\ ~MustCheck(fd)
  /\ Sleeps(n + 1) \/ SendWaits(n + 1)

(* Woken up in sendto, which only a kill does, and still no room.          *)
SendAgain ==
  /\ kpc = "send"
  /\ kst \in Ready
  /\ kst' = "wait"
  /\ UNCHANGED <<kpc, timeout, n, port_next, saddr>>

(* Woken up before the interval was over; sendto fails; or it succeeds and *)
(* timeout is 0, as always when it had to wait.                            *)
KeepAliveEnds(fd) ==
  /\ InSession
  /\ kst \in Ready
  /\ kpc = "keep" => MayHaveTimeLeft(kst) \/ ~MustCheck(fd)
  /\ SessionEnds
  /\ UNCHANGED <<timeout, port_next, saddr>>

-----------------------------------------------------------------------------
TypeOK ==
  /\ kpc \in {"new", "dns", "keep", "send", "pause"}
  /\ kst \in TaskStatus \ {"none"}
  /\ timeout \in {0, Keep}
  /\ n \in Nat
  /\ port_next \in BOOLEAN
  /\ saddr \in Addrs \cup {NoAddr}

=============================================================================
