-------------------------------- MODULE Tnsk --------------------------------
(***************************************************************************)
(* The TCP keeper (hev-tnsk.c): one task that, for ever, connects to the   *)
(* HTTP server from the bind port, runs the STUN client, keeps the         *)
(* connection alive with HEAD requests until it breaks, and sleeps five    *)
(* seconds.  Its connection is what keeps the mapping in the NAT open.     *)
(*                                                                         *)
(* Any task may end the session with tnsk_kill (through hev_xnsk_kill).    *)
(* The call does not wait: it sets timeout to 0 and wakes the keeper.      *)
(***************************************************************************)
EXTENDS TaskSystem, Naturals

CONSTANTS
  Addrs,       \* addresses a session can be bound to
  NoAddr,      \* saddr before the first session
  Keep,        \* -k in milliseconds, never 0 after hev_conf_init
  MaxRetries,  \* 100 in connect_io_yielder
  SendBlocks   \* the send buffer may be full when a HEAD is sent

ASSUME TnskAssumption ==
  /\ NoAddr \notin Addrs
  /\ Keep \in Nat \ {0}
  /\ MaxRetries \in Nat \ {0, 1}
  /\ SendBlocks \in BOOLEAN

VARIABLES
  kpc,        \* where the keeper is
  kst,        \* its scheduling status
  timeout,    \* static timeout, which every wait in keep-alive reads afresh
  misscnt,    \* waits for an answer that ran out since the last data
  kretries,   \* how often the present connect was tried
  port_next,  \* static port_next: the last attempt failed
  saddr,      \* static saddr: the bound address of the last session
  ksocks,     \* number of open keeper sockets
  unanswered  \* history: HEADs sent since the peer was last heard

kvars == <<kpc, kst, timeout, misscnt, kretries, port_next, saddr, ksocks,
           unanswered>>
session == <<timeout, misscnt, unanswered>>

SendTimeout == 30000

Init ==
  /\ kpc = "new"
  /\ kst = "run"
  /\ timeout = 0
  /\ misscnt = 0
  /\ kretries = 0
  /\ port_next = FALSE
  /\ saddr = NoAddr
  /\ ksocks = 0
  /\ unanswered = 0

InSession == kpc \in {"send", "recv"}

-----------------------------------------------------------------------------
(* tnsk_kill                                                               *)
Kill ==
  /\ timeout' = 0
  /\ kst' = Wakeup(kst)
  /\ UNCHANGED <<kpc, misscnt, kretries, port_next, saddr, ksocks, unanswered>>

(* The resolver answers, or the socket has an event.                       *)
Io ==
  /\ kpc # "sleep"
  /\ kst \in Blocked
  /\ kst' = "run"
  /\ UNCHANGED <<kpc, kretries, port_next, saddr, ksocks, session>>

Timer ==
  /\ kst = "sleep"
  /\ kst' = "expired"
  /\ UNCHANGED <<kpc, kretries, port_next, saddr, ksocks, session>>

-----------------------------------------------------------------------------
(***************************************************************************)
(* From the start of tnsk_run to the established connection.               *)
(***************************************************************************)

(* tnsk_run starts: the port is chosen (hev_conf_bport (port_next)), the   *)
(* addresses are looked up.  hev_task_sleep (5000) is not repeated when a  *)
(* wake-up cuts it short.                                                  *)
Begin ==
  /\ kpc \in {"new", "sleep"}
  /\ kst \in Ready
  /\ kpc' = "dns"
  /\ kst' = "wait"
  /\ UNCHANGED <<kretries, port_next, saddr, ksocks, session>>

(* Woken up before the resolver has answered.                              *)
DnsAgain ==
  /\ kpc = "dns"
  /\ kst \in Ready
  /\ kst' = "wait"
  /\ UNCHANGED <<kpc, kretries, port_next, saddr, ksocks, session>>

(* The socket is bound and connect is in progress.                         *)
ConnectStarts ==
  /\ kpc = "dns"
  /\ kst \in Ready
  /\ kpc' = "connect"
  /\ kst' = "sleep"
  /\ kretries' = 1
  /\ ksocks' = ksocks + 1
  /\ UNCHANGED <<port_next, saddr, session>>

(* Mutant of ConnectAgain: wake-ups are not counted.                       *)
ConnectAgainForEver ==
  /\ kpc = "connect"
  /\ MayHaveTimeLeft(kst)
  /\ kst' = "sleep"
  /\ UNCHANGED <<kpc, kretries, port_next, saddr, ksocks, session>>

(* Woken with time left, and connect is still in progress: the yielder     *)
(* counts, and waits anew with the full timeout.                           *)
ConnectAgain ==
  /\ kpc = "connect"
  /\ MayHaveTimeLeft(kst)
  /\ kretries + 1 < MaxRetries
  /\ kretries' = kretries + 1
  /\ kst' = "sleep"
  /\ UNCHANGED <<kpc, port_next, saddr, ksocks, session>>

(* Mutant of BaseFails: no close when connect fails.                       *)
BaseFailsOpen ==
  /\ kpc \in {"dns", "connect"}
  /\ kst \in Ready
  /\ kpc' = "sleep"
  /\ kst' = "sleep"
  /\ kretries' = 0
  /\ port_next' = TRUE
  /\ UNCHANGED <<saddr, ksocks, session>>

(* hev_sock_client_base fails at any of its steps: a lookup, the socket,   *)
(* the bind, or connect with an error, a timeout or too many retries.      *)
BaseFails ==
  /\ kpc \in {"dns", "connect"}
  /\ kst \in Ready
  /\ kpc' = "sleep"
  /\ kst' = "sleep"
  /\ kretries' = 0
  /\ port_next' = TRUE
  /\ ksocks' = IF kpc = "connect" THEN ksocks - 1 ELSE ksocks
  /\ UNCHANGED <<saddr, session>>

-----------------------------------------------------------------------------
(***************************************************************************)
(* tnsk_keep_alive.  From one wait to the next the task may get past       *)
(* several calls; the operators below are the places it can stop at.       *)
(***************************************************************************)

(* Mutant of HeadSent: the wait for an answer has no timeout.              *)
HeadSentUntimed(miss, heads) ==
  /\ kpc' = "recv"
  /\ kst' = "wait"
  /\ timeout' = Keep
  /\ \/ misscnt' = miss /\ unanswered' = heads + 1
     \/ misscnt' = 0 /\ unanswered' = 0

(* A HEAD was sent.  recv finds nothing, or it finds data, and then        *)
(* nothing.                                                                *)
HeadSent(miss, heads) ==
  /\ kpc' = "recv"
  /\ kst' = "sleep"
  /\ timeout' = Keep
  /\ \/ misscnt' = miss /\ unanswered' = heads + 1
     \/ misscnt' = 0 /\ unanswered' = 0

(* The loop starts over: sendmsg would block, or the HEAD is sent.         *)
SendHead(miss, heads) ==
  \/ /\ SendBlocks
     /\ kpc' = "send"
     /\ kst' = "sleep"
     /\ timeout' = SendTimeout
     /\ misscnt' = miss
     /\ unanswered' = heads
  \/ HeadSent(miss, heads)

(* keep-alive returns with timeout = t, the socket is closed.  The         *)
(* forwarder is told, see NatmapTcp.                                       *)
SessionEnds(t) ==
  /\ kpc' = "sleep"
  /\ kst' = "sleep"
  /\ timeout' = t
  /\ misscnt' = 0
  /\ unanswered' = 0
  /\ ksocks' = 0

(* hev_sock_client_base returned a socket bound to a.                      *)
BaseSucceeds(a) ==
  /\ kpc \in {"dns", "connect"}
  /\ kst \in Ready
  /\ kpc = "connect" => MayHaveTimeLeft(kst)
  /\ saddr' = a
  /\ port_next' = FALSE
  /\ kretries' = 0

(* The STUN client is run, see NatmapTcp, and keep-alive entered ...       *)
Established(a) ==
  /\ BaseSucceeds(a)
  /\ ksocks' = IF kpc = "dns" THEN ksocks + 1 ELSE ksocks
  /\ SendHead(0, 0)

(* ... which may fail before its first wait.                               *)
EstablishedEnds(a) ==
  /\ BaseSucceeds(a)
  /\ \E t \in {SendTimeout, Keep} : SessionEnds(t)

(* Woken in sendmsg with time left.  If it still blocks, the yielder reads *)
(* timeout: with 0 it does not wait.                                       *)
SendAgain ==
  /\ kpc = "send"
  /\ MayHaveTimeLeft(kst)
  /\ \/ /\ timeout # 0
        /\ kst' = "sleep"
        /\ UNCHANGED <<kpc, session>>
     \/ HeadSent(misscnt, unanswered)
  /\ UNCHANGED <<kretries, port_next, saddr, ksocks>>

(* Mutant of RecvAgain: misscnt is not reset when the peer is heard.       *)
RecvAgainCounting ==
  /\ kpc = "recv"
  /\ MayHaveTimeLeft(kst)
  /\ timeout # 0
  /\ kst' = "sleep"
  /\ unanswered' \in {unanswered, 0}
  /\ UNCHANGED <<kpc, timeout, misscnt, kretries, port_next, saddr, ksocks>>

(* Woken in recv with time left: nothing there, or data and then nothing;  *)
(* the yielder waits again, if timeout is not 0.                           *)
RecvAgain ==
  /\ kpc = "recv"
  /\ MayHaveTimeLeft(kst)
  /\ timeout # 0
  /\ kst' = "sleep"
  /\ \/ UNCHANGED <<misscnt, unanswered>>
     \/ misscnt' = 0 /\ unanswered' = 0
  /\ UNCHANGED <<kpc, timeout, kretries, port_next, saddr, ksocks>>

(* Mutants of RecvMissed: the miss is not counted; timeout is not tested.  *)
RecvMissedUncounted ==
  /\ kpc = "recv"
  /\ MayHaveElapsed(kst)
  /\ misscnt = 0
  /\ timeout # 0
  /\ SendHead(0, unanswered)
  /\ UNCHANGED <<kretries, port_next, saddr, ksocks>>

RecvMissedThoughKilled ==
  /\ kpc = "recv"
  /\ MayHaveElapsed(kst)
  /\ misscnt = 0
  /\ SendHead(1, unanswered)
  /\ UNCHANGED <<kretries, port_next, saddr, ksocks>>

(* The wait in recv ran out for the first time: another HEAD is sent.      *)
RecvMissed ==
  /\ kpc = "recv"
  /\ MayHaveElapsed(kst)
  /\ misscnt = 0
  /\ timeout # 0
  /\ SendHead(1, unanswered)
  /\ UNCHANGED <<kretries, port_next, saddr, ksocks>>

(* The session ends in sendmsg or recv: the peer closed, an error, a wait  *)
(* that ran out in sendmsg or for the second time in recv, or timeout = 0. *)
(* A keeper that got to send another HEAD first has changed timeout.       *)
KeepAliveEnds ==
  /\ InSession
  /\ kst \in Ready
  /\ kpc = "recv" /\ kst = "expired" => misscnt = 1 \/ timeout = 0
  /\ SessionEnds(timeout)
  /\ UNCHANGED <<kretries, port_next, saddr>>

ResendEnds ==
  /\ InSession
  /\ kst \in Ready
  /\ kpc = "send" => MayHaveTimeLeft(kst)
  /\ kpc = "recv" => misscnt = 0 /\ timeout # 0
  /\ \E t \in {SendTimeout, Keep} : SessionEnds(t)
  /\ UNCHANGED <<kretries, port_next, saddr>>

-----------------------------------------------------------------------------
(* The resolver has answered, well or not.                                 *)
DnsAnswered ==
  /\ kpc = "dns"
  /\ \/ ConnectStarts
     \/ BaseFails
     \/ \E a \in Addrs : Established(a) \/ EstablishedEnds(a)

Segment ==
  \/ Begin
  \/ DnsAgain
  \/ ConnectStarts
  \/ ConnectAgain
  \/ BaseFails
  \/ \E a \in Addrs : Established(a) \/ EstablishedEnds(a)
  \/ SendAgain
  \/ RecvAgain
  \/ RecvMissed
  \/ KeepAliveEnds
  \/ ResendEnds

(* The keeper on its own: it may be killed and woken at any time.          *)
Next == Segment \/ Kill \/ Io \/ Timer

(* Queued tasks run, timers run out, and a lookup does not take for ever.  *)
Fairness ==
  /\ WF_kvars(Segment)
  /\ WF_kvars(Timer)
  /\ WF_kvars(kpc = "dns" /\ Io)
  /\ SF_kvars(DnsAnswered)

Spec == Init /\ [][Next]_kvars /\ Fairness

-----------------------------------------------------------------------------
TypeOK ==
  /\ kpc \in {"new", "dns", "connect", "send", "recv", "sleep"}
  /\ kst \in TaskStatus \ {"none"}
  /\ timeout \in {0, SendTimeout, Keep}
  /\ misscnt \in {0, 1}
  /\ kretries \in 0 .. MaxRetries - 1
  /\ port_next \in BOOLEAN
  /\ saddr \in Addrs \cup {NoAddr}
  /\ ksocks \in Nat
  /\ unanswered \in Nat

(* One connection at a time: every path out of a session and out of a      *)
(* failed attempt closes the socket, so a keeper that runs for months does *)
(* not run out of descriptors, nor keep two connections on one port.       *)
SocketsOwned ==
  ksocks = IF kpc \in {"connect", "send", "recv"} THEN 1 ELSE 0

(* A peer that went silent gets at most two HEADs: the mapping dies in the *)
(* NAT at about that time, and the keeper must notice and start over.      *)
SilentPeerBound == unanswered <= 2

(* A peer that answers is never given up: with one more wait that runs out *)
(* the session would end (misscnt = 1), only if a HEAD is unanswered.      *)
LivePeerKept == kpc = "recv" /\ misscnt = 1 => unanswered > 0

(* A keeper killed while it waits for the peer sends no more HEADs on that *)
(* connection, even if the wait also ran out, or data came, before it ran. *)
KilledSendsNoMore ==
  [][kpc = "recv" /\ timeout = 0 => kpc' \in {"recv", "sleep"}
                                    /\ unanswered' <= unanswered]_kvars

(* connect comes to an end, however often the task is woken up meanwhile:  *)
(* each wake-up starts the 30 seconds again, and only the retry bound of   *)
(* connect_io_yielder stops that.                                          *)
ConnectEnds == kpc = "connect" ~> kpc # "connect"

(* If from some time on the socket has no events any more, a HEAD that was *)
(* not answered by then ends the session, or was answered after all.       *)
SilenceEndsSession ==
  <>[][~Io]_kvars => (kpc = "recv" /\ unanswered > 0 ~> unanswered = 0)

=============================================================================
