-------------------------------- MODULE Stun --------------------------------
(***************************************************************************)
(* The STUN client in TCP mode (hev-stun.c, hev_sock_client_stun in        *)
(* hev-sock.c): a task that asks the STUN server, from the keeper's bound  *)
(* address, for the public address of it, once, and ends.                  *)
(*                                                                         *)
(* The task gets the address of the keeper's static saddr, not its value:  *)
(* it is read when the socket is bound, after the server was looked up.    *)
(***************************************************************************)
EXTENDS TaskSystem, Naturals

CONSTANTS
  Addrs,      \* addresses the keeper can be bound to
  NoAddr,     \* no STUN socket
  MaxRetries  \* 100 in connect_io_yielder

ASSUME StunAssumption ==
  /\ NoAddr \notin Addrs
  /\ MaxRetries \in Nat \ {0, 1}

VARIABLES
  stask,     \* static task is not NULL
  spc,       \* where the task is
  sst,       \* its scheduling status
  sretries,  \* how often the present connect was tried
  sbound,    \* the address its socket is bound to
  ssocks     \* number of open STUN sockets

svars == <<stask, spc, sst, sretries, sbound, ssocks>>

(* The waits of stun_tcp, in their order: for room to send the request,    *)
(* for the header of the answer, for its body.                             *)
Exchange == <<"send", "header", "body">>

InExchange == \E i \in DOMAIN Exchange : spc = Exchange[i]

Init ==
  /\ stask = FALSE
  /\ spc = "none"
  /\ sst = "none"
  /\ sretries = 0
  /\ sbound = NoAddr
  /\ ssocks = 0

-----------------------------------------------------------------------------
(* hev_stun_run: a task that is still there is woken up, whatever it is    *)
(* doing and for whichever session it was made, else a new one is queued.  *)
Run ==
  \/ /\ stask
     /\ sst' = Wakeup(sst)
     /\ UNCHANGED <<stask, spc, sretries, sbound, ssocks>>
  \/ /\ ~stask
     /\ stask' = TRUE
     /\ spc' = "new"
     /\ sst' = "run"
     /\ UNCHANGED <<sretries, sbound, ssocks>>

(* The resolver answers, or the socket has an event.                       *)
Io ==
  /\ sst \in Blocked
  /\ sst' = "run"
  /\ UNCHANGED <<stask, spc, sretries, sbound, ssocks>>

Timer ==
  /\ sst = "sleep"
  /\ sst' = "expired"
  /\ UNCHANGED <<stask, spc, sretries, sbound, ssocks>>

-----------------------------------------------------------------------------
(* task_entry starts, and looks the server up.                             *)
Lookup ==
  /\ spc = "new"
  /\ sst \in Ready
  /\ spc' = "dns"
  /\ sst' = "wait"
  /\ UNCHANGED <<stask, sretries, sbound, ssocks>>

(* Woken up before the resolver has answered.                              *)
DnsAgain ==
  /\ spc = "dns"
  /\ sst \in Ready
  /\ sst' = "wait"
  /\ UNCHANGED <<stask, spc, sretries, sbound, ssocks>>

(* The socket is bound to a, which the keeper's saddr says, and connect is *)
(* in progress.                                                            *)
Bind(a) ==
  /\ spc = "dns"
  /\ sst \in Ready
  /\ spc' = "connect"
  /\ sst' = "sleep"
  /\ sretries' = 1
  /\ sbound' = a
  /\ ssocks' = ssocks + 1
  /\ UNCHANGED stask

(* Mutant of ConnectAgain: wake-ups are not counted.                       *)
ConnectAgainForEver ==
  /\ spc = "connect"
  /\ MayHaveTimeLeft(sst)
  /\ sst' = "sleep"
  /\ UNCHANGED <<stask, spc, sretries, sbound, ssocks>>

(* Still in progress when woken up: counted, and waited for anew.          *)
ConnectAgain ==
  /\ spc = "connect"
  /\ MayHaveTimeLeft(sst)
  /\ sretries + 1 < MaxRetries
  /\ sretries' = sretries + 1
  /\ sst' = "sleep"
  /\ UNCHANGED <<stask, spc, sbound, ssocks>>

(* Mutant of Advance: the waits have no timeout.                           *)
AdvanceUntimed ==
  /\ MayHaveTimeLeft(sst)
  /\ \E i \in DOMAIN Exchange :
       /\ \/ spc = "connect"
          \/ \E j \in 1 .. i : spc = Exchange[j]
       /\ spc' = Exchange[i]
  /\ sst' = "wait"
  /\ sretries' = 0
  /\ UNCHANGED <<stask, sbound, ssocks>>

(* Connected, or a wait of the exchange is over: on to the next wait that  *)
(* does block, which may be the same one again.                            *)
Advance ==
  /\ MayHaveTimeLeft(sst)
  /\ \E i \in DOMAIN Exchange :
       /\ \/ spc = "connect"
          \/ \E j \in 1 .. i : spc = Exchange[j]
       /\ spc' = Exchange[i]
  /\ sst' = "sleep"
  /\ sretries' = 0
  /\ UNCHANGED <<stask, sbound, ssocks>>

(* The task returns; n of its sockets are left open.                       *)
Exit(n) ==
  /\ stask' = FALSE
  /\ spc' = "none"
  /\ sst' = "none"
  /\ sretries' = 0
  /\ sbound' = NoAddr
  /\ ssocks' = n

(* The whole answer is there and stun_unpack finds an address in it.  The  *)
(* handler is called and a mapping reported, see NatmapTcp.                *)
Succeed ==
  /\ InExchange \/ spc = "connect"
  /\ MayHaveTimeLeft(sst)
  /\ Exit(ssocks - 1)

(* Mutant of Fail: it returns before task = NULL.                          *)
FailKeepsTask ==
  /\ spc = "dns" \/ spc = "connect" \/ InExchange
  /\ sst \in Ready
  /\ spc' = "none"
  /\ sst' = "none"
  /\ sretries' = 0
  /\ sbound' = NoAddr
  /\ ssocks' = IF spc = "dns" THEN ssocks ELSE ssocks - 1
  /\ UNCHANGED stask

(* A step of hev_sock_client_stun fails, an error or a timeout in the      *)
(* exchange, or no address in the answer.  hev_xnsk_kill is called, see    *)
(* NatmapTcp.                                                              *)
Fail ==
  /\ spc = "dns" \/ spc = "connect" \/ InExchange
  /\ sst \in Ready
  /\ Exit(IF spc = "dns" THEN ssocks ELSE ssocks - 1)

-----------------------------------------------------------------------------
DnsAnswered(a) ==
  /\ spc = "dns"
  /\ Bind(a) \/ Fail

Segment(a) ==
  \/ Lookup
  \/ DnsAgain
  \/ Bind(a)
  \/ ConnectAgain
  \/ Advance
  \/ Succeed
  \/ Fail

(* The client on its own: it may be run at any time, and saddr be any      *)
(* address when it binds.                                                  *)
Next ==
  \/ \E a \in Addrs : Segment(a)
  \/ Run
  \/ Io
  \/ Timer

(* Queued tasks run, timers run out, and a lookup does not take for ever.  *)
Fairness ==
  /\ WF_svars(\E a \in Addrs : Segment(a))
  /\ WF_svars(Timer)
  /\ WF_svars(spc = "dns" /\ Io)
  /\ SF_svars(\E a \in Addrs : DnsAnswered(a))

Spec == Init /\ [][Next]_svars /\ Fairness

-----------------------------------------------------------------------------
TypeOK ==
  /\ stask \in BOOLEAN
  /\ spc \in {"none", "new", "dns", "connect", "send", "header", "body"}
  /\ sst \in TaskStatus
  /\ sretries \in 0 .. MaxRetries - 1
  /\ sbound \in Addrs \cup {NoAddr}
  /\ ssocks \in Nat

(* There is at most one STUN task, and static task is NULL exactly when    *)
(* there is none: hev_stun_run would otherwise wake up a task that is gone *)
(* or put a second one on the same port.  Its socket is closed on every    *)
(* path.                                                                   *)
TaskOwned ==
  /\ stask <=> spc # "none"
  /\ stask <=> sst # "none"
  /\ ssocks = IF spc = "connect" \/ InExchange THEN 1 ELSE 0

(* If from some time on the socket has no events and nobody runs the       *)
(* client, the task ends, so that the next session gets one of its own.    *)
(* Wake-ups start the timeout of a wait again, but for the bound in        *)
(* connect.                                                                *)
ClientEnds == <>[][~Io /\ ~Run]_svars => (stask ~> ~stask)

(* connect alone ends however often the task is woken up.                  *)
ConnectEnds == spc = "connect" ~> spc # "connect"

=============================================================================
