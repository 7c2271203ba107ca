------------------------------- MODULE StunUdp -------------------------------
(***************************************************************************)
(* The STUN client in UDP mode (stun_udp and the loop of task_entry in     *)
(* hev-stun.c).  The task stays after its answer: it waits for an event,   *)
(* which hev_stun_run gives it with a wake-up, and then asks again from    *)
(* the same socket.  Only a failure ends it.  How it is made and gets its  *)
(* socket is as in TCP mode (module Stun), but connect does not wait.      *)
(*                                                                         *)
(* A request that is lost is sent again after three seconds.  Whatever     *)
(* datagram is received next is taken for the answer: requests carry a     *)
(* transaction id, which is not compared.  So answers need no identity     *)
(* here, and are counted: those on their way, and those in the socket's    *)
(* buffer.  They may be late, lost or doubled.                             *)
(***************************************************************************)
EXTENDS TaskSystem, Naturals

CONSTANTS
  Addrs,         \* addresses the keeper can be bound to
  NoAddr,        \* no STUN socket
  MaxTries,      \* udp_retry1 and udp_retry2, 10 in the code
  MaxAnswers,    \* bound: answers on their way, and answers in the buffer
  IdleEvents,    \* the socket may have events that are not datagrams, such
                 \* as POLLOUT, while the task is idle
  StunBlocks     \* the socket's send buffer may be full

VARIABLES
  stask,     \* static task is not NULL
  spc,       \* where the task is
  sst,       \* its scheduling status
  tries,     \* the local i of stun_udp, from 1
  sbound,    \* the address its socket is bound to
  ssocks,    \* number of open STUN sockets
  inbox,     \* answers in the buffer of the socket
  flight     \* answers on their way

svars == <<stask, spc, sst, tries, sbound, ssocks, inbox, flight>>
net == <<inbox, flight>>

(* The life of the task until it has a socket.                             *)
T == INSTANCE Stun WITH MaxRetries <- 100, sretries <- 0

InExchange == spc \in {"send", "recv"}

Init ==
  /\ T!Init
  /\ tries = 0
  /\ inbox = 0
  /\ flight = 0

-----------------------------------------------------------------------------
(* hev_stun_run: also an idle task is woken up, whichever session its      *)
(* socket was made for.                                                    *)
Run ==
  /\ T!Run
  /\ UNCHANGED <<tries, net>>

(* The resolver answers, or the socket has an event that is no datagram:   *)
(* an error, or POLLOUT, which the task has subscribed to as well.         *)
Event ==
  /\ spc = "idle" => IdleEvents
  /\ sst \in Blocked
  /\ sst' = "run"
  /\ UNCHANGED <<stask, spc, tries, sbound, ssocks, net>>

Timer ==
  /\ T!Timer
  /\ UNCHANGED <<tries, net>>

(* A datagram arrives for the socket, perhaps not for the last time; the   *)
(* task that waits on it is woken up in whatever wait that is.             *)
Arrive ==
  /\ flight > 0
  /\ ssocks > 0
  /\ inbox < MaxAnswers
  /\ flight' \in {flight - 1, flight}
  /\ inbox' = inbox + 1
  /\ sst' = Wakeup(sst)
  /\ UNCHANGED <<stask, spc, tries, sbound, ssocks>>

Lost ==
  /\ flight > 0
  /\ flight' = flight - 1
  /\ UNCHANGED <<stask, spc, sst, tries, sbound, ssocks, inbox>>

-----------------------------------------------------------------------------
Lookup ==
  /\ T!Lookup \/ T!DnsAgain
  /\ UNCHANGED <<tries, net>>

(* Mutant of NextTry: the tries are not counted.                           *)
NextTryForEver(i) ==
  /\ sst \in Ready
  /\ \/ spc \in {"dns", "idle"} /\ i = 1
     \/ spc = "send" /\ MayHaveTimeLeft(sst) /\ i = tries
     \/ spc = "recv" /\ i = tries

(* The task is about to send the request for the i-th time: it has just    *)
(* got its socket, or was woken up; there may be room now for the request; *)
(* or recv has failed, with an error, an empty datagram or a timeout.      *)
NextTry(i) ==
  /\ sst \in Ready
  /\ \/ spc \in {"dns", "idle"} /\ i = 1
     \/ spc = "send" /\ MayHaveTimeLeft(sst) /\ i = tries
     \/ spc = "recv" /\ tries < MaxTries /\ i = tries + 1

(* A task in the lookup binds its socket to a first.                       *)
Bound(a) ==
  IF spc = "dns" THEN sbound' = a /\ ssocks' = ssocks + 1
                 ELSE UNCHANGED <<sbound, ssocks>>

(* The request goes out.  The server answers it, or not.                   *)
Request == flight' \in {flight} \cup {f \in {flight + 1} : f <= MaxAnswers}

(* The request is sent and recv finds nothing, or send has to wait.        *)
Ask(a) ==
  /\ \E i \in 1 .. MaxTries : NextTry(i) /\ tries' = i
  /\ Bound(a)
  /\ \/ /\ inbox = 0
        /\ Request
        /\ spc' = "recv"
     \/ /\ StunBlocks
        /\ spc' = "send"
        /\ UNCHANGED flight
  /\ sst' = "sleep"
  /\ UNCHANGED <<stask, inbox>>

(* Woken up by nothing of use: recv waits anew, with the full timeout.     *)
RecvAgain ==
  /\ spc = "recv"
  /\ MayHaveTimeLeft(sst)
  /\ inbox = 0
  /\ sst' = "sleep"
  /\ UNCHANGED <<stask, spc, tries, sbound, ssocks, net>>

(* recv finds a datagram, perhaps right after the request was sent, and    *)
(* stun_unpack an address in it.  A mapping is reported, see NatmapUdp.    *)
Succeed ==
  /\ inbox > 0
  /\ \/ /\ spc = "recv"
        /\ MayHaveTimeLeft(sst)
        /\ UNCHANGED flight
     \/ /\ \E i \in 1 .. MaxTries : NextTry(i)
        /\ Request
  /\ inbox' = inbox - 1
  /\ spc' = "idle"
  /\ sst' = "wait"
  /\ tries' = 0
  /\ UNCHANGED <<stask, sbound, ssocks>>

(* Mutant of Fail: the socket is not closed.                               *)
FailOpen ==
  /\ spc \in {"dns", "send", "recv", "idle"}
  /\ sst \in Ready
  /\ T!Exit(ssocks)
  /\ tries' = 0
  /\ inbox' = 0
  /\ Request

(* A step of hev_sock_client_stun fails, or send, or recv for the last     *)
(* time, or there is no address in the datagram.  The keeper is killed,    *)
(* see NatmapUdp.                                                          *)
Fail ==
  /\ spc \in {"dns", "send", "recv", "idle"}
  /\ sst \in Ready
  /\ T!Exit(IF spc = "dns" THEN ssocks ELSE ssocks - 1)
  /\ tries' = 0
  /\ inbox' = 0
  /\ Request

-----------------------------------------------------------------------------
TypeOK ==
  /\ stask \in BOOLEAN
  /\ spc \in {"none", "new", "dns", "send", "recv", "idle"}
  /\ sst \in TaskStatus
  /\ tries \in 0 .. MaxTries
  /\ sbound \in Addrs \cup {NoAddr}
  /\ ssocks \in {0, 1}
  /\ inbox \in Nat
  /\ flight \in Nat

(* As in TCP mode (TaskOwned in Stun), also for the task that stays after  *)
(* its answer: it and its socket are there as long as static task says so. *)
TaskOwned ==
  /\ stask <=> spc # "none"
  /\ stask <=> sst # "none"
  /\ ssocks = IF spc \in {"send", "recv", "idle"} THEN 1 ELSE 0

=============================================================================
