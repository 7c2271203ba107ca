-------------------------------- MODULE Ufwd --------------------------------
(***************************************************************************)
(* The UDP forwarder (hev-ufwd.c): one server task that receives on the    *)
(* keeper's bound address, and for each peer a session: a socket connected *)
(* to the target, a task that sends the target's answers back, and an      *)
(* entry in a tree of sessions ordered by the peer's address.              *)
(*                                                                         *)
(* The server creates sessions, their own tasks end them; a server that    *)
(* quits leaves them as they are.  The tasks send through static sfd,      *)
(* which is the socket of whatever server there is at that time.           *)
(***************************************************************************)
EXTENDS TaskSystem, Naturals

CONSTANTS
  Addrs,      \* addresses the server can be told to receive on
  NoAddr,     \* not an address: sfd = -1
  Peers,      \* peers that send datagrams
  NoPeer,     \* not a peer
  SendBlocks  \* a socket's send buffer may be full

ASSUME UfwdAssumption ==
  /\ NoAddr \notin Addrs
  /\ NoPeer \notin Peers
  /\ SendBlocks \in BOOLEAN

VARIABLES
  utask,     \* static task is not NULL
  quit,      \* static quit is not 0
  upc,       \* where the server is: "none", "new", "recv", "dns", "send"
  ust,       \* its scheduling status
  uaddr,     \* the address sfd is bound to
  usocks,    \* number of open sockets of servers
  peer,      \* whose session the server has in hand in dns and send
  sessions,  \* the peers in the tree
  cpc,       \* where each session's task is: "none", "new", "recv", "send"
  cst,       \* its scheduling status
  active,    \* the flag of each session
  csocks,    \* number of open sockets of each peer's sessions
  killed     \* history: hev_ufwd_kill was called since the server began to
             \* wait in recv

uvars == <<utask, quit, upc, ust, uaddr, usocks, peer, sessions, cpc, cst,
           active, csocks, killed>>
server == <<utask, quit, upc, ust, uaddr, usocks, peer, killed>>
clients == <<sessions, cpc, cst, active, csocks>>

Init ==
  /\ utask = FALSE
  /\ quit = FALSE
  /\ upc = "none"
  /\ ust = "none"
  /\ uaddr = NoAddr
  /\ usocks = 0
  /\ peer = NoPeer
  /\ sessions = {}
  /\ cpc = [p \in Peers |-> "none"]
  /\ cst = [p \in Peers |-> "none"]
  /\ active = [p \in Peers |-> FALSE]
  /\ csocks = [p \in Peers |-> 0]
  /\ killed = FALSE

-----------------------------------------------------------------------------
(***************************************************************************)
(* The interface to the rest of the program.                               *)
(***************************************************************************)

(* Nothing if there is a server task, else a new one in the queue.         *)
NewServer ==
  \/ utask /\ UNCHANGED <<utask, upc, ust>>
  \/ ~utask /\ utask' = TRUE /\ upc' = "new" /\ ust' = "run"

(* Mutant of Run: quit is reset here, not by the server.                   *)
RunClearsQuit ==
  /\ NewServer
  /\ quit' = FALSE
  /\ UNCHANGED <<uaddr, usocks, peer, killed, clients>>

(* hev_ufwd_run                                                            *)
Run ==
  /\ NewServer
  /\ UNCHANGED <<quit, uaddr, usocks, peer, killed, clients>>

(* Mutant of Kill: the server is not woken up.                             *)
KillWithoutWakeup ==
  /\ quit' = TRUE
  /\ killed' = (upc = "recv")
  /\ UNCHANGED <<utask, upc, ust, uaddr, usocks, peer, clients>>

(* hev_ufwd_kill: set quit, and wake the server if there is one.           *)
Kill ==
  /\ quit' = TRUE
  /\ killed' = (upc = "recv")
  /\ ust' = IF utask THEN Wakeup(ust) ELSE ust
  /\ UNCHANGED <<utask, upc, uaddr, usocks, peer, clients>>

-----------------------------------------------------------------------------
(***************************************************************************)
(* The server task.  From one wait to the next it may get past any number  *)
(* of datagrams; Serve says what it did for peers that have sessions, and  *)
(* at which wait it stops, or that it ends.                                *)
(***************************************************************************)

At(pc) == upc = pc /\ ust \in Ready

(* The server waits at pc with the session of p in hand.                   *)
ServerWaits(pc, p) ==
  /\ upc' = pc
  /\ ust' = "wait"
  /\ peer' = p
  /\ UNCHANGED utask

(* The server returns: n of its sockets are left open, task = NULL and     *)
(* sfd = -1.                                                               *)
ServerExit(n) ==
  /\ utask' = FALSE
  /\ upc' = "none"
  /\ ust' = "none"
  /\ uaddr' = NoAddr
  /\ usocks' = n
  /\ peer' = NoPeer

(* Mutant of LookUp: session_find is not asked.                            *)
LookUpAnyone(known) == \E p \in Peers : ServerWaits("dns", p)

(* A datagram of a peer without a session: session_new looks the target's  *)
(* address up.                                                             *)
LookUp(known) == \E p \in Peers \ known : ServerWaits("dns", p)

(* Datagrams of the peers in T, which have sessions, were forwarded and    *)
(* these marked.  Then there is no more datagram and recvfrom waits (quit  *)
(* is tested only after that wait), or a datagram that needs a new session *)
(* or cannot be sent yet, or recvfrom fails.  The socket is bound to a, n  *)
(* are open with it.                                                       *)
Serve(known, T, a, n) ==
  /\ T \subseteq known
  /\ active' = [p \in Peers |-> p \in T \/ active[p]]
  /\ killed' = FALSE
  /\ \/ /\ \/ ServerWaits("recv", NoPeer)
           \/ LookUp(known)
           \/ SendBlocks /\ \E p \in known : ServerWaits("send", p)
        /\ uaddr' = a
        /\ usocks' = n
     \/ ServerExit(n - 1)

(* hev_sock_server_pfwd failed and has closed its socket.  The caller also *)
(* kills the keeper.                                                       *)
StartFails ==
  /\ At("new")
  /\ ServerExit(usocks)
  /\ UNCHANGED <<quit, killed, clients>>

(* Bound to a.  quit = 0 forgets any hev_ufwd_kill that was called before  *)
(* the task first ran.                                                     *)
Start(a, T) ==
  /\ At("new")
  /\ quit' = FALSE
  /\ Serve(sessions, T, a, usocks + 1)
  /\ UNCHANGED <<sessions, cpc, cst, csocks>>

(* The yielder runs again and returns quit: recvfrom gives up with -2.     *)
Quit ==
  /\ At("recv")
  /\ quit
  /\ ServerExit(usocks - 1)
  /\ killed' = FALSE
  /\ UNCHANGED <<quit, clients>>

(* Without quit, recvfrom tries again.                                     *)
Receive(T) ==
  /\ At("recv")
  /\ ~quit
  /\ Serve(sessions, T, uaddr, usocks)
  /\ UNCHANGED <<quit, sessions, cpc, cst, csocks>>

(* Woken up before the resolver has answered: by hev_ufwd_kill, or by a    *)
(* datagram.                                                               *)
DnsAgain ==
  /\ At("dns")
  /\ ust' = "wait"
  /\ UNCHANGED <<utask, quit, upc, uaddr, usocks, peer, killed, clients>>

(* session_new fails and has closed its socket; the datagram is dropped.   *)
SessionFails(T) ==
  /\ At("dns")
  /\ Serve(sessions, T, uaddr, usocks)
  /\ UNCHANGED <<quit, sessions, cpc, cst, csocks>>

(* The session joins the tree, its task the run queue.  The datagram is    *)
(* sent and the session marked, or the server waits before it is.          *)
SessionNew(T) ==
  /\ At("dns")
  /\ sessions' = sessions \cup {peer}
  /\ cpc' = [cpc EXCEPT ![peer] = "new"]
  /\ cst' = [cst EXCEPT ![peer] = "run"]
  /\ csocks' = [csocks EXCEPT ![peer] = @ + 1]
  /\ \/ /\ peer \in T
        /\ Serve(sessions', T, uaddr, usocks)
     \/ /\ SendBlocks
        /\ ServerWaits("send", peer)
        /\ T = {}
        /\ UNCHANGED <<uaddr, usocks, active, killed>>
  /\ UNCHANGED quit

(* Woken up in send.  The socket may still be full; else the datagram is   *)
(* sent and the session marked.  If the session has ended meanwhile, the   *)
(* pointer to it dangles: no other session is marked in that case.         *)
SendAgain(T) ==
  /\ At("send")
  /\ \/ /\ T = {}
        /\ ServerWaits("send", peer)
        /\ UNCHANGED <<uaddr, usocks, active, killed>>
     \/ /\ peer \in sessions => peer \in T
        /\ Serve(sessions, T, uaddr, usocks)
  /\ UNCHANGED <<quit, sessions, cpc, cst, csocks>>

(* A datagram has arrived, or the resolver has answered.                   *)
Incoming ==
  /\ upc \in {"recv", "dns", "send"}
  /\ ust \in Blocked
  /\ ust' = "run"
  /\ UNCHANGED <<utask, quit, upc, uaddr, usocks, peer, killed, clients>>

-----------------------------------------------------------------------------
(***************************************************************************)
(* The task of a session.                                                  *)
(***************************************************************************)

(* session_free, and the end of the task.                                  *)
ClientGone(p) ==
  /\ cpc' = [cpc EXCEPT ![p] = "none"]
  /\ cst' = [cst EXCEPT ![p] = "none"]
  /\ active' = [active EXCEPT ![p] = FALSE]
  /\ csocks' = [csocks EXCEPT ![p] = @ - 1]

(* Mutant of ClientEnds: the session stays in the tree.                    *)
ClientEndsInTree(p) == ClientGone(p) /\ UNCHANGED sessions

(* session_del comes first.                                                *)
ClientEnds(p) == sessions' = sessions \ {p} /\ ClientGone(p)

(* The task waits at pc, the mark having been taken away at the start of   *)
(* the loop.                                                               *)
ClientWaits(p, pc, st) ==
  /\ cpc' = [cpc EXCEPT ![p] = pc]
  /\ cst' = [cst EXCEPT ![p] = st]
  /\ active' = [active EXCEPT ![p] = FALSE]
  /\ UNCHANGED <<sessions, csocks>>

(* Mutant of ClientLoop: the mark stays.                                   *)
ClientLoopMarked(p) ==
  \/ /\ cpc' = [cpc EXCEPT ![p] = "recv"]
     /\ cst' = [cst EXCEPT ![p] = "sleep"]
     /\ UNCHANGED <<sessions, active, csocks>>
  \/ ClientEnds(p)

(* The loop starts over, and goes round for every answer that is there.    *)
(* Then recvfrom waits; or sendto does, without a timeout and on a socket  *)
(* whose events go to the server's task, not to this one; or one of them   *)
(* fails (sendto does when there is no server).                            *)
ClientLoop(p) ==
  \/ ClientWaits(p, "recv", "sleep")
  \/ SendBlocks /\ uaddr # NoAddr /\ ClientWaits(p, "send", "wait")
  \/ ClientEnds(p)

ClientStarts(p) ==
  /\ cpc[p] = "new"
  /\ ClientLoop(p)
  /\ UNCHANGED server

(* Woken up, but there is no answer, or still no room for one: recvfrom or *)
(* sendto waits anew.                                                      *)
ClientAgain(p) ==
  /\ \/ /\ cpc[p] = "recv"
        /\ MayHaveTimeLeft(cst[p])
        /\ cst' = [cst EXCEPT ![p] = "sleep"]
     \/ /\ cpc[p] = "send"
        /\ cst[p] \in Ready
        /\ cst' = [cst EXCEPT ![p] = "wait"]
  /\ UNCHANGED <<server, sessions, cpc, active, csocks>>

(* There is an answer; it goes to the peer if there is a server.           *)
ClientAnswers(p) ==
  /\ cpc[p] = "recv"
  /\ MayHaveTimeLeft(cst[p])
  /\ uaddr # NoAddr
  /\ ClientLoop(p)
  /\ UNCHANGED server

(* Another answer has woken the task up in sendto, which goes on, or fails.*)
ClientSendsAgain(p) ==
  /\ cpc[p] = "send"
  /\ cst[p] \in Ready
  /\ ClientLoop(p)
  /\ UNCHANGED server

(* There is an error, an empty answer, or one with no server to send it.   *)
ClientFails(p) ==
  /\ cpc[p] = "recv"
  /\ MayHaveTimeLeft(cst[p])
  /\ ClientEnds(p)
  /\ UNCHANGED server

(* The wait ran out: a marked session waits once more.                     *)
ClientTimesOut(p) ==
  /\ cpc[p] = "recv"
  /\ MayHaveElapsed(cst[p])
  /\ \/ active[p] /\ ClientLoop(p)
     \/ ~active[p] /\ ClientEnds(p)
  /\ UNCHANGED server

ClientSegment(p) ==
  \/ ClientStarts(p)
  \/ ClientAgain(p)
  \/ ClientAnswers(p)
  \/ ClientSendsAgain(p)
  \/ ClientFails(p)
  \/ ClientTimesOut(p)

(* The session's socket has an event, or the timer runs out.               *)
ClientIo(p) ==
  /\ cpc[p] \in {"recv", "send"}
  /\ cst[p] \in Blocked
  /\ cst' = [cst EXCEPT ![p] = "run"]
  /\ UNCHANGED <<server, sessions, cpc, active, csocks>>

ClientTimer(p) ==
  /\ cst[p] = "sleep"
  /\ cst' = [cst EXCEPT ![p] = "expired"]
  /\ UNCHANGED <<server, sessions, cpc, active, csocks>>

-----------------------------------------------------------------------------
(***************************************************************************)
(* The forwarder among arbitrary callers of hev_ufwd_run and _kill.        *)
(***************************************************************************)
ServerSegment ==
  \/ StartFails
  \/ Quit
  \/ DnsAgain
  \/ \E a \in Addrs, T \in SUBSET Peers : Start(a, T)
  \/ \E T \in SUBSET Peers :
       Receive(T) \/ SessionFails(T) \/ SessionNew(T) \/ SendAgain(T)

Next ==
  \/ Run
  \/ Kill
  \/ ServerSegment
  \/ Incoming
  \/ \E p \in Peers : ClientSegment(p) \/ ClientIo(p) \/ ClientTimer(p)

(* The library runs queued tasks, and timers run out.                      *)
Fairness ==
  /\ WF_uvars(ServerSegment)
  /\ \A p \in Peers : WF_uvars(ClientSegment(p)) /\ WF_uvars(ClientTimer(p))

Spec == Init /\ [][Next]_uvars /\ Fairness

-----------------------------------------------------------------------------
TypeOK ==
  /\ utask \in BOOLEAN
  /\ quit \in BOOLEAN
  /\ upc \in {"none", "new", "recv", "dns", "send"}
  /\ ust \in TaskStatus
  /\ uaddr \in Addrs \cup {NoAddr}
  /\ usocks \in Nat
  /\ peer \in Peers \cup {NoPeer}
  /\ sessions \subseteq Peers
  /\ cpc \in [Peers -> {"none", "new", "recv", "send"}]
  /\ cst \in [Peers -> TaskStatus]
  /\ active \in [Peers -> BOOLEAN]
  /\ csocks \in [Peers -> Nat]
  /\ killed \in BOOLEAN

(* The tree holds exactly the sessions whose tasks are there, each with    *)
(* one open socket, while servers and sessions come and go on their own:   *)
(* an entry without a task would swallow the peer's datagrams for ever.    *)
(* There is one server socket at most, and sfd is it.                      *)
SessionsOwned ==
  /\ \A p \in Peers :
       /\ p \in sessions <=> cpc[p] # "none"
       /\ csocks[p] = IF p \in sessions THEN 1 ELSE 0
  /\ usocks = IF upc \in {"recv", "dns", "send"} THEN 1 ELSE 0
  /\ uaddr # NoAddr <=> usocks = 1

(* session_find and session_add are a lookup apart, in which other tasks   *)
(* run.  session_add loops for ever on an address that is in the tree; no  *)
(* server, also not one started after another was killed, meets one.       *)
LookupIsNew == upc = "dns" => peer \notin sessions

(* hev_ufwd_kill is not lost on a server that waits for datagrams: until   *)
(* the server is gone quit stays set and it is in the run queue.  In a     *)
(* lookup it is: the wake-up is for the resolver then, and the server goes *)
(* on to wait for a datagram before it looks at quit.                      *)
KillWakes == killed => quit /\ ust \in Ready

(* Once killed in that wait, the server forwards nothing more, however     *)
(* many datagrams are there: it makes no session and marks none.           *)
KilledForwardsNothing ==
  [][killed => \A p \in Peers : /\ p \in sessions' => p \in sessions
                                /\ active'[p] => active[p]]_uvars

KilledServerStops == killed ~> usocks = 0

(* The forwarder implements the relay, however runs, kills, lookups, full  *)
(* sockets and the ends of sessions overlap: no peer gets a second session *)
(* or one without a datagram, no mark outlasts its session, and a server   *)
(* killed in the wait for datagrams neither makes sessions nor marks them. *)
R == INSTANCE Relay WITH
       serving <- IF upc = "none" THEN "no" ELSE IF killed THEN "killed"
                  ELSE "yes",
       marked <- {p \in Peers : active[p]}

ImplementsRelay == R!Spec

(* A session whose peer and target have gone silent does not wait for      *)
(* ever: the mark gives it one more wait, and is gone after it.  (One that *)
(* is blocked in sendto when the target fell silent does stay.)            *)
IdleSessionEnds ==
  \A p \in Peers :
    <>[][~ClientIo(p) /\ (active'[p] => active[p])]_uvars =>
      (cpc[p] = "recv" ~> cpc[p] \in {"none", "send"})

=============================================================================
