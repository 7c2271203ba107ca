-------------------------------- MODULE Tfwd --------------------------------
(***************************************************************************)
(* The TCP forwarder (hev-tfwd.c): one server task that listens on the     *)
(* keeper's bound address and one client task per accepted connection.     *)
(*                                                                         *)
(* The server is driven from outside by hev_tfwd_run (called by the STUN   *)
(* task, through its handler) and hev_tfwd_kill (called by the keeper).    *)
(* Neither waits for the server: they leave word in the statics task and   *)
(* quit, which the server looks at when it next runs.                      *)
(***************************************************************************)
EXTENDS TaskSystem, Naturals

CONSTANTS
  Addrs,        \* addresses the server can be told to listen on
  NoAddr,       \* not an address: no listening socket
  Conns,        \* client connections that can be open at the same time
  PublicPorts,  \* values of mport once a mapping is known
  NoPort,       \* mport before the first mapping: the empty string
  TargetPort    \* -p: the target's port, 0 for "use the public port"

ASSUME TfwdAssumption ==
  /\ NoAddr \notin Addrs
  /\ NoPort \notin PublicPorts
  /\ 0 \notin PublicPorts
  /\ TargetPort \in Nat

VARIABLES
  ftask,   \* static task is not NULL
  quit,    \* static quit is not 0
  fpc,     \* where the server task is: "none", "new", "accept"
  fst,     \* its scheduling status
  faddr,   \* address of the listening socket
  fsocks,  \* number of listening sockets that are open
  cpc,     \* where the client task of each connection is
  cport,   \* the port it forwards to
  csocks,  \* its open sockets: accepted and dialled
  killed   \* history: hev_tfwd_kill was called since the server accepts

fvars == <<ftask, quit, fpc, fst, faddr, fsocks, cpc, cport, csocks, killed>>
server == <<ftask, quit, fpc, fst, faddr, fsocks, killed>>
clients == <<cpc, cport, csocks>>

Init ==
  /\ ftask = FALSE
  /\ quit = FALSE
  /\ fpc = "none"
  /\ fst = "none"
  /\ faddr = NoAddr
  /\ fsocks = 0
  /\ cpc = [c \in Conns |-> "none"]
  /\ cport = [c \in Conns |-> NoPort]
  /\ csocks = [c \in Conns |-> 0]
  /\ killed = FALSE

-----------------------------------------------------------------------------
(***************************************************************************)
(* The interface to the rest of the program.                               *)
(***************************************************************************)

(* Mutant of Run: quit is reset here, not by the server.                   *)
RunClearsQuit ==
  /\ quit' = FALSE
  /\ \/ ftask /\ UNCHANGED <<ftask, fpc, fst>>
     \/ /\ ~ftask
        /\ ftask' = TRUE
        /\ fpc' = "new"
        /\ fst' = "run"
  /\ UNCHANGED <<faddr, fsocks, clients, killed>>

(* hev_tfwd_run: nothing if there is a task, else a new one in the queue.  *)
Run ==
  /\ \/ ftask /\ UNCHANGED <<ftask, fpc, fst>>
     \/ /\ ~ftask
        /\ ftask' = TRUE
        /\ fpc' = "new"
        /\ fst' = "run"
  /\ UNCHANGED <<quit, faddr, fsocks, clients, killed>>

(* Mutant of Kill: the server is not woken up.                             *)
KillWithoutWakeup ==
  /\ quit' = TRUE
  /\ killed' = (fpc = "accept")
  /\ UNCHANGED <<ftask, fpc, fst, faddr, fsocks, clients>>

(* hev_tfwd_kill: set quit, and wake the server if there is one.           *)
Kill ==
  /\ quit' = TRUE
  /\ killed' = (fpc = "accept")
  /\ fst' = IF ftask THEN Wakeup(fst) ELSE fst
  /\ UNCHANGED <<ftask, fpc, faddr, fsocks, clients>>

-----------------------------------------------------------------------------
(***************************************************************************)
(* The server task.                                                        *)
(***************************************************************************)

(* The accepted connections in S each get a client task.                   *)
Spawn(S) ==
  /\ \A c \in S : cpc[c] = "none"
  /\ cpc' = [c \in Conns |-> IF c \in S THEN "new" ELSE cpc[c]]
  /\ csocks' = [c \in Conns |-> IF c \in S THEN 1 ELSE csocks[c]]
  /\ UNCHANGED cport

(* The server returns, with n listening sockets left open; task = NULL.    *)
ServerExit(n) ==
  /\ ftask' = FALSE
  /\ fpc' = "none"
  /\ fst' = "none"
  /\ faddr' = NoAddr
  /\ fsocks' = n
  /\ killed' = FALSE

(* hev_sock_server_pfwd failed and has closed its socket.  The caller also *)
(* kills the keeper, see NatmapTcp.                                        *)
StartFails ==
  /\ fpc = "new"
  /\ fst \in Ready
  /\ ServerExit(fsocks)
  /\ UNCHANGED <<quit, clients>>

(* Bound to a and listening.  quit = 0 comes after that, and forgets any   *)
(* hev_tfwd_kill that was called before the task first ran.  Connections   *)
(* that already wait are accepted until there are no more (the task blocks *)
(* in the yielder) or accept fails (it closes the socket and returns).     *)
Start(a, S) ==
  /\ fpc = "new"
  /\ fst \in Ready
  /\ quit' = FALSE
  /\ Spawn(S)
  /\ \/ /\ fpc' = "accept"
        /\ fst' = "wait"
        /\ faddr' = a
        /\ fsocks' = fsocks + 1
        /\ UNCHANGED <<ftask, killed>>
     \/ ServerExit(fsocks)

(* The yielder runs again and returns quit: accept gives up with -2.       *)
Quit ==
  /\ fpc = "accept"
  /\ fst \in Ready
  /\ quit
  /\ ServerExit(fsocks - 1)
  /\ UNCHANGED <<quit, clients>>

(* Without quit, accept is tried again, until it would block (S is empty   *)
(* when the wake-up was for nothing) ...                                   *)
Accept(S) ==
  /\ fpc = "accept"
  /\ fst \in Ready
  /\ ~quit
  /\ Spawn(S)
  /\ fst' = "wait"
  /\ UNCHANGED <<ftask, quit, fpc, faddr, fsocks, killed>>

(* ... or fails, after which nobody is told that the server is gone.       *)
AcceptFails(S) ==
  /\ fpc = "accept"
  /\ fst \in Ready
  /\ ~quit
  /\ Spawn(S)
  /\ ServerExit(fsocks - 1)
  /\ UNCHANGED <<quit>>

(* A connection or an error is there to be accepted.                       *)
Incoming ==
  /\ fpc = "accept"
  /\ fst \in Blocked
  /\ fst' = Wakeup(fst)
  /\ UNCHANGED <<ftask, quit, fpc, faddr, fsocks, clients, killed>>

-----------------------------------------------------------------------------
(***************************************************************************)
(* The client tasks.  No other task has a pointer to one, so only its own  *)
(* sockets and timers resume it and its run queue status is left out.      *)
(***************************************************************************)

(* The task starts: the target's port is -p, or mport when that is 0.  The *)
(* target's address is then looked up.                                     *)
Dial(c, mport) ==
  /\ cpc[c] = "new"
  /\ cpc' = [cpc EXCEPT ![c] = "dns"]
  /\ cport' = [cport EXCEPT ![c] = IF TargetPort = 0 THEN mport ELSE TargetPort]
  /\ UNCHANGED <<server, csocks>>

(* The task ends; n of its sockets are left open.                          *)
ClientExit(c, n) ==
  /\ cpc' = [cpc EXCEPT ![c] = "none"]
  /\ cport' = [cport EXCEPT ![c] = NoPort]
  /\ csocks' = [csocks EXCEPT ![c] = n]
  /\ UNCHANGED server

(* The target is known, connect is in progress.  mport is a static buffer  *)
(* that is handed to the resolver by reference, so a mapping reported in   *)
(* the meantime may or may not be the one that is dialled.                 *)
Connect(c, mport) ==
  /\ cpc[c] = "dns"
  /\ cpc' = [cpc EXCEPT ![c] = "connect"]
  /\ cport' \in {cport, [cport EXCEPT ![c] = IF TargetPort = 0 THEN mport ELSE @]}
  /\ csocks' = [csocks EXCEPT ![c] = @ + 1]
  /\ UNCHANGED server

(* Mutant of DialFails: the dialled socket is not closed.                  *)
DialFailsOpen(c) ==
  /\ cpc[c] \in {"dns", "connect"}
  /\ ClientExit(c, csocks[c] - 1)

(* hev_sock_client_pfwd fails: no address or no socket, or connect fails   *)
(* or times out and the dialled socket is closed.  The task closes the     *)
(* accepted socket.                                                        *)
DialFails(c) ==
  /\ cpc[c] \in {"dns", "connect"}
  /\ ClientExit(c, csocks[c] - (IF cpc[c] = "dns" THEN 1 ELSE 2))

(* Connected: hev_task_io_splice copies both ways.                         *)
Splice(c) ==
  /\ cpc[c] = "connect"
  /\ cpc' = [cpc EXCEPT ![c] = "splice"]
  /\ UNCHANGED <<server, cport, csocks>>

(* Both ends closed, an error, or -T without any traffic.                  *)
SpliceEnds(c) ==
  /\ cpc[c] = "splice"
  /\ ClientExit(c, csocks[c] - 2)

ClientStep(c, mport) ==
  \/ Dial(c, mport)
  \/ Connect(c, mport)
  \/ DialFails(c)
  \/ Splice(c)
  \/ SpliceEnds(c)

-----------------------------------------------------------------------------
(***************************************************************************)
(* The forwarder among arbitrary callers: hev_tfwd_run and hev_tfwd_kill   *)
(* may be called between any two segments, saddr and mport hold any value  *)
(* the program can have stored there.                                      *)
(***************************************************************************)
ServerSegment ==
  \/ StartFails
  \/ \E a \in Addrs, S \in SUBSET Conns : Start(a, S)
  \/ Quit
  \/ \E S \in SUBSET Conns : Accept(S) \/ AcceptFails(S)

Next ==
  \/ Run
  \/ Kill
  \/ ServerSegment
  \/ Incoming
  \/ \E c \in Conns, m \in PublicPorts \cup {NoPort} : ClientStep(c, m)

(* The library runs every queued task sooner or later.                     *)
Fairness == WF_fvars(ServerSegment)

Spec == Init /\ [][Next]_fvars /\ Fairness

-----------------------------------------------------------------------------
TypeOK ==
  /\ ftask \in BOOLEAN
  /\ quit \in BOOLEAN
  /\ fpc \in {"none", "new", "accept"}
  /\ fst \in TaskStatus
  /\ faddr \in Addrs \cup {NoAddr}
  /\ fsocks \in Nat
  /\ cpc \in [Conns -> {"none", "new", "dns", "connect", "splice"}]
  /\ cport \in [Conns -> PublicPorts \cup {NoPort, TargetPort}]
  /\ csocks \in [Conns -> Nat]
  /\ killed \in BOOLEAN

(* Every open socket of the forwarder belongs to a task that will close    *)
(* it: a listening socket to the one server that accepts on it, an         *)
(* accepted and a dialled socket to the client task of their connection.   *)
(* A second server next to a live one, or an exit path that forgets a      *)
(* close, leaves a socket nobody owns.                                     *)
SocketsOwned ==
  /\ fsocks = IF fpc = "accept" THEN 1 ELSE 0
  /\ \A c \in Conns :
       csocks[c] = CASE cpc[c] = "none" -> 0
                     [] cpc[c] \in {"new", "dns"} -> 1
                     [] OTHER -> 2

(* hev_tfwd_kill is never lost on a server that accepts: until the server  *)
(* is gone quit stays set, and it is in the run queue.  There is no moment *)
(* at which it was told to quit but sleeps on, waiting for a connection to *)
(* notice it, and no hev_tfwd_run takes the word back.                     *)
KillWakes == killed => quit /\ fst \in Ready

(* Once hev_tfwd_kill has reached a server that accepts, that server       *)
(* accepts nothing more, however many connections already wait for it and  *)
(* whatever is called before it runs again.                                *)
AcceptsNothingAfterKill ==
  [][killed => \A c \in Conns : cpc[c] = "none" => cpc'[c] = "none"]_fvars

(* ... and it is gone after that: no server that was killed while it       *)
(* accepted keeps its listening socket.                                    *)
KilledServerStops == killed ~> fsocks = 0

=============================================================================
