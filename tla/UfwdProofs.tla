----------------------------- MODULE UfwdProofs -----------------------------
(***************************************************************************)
(* What the UDP forwarder promises, for all sets of addresses and peers,   *)
(* and whether or not sends block.                                         *)
(***************************************************************************)
EXTENDS Ufwd, TLAPS

Listening == upc \in {"recv", "dns", "send"}

(* The inductive invariant for the server: its sockets, its place and the  *)
(* static task go together, so that hev_ufwd_kill reaches it; one that is  *)
(* marked as killed still waits in recv.                                   *)
ServerInv ==
  /\ upc \in {"none", "new", "recv", "dns", "send"}
  /\ ust \in TaskStatus
  /\ utask = TRUE <=> upc # "none"
  /\ upc = "new" => ust = "run"
  /\ Listening => ust # "none"
  /\ uaddr \in Addrs \cup {NoAddr}
  /\ usocks = IF Listening THEN 1 ELSE 0
  /\ uaddr # NoAddr <=> Listening
  /\ peer \in Peers \cup {NoPeer}
  /\ upc \in {"dns", "send"} => peer \in Peers
  /\ killed = TRUE => upc = "recv" /\ quit = TRUE /\ ust \in Ready

FlagsInv ==
  /\ utask \in BOOLEAN
  /\ quit \in BOOLEAN
  /\ killed \in BOOLEAN

(* The tree and the tasks of the sessions.                                 *)
SessionsInv ==
  /\ sessions \subseteq Peers
  /\ cpc \in [Peers -> {"none", "new", "recv", "send"}]
  /\ cst \in [Peers -> TaskStatus]
  /\ csocks \in [Peers -> Nat]
  /\ \A p \in Peers : /\ p \in sessions <=> cpc[p] # "none"
                      /\ csocks[p] = IF p \in sessions THEN 1 ELSE 0
                      /\ cst[p] # "none" => cpc[p] # "none"

MarksInv == active \in [Peers -> BOOLEAN]

UfwdInv == ServerInv /\ FlagsInv /\ SessionsInv /\ MarksInv /\ LookupIsNew

LEMMA UfwdInvInit == Init => UfwdInv
<1> SUFFICES ASSUME Init PROVE UfwdInv
  OBVIOUS
<1>1. ServerInv
  BY DEF Init, ServerInv, Listening, TaskStatus
<1>2. FlagsInv /\ MarksInv
  BY Zenon DEF Init, FlagsInv, MarksInv
<1>3. SessionsInv
  BY DEF Init, SessionsInv, TaskStatus
<1>4. LookupIsNew
  BY DEF Init, LookupIsNew
<1> QED BY <1>1, <1>2, <1>3, <1>4 DEF UfwdInv

-----------------------------------------------------------------------------
(***************************************************************************)
(* What the server does.                                                   *)
(***************************************************************************)

(* Between two waits the server goes from one consistent place to another, *)
(* and looks up only what it did not find.                                 *)
LEMMA ServeFacts ==
  ASSUME NEW known, known \subseteq Peers, NEW T, NEW a \in Addrs,
         Serve(known, T, a, 1), utask = TRUE
  PROVE  /\ ServerInv'
         /\ upc' = "dns" => peer' \notin known
         /\ active' = [p \in Peers |-> p \in T \/ active[p]]
<1> USE DEF ServerInv, Listening, TaskStatus, Blocked, Ready
<1>1. killed' = FALSE /\ active' = [p \in Peers |-> p \in T \/ active[p]]
  BY DEF Serve
<1>2. CASE ServerExit(1 - 1)
  BY <1>1, <1>2 DEF ServerExit
<1>3. ASSUME NEW p \in Peers \ known, ServerWaits("dns", p), uaddr' = a,
             usocks' = 1
      PROVE  ServerInv' /\ (upc' = "dns" => peer' \notin known)
  BY <1>1, <1>3, UfwdAssumption DEF ServerWaits, UfwdAssumption
<1>4. ASSUME NEW p \in Peers, ServerWaits("send", p), uaddr' = a, usocks' = 1
      PROVE  ServerInv' /\ upc' # "dns"
  BY <1>1, <1>4, UfwdAssumption DEF ServerWaits, UfwdAssumption
<1>5. ASSUME ServerWaits("recv", NoPeer), uaddr' = a, usocks' = 1
      PROVE  ServerInv' /\ upc' # "dns"
  BY <1>1, <1>5, UfwdAssumption DEF ServerWaits, UfwdAssumption
<1>6. ServerExit(1 - 1) => upc' = "none"
  BY DEF ServerExit
<1> HIDE DEF ServerInv
<1> QED BY <1>1, <1>2, <1>3, <1>4, <1>5, <1>6 DEF Serve, LookUp

(* Marks are flags, whoever changes them.                                  *)
LEMMA MarksAreFlags ==
  ASSUME MarksInv,
         \/ UNCHANGED active
         \/ \E T : active' = [p \in Peers |-> p \in T \/ active[p]]
         \/ \E q \in Peers : active' = [active EXCEPT ![q] = FALSE]
  PROVE  MarksInv'
<1>1. CASE UNCHANGED active
  BY <1>1 DEF MarksInv
<1>2. ASSUME NEW T, active' = [p \in Peers |-> p \in T \/ active[p]]
      PROVE  MarksInv'
  BY <1>2, Zenon DEF MarksInv
<1>3. ASSUME NEW q \in Peers, active' = [active EXCEPT ![q] = FALSE]
      PROVE  MarksInv'
  BY <1>3 DEF MarksInv
<1> QED BY <1>1, <1>2, <1>3

(* Steps of the server, and calls to it, that leave the sessions alone.    *)
LEMMA ServerAloneKeeps ==
  ASSUME UfwdInv,
         Run \/ Kill \/ Incoming \/ DnsAgain \/ Quit \/ StartFails
  PROVE  UfwdInv'
<1>1. UNCHANGED clients
  BY DEF Run, Kill, Incoming, DnsAgain, Quit, StartFails
<1>2. SessionsInv' /\ MarksInv'
  BY <1>1 DEF clients, UfwdInv, SessionsInv, MarksInv
<1>3. LookupIsNew'
  <2>1. upc' = "dns" => upc = "dns" /\ UNCHANGED peer
    BY DEF Run, NewServer, Kill, Incoming, DnsAgain, Quit, StartFails,
           ServerExit
  <2> QED BY <1>1, <2>1 DEF clients, UfwdInv, LookupIsNew
<1>4. FlagsInv'
  BY Zenon DEF UfwdInv, FlagsInv, Run, NewServer, Kill, Incoming, DnsAgain,
               Quit, StartFails, ServerExit
<1>5. ServerInv'
  <2> USE DEF UfwdInv, ServerInv, Listening, TaskStatus, Blocked, Ready
  <2>1. CASE Run
    BY <2>1 DEF Run, NewServer
  <2>2. CASE Kill
    BY <2>2 DEF Kill, Wakeup
  <2>3. CASE Incoming
    BY <2>3 DEF Incoming
  <2>4. CASE DnsAgain
    BY <2>4 DEF DnsAgain, At
  <2>5. CASE Quit \/ StartFails
    BY <2>5 DEF Quit, StartFails, At, ServerExit
  <2> QED BY <2>1, <2>2, <2>3, <2>4, <2>5
<1> QED BY <1>2, <1>3, <1>4, <1>5 DEF UfwdInv

(* Segments that serve datagrams of peers with sessions only.              *)
LEMMA ServingKeeps ==
  ASSUME UfwdInv, NEW T,
         (\E a \in Addrs : Start(a, T)) \/ Receive(T) \/ SessionFails(T)
  PROVE  UfwdInv'
<1>1. UNCHANGED <<sessions, cpc, cst, csocks>>
  BY DEF Start, Receive, SessionFails
<1>2. utask = TRUE
  BY DEF UfwdInv, ServerInv, Start, Receive, SessionFails, At
<1>3. PICK b \in Addrs : Serve(sessions, T, b, 1)
  <2>1. ASSUME NEW a \in Addrs, Start(a, T)
        PROVE  \E b \in Addrs : Serve(sessions, T, b, 1)
    <3>1. usocks = 0
      BY <2>1 DEF Start, At, UfwdInv, ServerInv, Listening
    <3> QED BY <2>1, <3>1 DEF Start
  <2>2. CASE Receive(T) \/ SessionFails(T)
    <3>1. usocks = 1 /\ uaddr \in Addrs
      BY <2>2 DEF Receive, SessionFails, At, UfwdInv, ServerInv, Listening
    <3> QED BY <2>2, <3>1 DEF Receive, SessionFails
  <2> QED BY <2>1, <2>2
<1>4. /\ ServerInv'
      /\ upc' = "dns" => peer' \notin sessions
      /\ active' = [p \in Peers |-> p \in T \/ active[p]]
  BY <1>2, <1>3, ServeFacts DEF UfwdInv, SessionsInv
<1>5. FlagsInv'
  <2>1. quit' = FALSE \/ quit' = quit
    BY Zenon DEF Start, Receive, SessionFails
  <2>2. (utask' = FALSE \/ utask' = utask) /\ killed' = FALSE
    BY <1>3, Zenon DEF Serve, LookUp, ServerWaits, ServerExit
  <2> QED BY <2>1, <2>2 DEF UfwdInv, FlagsInv
<1>6. SessionsInv'
  BY <1>1 DEF UfwdInv, SessionsInv
<1>7. MarksInv'
  BY <1>4, MarksAreFlags DEF UfwdInv
<1>8. LookupIsNew'
  BY <1>1, <1>4 DEF LookupIsNew
<1> QED BY <1>4, <1>5, <1>6, <1>7, <1>8 DEF UfwdInv

(* A session is made for a peer that has none.                             *)
LEMMA SessionNewKeeps ==
  ASSUME UfwdInv, NEW T, SessionNew(T)
  PROVE  UfwdInv'
<1>1. /\ upc = "dns" /\ peer \in Peers /\ peer \notin sessions
      /\ utask = TRUE /\ usocks = 1 /\ uaddr \in Addrs /\ killed # TRUE
  BY DEF SessionNew, At, UfwdInv, ServerInv, Listening, LookupIsNew
<1>2. SessionsInv'
  BY <1>1 DEF SessionNew, UfwdInv, SessionsInv, TaskStatus, Ready
<1>3. CASE Serve(sessions', T, uaddr, usocks)
  <2>1. /\ ServerInv'
        /\ upc' = "dns" => peer' \notin sessions'
        /\ active' = [p \in Peers |-> p \in T \/ active[p]]
    BY <1>1, <1>2, <1>3, ServeFacts DEF SessionsInv
  <2>2. FlagsInv'
    <3>1. (utask' = FALSE \/ utask' = utask) /\ killed' = FALSE
      BY <1>3, Zenon DEF Serve, LookUp, ServerWaits, ServerExit
    <3> QED BY <3>1 DEF SessionNew, UfwdInv, FlagsInv
  <2>3. MarksInv'
    BY <2>1, MarksAreFlags DEF UfwdInv
  <2> QED BY <1>2, <2>1, <2>2, <2>3 DEF UfwdInv, LookupIsNew
<1>4. CASE /\ ServerWaits("send", peer)
           /\ UNCHANGED <<uaddr, usocks, active, killed>>
  <2>1. ServerInv' /\ LookupIsNew'
    BY <1>1, <1>4
       DEF UfwdInv, ServerInv, Listening, LookupIsNew, ServerWaits,
           TaskStatus, Blocked
  <2>2. FlagsInv' /\ MarksInv'
    BY <1>4 DEF SessionNew, UfwdInv, FlagsInv, MarksInv, ServerWaits
  <2> QED BY <1>2, <2>1, <2>2 DEF UfwdInv
<1> QED BY <1>3, <1>4 DEF SessionNew

LEMMA SendAgainKeeps ==
  ASSUME UfwdInv, NEW T, SendAgain(T)
  PROVE  UfwdInv'
<1>1. /\ upc = "send" /\ peer \in Peers
      /\ utask = TRUE /\ usocks = 1 /\ uaddr \in Addrs /\ killed # TRUE
  BY DEF SendAgain, At, UfwdInv, ServerInv, Listening
<1>2. UNCHANGED <<quit, sessions, cpc, cst, csocks>> /\ SessionsInv'
  BY DEF SendAgain, UfwdInv, SessionsInv
<1>3. CASE Serve(sessions, T, uaddr, usocks)
  <2>1. /\ ServerInv'
        /\ upc' = "dns" => peer' \notin sessions
        /\ active' = [p \in Peers |-> p \in T \/ active[p]]
    BY <1>1, <1>3, ServeFacts DEF UfwdInv, SessionsInv
  <2>2. FlagsInv'
    <3>1. (utask' = FALSE \/ utask' = utask) /\ killed' = FALSE
      BY <1>3, Zenon DEF Serve, LookUp, ServerWaits, ServerExit
    <3> QED BY <1>2, <3>1 DEF UfwdInv, FlagsInv
  <2>3. MarksInv'
    BY <2>1, MarksAreFlags DEF UfwdInv
  <2> QED BY <1>2, <2>1, <2>2, <2>3 DEF UfwdInv, LookupIsNew
<1>4. CASE /\ ServerWaits("send", peer)
           /\ UNCHANGED <<uaddr, usocks, active, killed>>
  <2>1. ServerInv' /\ LookupIsNew'
    BY <1>1, <1>4
       DEF UfwdInv, ServerInv, Listening, LookupIsNew, ServerWaits,
           TaskStatus, Blocked
  <2>2. FlagsInv' /\ MarksInv'
    BY <1>2, <1>4 DEF UfwdInv, FlagsInv, MarksInv, ServerWaits
  <2> QED BY <1>2, <2>1, <2>2 DEF UfwdInv
<1> QED BY <1>3, <1>4 DEF SendAgain

-----------------------------------------------------------------------------
(***************************************************************************)
(* What the tasks of the sessions do: none of it concerns the server.      *)
(***************************************************************************)
LEMMA ClientLoopKeeps ==
  ASSUME SessionsInv, MarksInv, NEW p \in Peers, cpc[p] # "none",
         ClientLoop(p) \/ ClientEnds(p)
  PROVE  SessionsInv' /\ MarksInv' /\ sessions' \subseteq sessions
<1>1. MarksInv'
  <2>1. \E q \in Peers : active' = [active EXCEPT ![q] = FALSE]
    BY DEF ClientLoop, ClientWaits, ClientEnds, ClientGone
  <2> QED BY <2>1, MarksAreFlags
<1>2. CASE ClientWaits(p, "recv", "sleep") \/ ClientWaits(p, "send", "wait")
  <2>1. PICK pc \in {"recv", "send"}, st \in {"sleep", "wait"} :
          /\ cpc' = [cpc EXCEPT ![p] = pc]
          /\ cst' = [cst EXCEPT ![p] = st]
          /\ UNCHANGED <<sessions, csocks>>
    BY <1>2 DEF ClientWaits
  <2> QED BY <1>1, <2>1 DEF SessionsInv, TaskStatus, Blocked
<1>3. CASE ClientEnds(p)
  <2>1. /\ sessions' = sessions \ {p}
        /\ cpc' = [cpc EXCEPT ![p] = "none"]
        /\ cst' = [cst EXCEPT ![p] = "none"]
        /\ csocks' = [csocks EXCEPT ![p] = csocks[p] - 1]
    BY <1>3 DEF ClientEnds, ClientGone
  <2>2. csocks[p] = 1
    BY DEF SessionsInv
  <2> QED BY <1>1, <2>1, <2>2 DEF SessionsInv, TaskStatus
<1> QED BY <1>1, <1>2, <1>3 DEF ClientLoop

LEMMA ClientKeeps ==
  ASSUME UfwdInv, NEW p \in Peers,
         ClientSegment(p) \/ ClientIo(p) \/ ClientTimer(p)
  PROVE  UfwdInv'
<1>1. UNCHANGED server
  BY DEF ClientSegment, ClientStarts, ClientAgain, ClientAnswers, ClientFails,
         ClientSendsAgain, ClientTimesOut, ClientIo, ClientTimer
<1>2. ServerInv' /\ FlagsInv'
  BY <1>1 DEF server, UfwdInv, ServerInv, Listening, FlagsInv
<1>3. SessionsInv' /\ MarksInv' /\ sessions' \subseteq sessions
  <2>1. CASE ClientAgain(p) \/ ClientIo(p) \/ ClientTimer(p)
    <3>1. cpc[p] # "none" /\ \E st \in TaskStatus \ {"none"} :
                               cst' = [cst EXCEPT ![p] = st]
      BY <2>1 DEF ClientAgain, ClientIo, ClientTimer, TaskStatus, Blocked,
                  Ready, UfwdInv, SessionsInv
    <3>2. UNCHANGED <<sessions, cpc, active, csocks>>
      BY <2>1 DEF ClientAgain, ClientIo, ClientTimer
    <3> QED BY <3>1, <3>2 DEF UfwdInv, SessionsInv, MarksInv
  <2>2. CASE ~(ClientAgain(p) \/ ClientIo(p) \/ ClientTimer(p))
    <3>1. cpc[p] # "none" /\ (ClientLoop(p) \/ ClientEnds(p))
      BY <2>2 DEF ClientSegment, ClientStarts, ClientAnswers, ClientFails,
                  ClientSendsAgain, ClientTimesOut
    <3> QED BY <3>1, ClientLoopKeeps DEF UfwdInv
  <2> QED BY <2>1, <2>2
<1>4. LookupIsNew'
  BY <1>1, <1>3 DEF server, UfwdInv, LookupIsNew
<1> QED BY <1>2, <1>3, <1>4 DEF UfwdInv

LEMMA UfwdInvStep == UfwdInv /\ [Next]_uvars => UfwdInv'
<1>1. ASSUME UfwdInv, Next PROVE UfwdInv'
  BY <1>1, ServerAloneKeeps, ServingKeeps, SessionNewKeeps, SendAgainKeeps,
     ClientKeeps DEF Next, ServerSegment
<1>2. UfwdInv /\ UNCHANGED uvars => UfwdInv'
  BY DEF uvars, UfwdInv, ServerInv, Listening, FlagsInv, SessionsInv,
         MarksInv, LookupIsNew
<1> QED BY <1>1, <1>2

LEMMA UfwdInvariant == Spec => []UfwdInv
BY UfwdInvInit, UfwdInvStep, PTL DEF Spec

(* What it is for.                                                         *)
LEMMA UfwdInvImplies ==
  UfwdInv => TypeOK /\ SessionsOwned /\ LookupIsNew /\ KillWakes
<1>1. UfwdInv => TypeOK
  BY DEF UfwdInv, ServerInv, FlagsInv, SessionsInv, MarksInv, TypeOK
<1>2. UfwdInv => SessionsOwned
  BY DEF UfwdInv, ServerInv, Listening, SessionsInv, SessionsOwned
<1>3. UfwdInv => KillWakes
  BY DEF UfwdInv, ServerInv, FlagsInv, KillWakes
<1> QED BY <1>1, <1>2, <1>3 DEF UfwdInv

-----------------------------------------------------------------------------
(* The variables have their types.                                         *)
THEOREM UfwdTypeCorrect == Spec => []TypeOK
BY UfwdInvImplies, UfwdInvariant, PTL

(* The tree holds exactly the sessions that have a task, each with one     *)
(* socket; there is one server socket at most, and sfd is it.              *)
THEOREM UfwdSessionsOwned == Spec => []SessionsOwned
BY UfwdInvImplies, UfwdInvariant, PTL

(* session_add never meets an address that is in the tree.                 *)
THEOREM UfwdLookupIsNew == Spec => []LookupIsNew
BY UfwdInvImplies, UfwdInvariant, PTL

(* A server killed while it waits for datagrams has quit set and is in the *)
(* run queue until it is gone.                                             *)
THEOREM UfwdKillWakes == Spec => []KillWakes
BY UfwdInvImplies, UfwdInvariant, PTL

LEMMA StepForwardsNothing ==
  UfwdInv /\ [Next]_uvars =>
    [killed => \A p \in Peers : /\ p \in sessions' => p \in sessions
                                /\ active'[p] => active[p]]_uvars
<1> SUFFICES ASSUME UfwdInv, Next, killed, NEW p \in Peers
             PROVE  /\ p \in sessions' => p \in sessions
                    /\ active'[p] => active[p]
  OBVIOUS
<1>1. upc = "recv" /\ quit = TRUE
  BY DEF UfwdInv, ServerInv, FlagsInv
<1>2. CASE Run \/ Kill \/ Incoming \/ DnsAgain \/ Quit \/ StartFails
  BY <1>2 DEF Run, Kill, Incoming, DnsAgain, Quit, StartFails, clients
<1>3. ASSUME NEW T,
             \/ \E a \in Addrs : Start(a, T)
             \/ Receive(T) \/ SessionFails(T) \/ SessionNew(T)
             \/ SendAgain(T)
      PROVE  FALSE
  BY <1>1, <1>3 DEF Start, Receive, SessionFails, SessionNew, SendAgain, At
<1>4. ASSUME NEW q \in Peers,
             ClientSegment(q) \/ ClientIo(q) \/ ClientTimer(q)
      PROVE  /\ p \in sessions' => p \in sessions
             /\ active'[p] => active[p]
  <2>1. sessions' = sessions \/ sessions' = sessions \ {q}
    BY <1>4 DEF ClientSegment, ClientStarts, ClientAgain, ClientAnswers,
                ClientFails, ClientSendsAgain, ClientTimesOut, ClientIo,
                ClientTimer, ClientLoop, ClientWaits, ClientEnds
  <2>2. active' = active \/ active' = [active EXCEPT ![q] = FALSE]
    BY <1>4 DEF ClientSegment, ClientStarts, ClientAgain, ClientAnswers,
                ClientFails, ClientSendsAgain, ClientTimesOut, ClientIo,
                ClientTimer, ClientLoop, ClientWaits, ClientEnds,
                ClientGone
  <2>3. active'[p] => active[p]
    <3>1. CASE q = p /\ active' = [active EXCEPT ![q] = FALSE]
      BY <3>1, Zenon DEF UfwdInv, MarksInv
    <3>2. CASE q # p \/ active' = active
      BY <2>2, <3>2 DEF UfwdInv, MarksInv
    <3> QED BY <2>2, <3>1, <3>2
  <2> QED BY <2>1, <2>3
<1>5. CASE ServerSegment
  BY <1>2, <1>3, <1>5 DEF ServerSegment
<1> QED BY <1>2, <1>4, <1>5 DEF Next

(* ... and forwards nothing more.                                          *)
THEOREM UfwdKilledForwardsNothing == Spec => KilledForwardsNothing
BY StepForwardsNothing, UfwdInvariant, PTL DEF Spec, KilledForwardsNothing

-----------------------------------------------------------------------------
(***************************************************************************)
(* The forwarder implements the relay.                                     *)
(***************************************************************************)
Marked == {p \in Peers : active[p]}

Serving == IF upc = "none" THEN "no" ELSE IF killed THEN "killed" ELSE "yes"

(* The set of marked sessions when some are marked, and when one is not    *)
(* any longer.                                                             *)
LEMMA MarkSome ==
  ASSUME NEW T, T \subseteq Peers,
         active' = [p \in Peers |-> p \in T \/ active[p]]
  PROVE  Marked' = Marked \cup T
<1>1. ASSUME NEW p \in Peers PROVE active'[p] <=> p \in T \/ active[p]
  BY Zenon
<1> QED BY <1>1, Zenon DEF Marked

LEMMA UnmarkOne ==
  ASSUME MarksInv, NEW q \in Peers, active' = [active EXCEPT ![q] = FALSE]
  PROVE  Marked' = Marked \ {q}
<1>1. ASSUME NEW p \in Peers PROVE active'[p] <=> active[p] /\ p # q
  <2>1. CASE p = q
    BY <2>1, Zenon DEF MarksInv
  <2>2. CASE p # q
    <3>1. active'[p] = active[p]
      BY <2>2 DEF MarksInv
    <3> QED BY <2>2, <3>1, Zenon
  <2> QED BY <2>1, <2>2
<1> QED BY <1>1, Zenon DEF Marked

(* The datagrams that the server gets past between two waits.              *)
LEMMA ServeForwards ==
  ASSUME NEW known, known \subseteq Peers, sessions' = known,
         \/ UNCHANGED sessions
         \/ \E p \in Peers \ sessions : sessions' = sessions \cup {p},
         NEW T, NEW a, NEW n, Serve(known, T, a, n),
         upc # "none", killed = FALSE
  PROVE  R!Next
<1>1. T \subseteq Peers /\ T \subseteq sessions'
  BY DEF Serve
<1>2. Marked' = Marked \cup T
  BY <1>1, MarkSome DEF Serve
<1>3. Serving = "yes" /\ Serving' \in {"yes", "no"}
  BY DEF Serving, Serve
<1>4. R!Forward(T)
  BY <1>1, <1>2, <1>3 DEF R!Forward, Marked, Serving
<1> QED BY <1>1, <1>4 DEF R!Next

LEMMA ServerAloneRelays ==
  ASSUME UfwdInv,
         Run \/ Kill \/ Incoming \/ DnsAgain \/ Quit \/ StartFails
  PROVE  [R!Next]_(R!rvars)
<1>1. UNCHANGED sessions /\ Marked' = Marked
  BY DEF Run, Kill, Incoming, DnsAgain, Quit, StartFails, clients, Marked
<1>2. /\ killed = TRUE => upc = "recv"
      /\ utask = TRUE <=> upc # "none"
      /\ utask \in BOOLEAN /\ killed \in BOOLEAN
  BY DEF UfwdInv, ServerInv, FlagsInv
<1>3. \/ Serving' = Serving
      \/ Serving = "no" /\ Serving' = "yes"
      \/ Serving = "yes" /\ Serving' = "killed"
      \/ Serving # "no" /\ Serving' = "no"
  <2>1. CASE Run
    BY <1>2, <2>1 DEF Run, NewServer, Serving
  <2>2. CASE Kill
    BY <1>2, <2>2 DEF Kill, Serving
  <2>3. CASE Incoming \/ DnsAgain
    BY <2>3 DEF Incoming, DnsAgain, Serving
  <2>4. CASE Quit \/ StartFails
    BY <2>4 DEF Quit, StartFails, ServerExit, At, Serving
  <2> QED BY <2>1, <2>2, <2>3, <2>4
<1> QED BY <1>1, <1>3
        DEF R!Next, R!Run, R!Kill, R!End, R!rvars, Serving, Marked

LEMMA ServingRelays ==
  ASSUME UfwdInv, NEW T,
         \/ \E a \in Addrs : Start(a, T)
         \/ Receive(T) \/ SessionFails(T) \/ SessionNew(T) \/ SendAgain(T)
  PROVE  [R!Next]_(R!rvars)
<1>1. /\ upc # "none" /\ killed = FALSE /\ sessions \subseteq Peers
      /\ upc = "dns" => peer \in Peers \ sessions
  BY DEF Start, Receive, SessionFails, SessionNew, SendAgain, At, UfwdInv,
         ServerInv, FlagsInv, SessionsInv, LookupIsNew
<1>2. CASE UNCHANGED sessions /\ \E a, n : Serve(sessions, T, a, n)
  BY <1>1, <1>2, ServeForwards
<1>3. CASE SessionNew(T)
  <2>1. /\ sessions' = sessions \cup {peer} /\ peer \in Peers \ sessions
        /\ sessions' \subseteq Peers
    BY <1>1, <1>3 DEF SessionNew, At
  <2>2. CASE Serve(sessions', T, uaddr, usocks)
    BY <1>1, <2>1, <2>2, ServeForwards
  <2>3. CASE ServerWaits("send", peer) /\ UNCHANGED <<active, killed>>
    <3>1. Serving = "yes" /\ Serving' = "yes" /\ Marked' = Marked \cup {}
      BY <1>1, <2>3 DEF Serving, ServerWaits, Marked
    <3>2. R!Forward({})
      BY <2>1, <3>1 DEF R!Forward, Serving, Marked
    <3> QED BY <3>2 DEF R!Next
  <2> QED BY <1>3, <2>2, <2>3 DEF SessionNew
<1>4. CASE /\ upc = "send" /\ ServerWaits("send", peer)
           /\ UNCHANGED <<sessions, active, killed>>
  BY <1>4 DEF ServerWaits, R!rvars
<1> QED BY <1>2, <1>3, <1>4 DEF Start, Receive, SessionFails, SendAgain, At

LEMMA ClientRelays ==
  ASSUME UfwdInv, NEW p \in Peers,
         ClientSegment(p) \/ ClientIo(p) \/ ClientTimer(p)
  PROVE  [R!Next]_(R!rvars)
<1>1. UNCHANGED <<upc, killed>>
  BY DEF ClientSegment, ClientStarts, ClientAgain, ClientAnswers, ClientFails,
         ClientSendsAgain, ClientTimesOut, ClientIo, ClientTimer, server
<1>2. CASE UNCHANGED <<sessions, active>>
  BY <1>1, <1>2 DEF R!rvars
<1>3. CASE ~UNCHANGED <<sessions, active>>
  <2>1. p \in sessions /\ (ClientLoop(p) \/ ClientEnds(p))
    BY <1>3 DEF ClientSegment, ClientStarts, ClientAgain, ClientAnswers,
                ClientFails, ClientSendsAgain, ClientTimesOut, ClientIo,
                ClientTimer, UfwdInv, SessionsInv
  <2>2. /\ active' = [active EXCEPT ![p] = FALSE]
        /\ UNCHANGED sessions \/ sessions' = sessions \ {p}
    BY <2>1 DEF ClientLoop, ClientWaits, ClientEnds, ClientGone
  <2>3. Marked' = Marked \ {p} /\ Serving' = Serving
    BY <1>1, <2>2, UnmarkOne DEF UfwdInv, Serving
  <2>4. R!Unmark(p) \/ R!Leave(p)
    BY <2>1, <2>2, <2>3 DEF R!Unmark, R!Leave, Serving, Marked
  <2> QED BY <2>4 DEF R!Next
<1> QED BY <1>2, <1>3

LEMMA StepRelays == UfwdInv /\ [Next]_uvars => [R!Next]_(R!rvars)
<1>1. ASSUME UfwdInv, Next PROVE [R!Next]_(R!rvars)
  BY <1>1, ServerAloneRelays, ServingRelays, ClientRelays
     DEF Next, ServerSegment
<1>2. UNCHANGED uvars => UNCHANGED R!rvars
  BY DEF uvars, R!rvars
<1> QED BY <1>1, <1>2

(* A UDP forwarder implements the relay: each step of its tasks, and of    *)
(* its callers, is a step of the relay or none.                            *)
THEOREM UfwdImplementsRelay == Spec => ImplementsRelay
<1>1. Init => R!Init
  BY DEF Init, R!Init
<1> QED BY <1>1, StepRelays, UfwdInvariant, PTL
        DEF Spec, ImplementsRelay, R!Spec

=============================================================================
