------------------------------ MODULE StunProofs ------------------------------
(***************************************************************************)
(* What the STUN client promises, for every set of addresses and every     *)
(* retry bound.                                                            *)
(***************************************************************************)
EXTENDS Stun, TLAPS

Places == {"none", "new", "dns", "connect", "send", "header", "body"}

LEMMA ExchangePlaces ==
  /\ DOMAIN Exchange = 1 .. 3
  /\ \A i \in DOMAIN Exchange : Exchange[i] \in {"send", "header", "body"}
  /\ InExchange <=> spc \in {"send", "header", "body"}
BY DEF Exchange, InExchange

(* The inductive invariant without the flag.                               *)
ClientInv ==
  /\ spc \in Places
  /\ sst \in TaskStatus
  /\ sst = "none" <=> spc = "none"
  /\ sretries \in 0 .. MaxRetries - 1
  /\ sbound \in Addrs \cup {NoAddr}
  /\ ssocks = IF spc \in {"connect", "send", "header", "body"} THEN 1 ELSE 0

(* Static task is not NULL exactly while there is a task.                  *)
FlagInv ==
  /\ stask \in BOOLEAN
  /\ stask <=> spc # "none"

StunInv == ClientInv /\ FlagInv

LEMMA StunInvInit == Init => StunInv
<1> SUFFICES ASSUME Init PROVE StunInv
  OBVIOUS
<1>1. FlagInv
  BY Zenon DEF Init, FlagInv
<1>2. ClientInv
  BY StunAssumption DEF Init, ClientInv, Places, TaskStatus
<1> QED BY <1>1, <1>2 DEF StunInv

-----------------------------------------------------------------------------
(* A segment starts at a place it names, and only an exit goes to "none".  *)
LEMMA NextKeepsFlag == StunInv /\ Next => FlagInv'
<1> SUFFICES ASSUME StunInv, Next PROVE FlagInv'
  OBVIOUS
<1> USE DEF FlagInv
<1>0. FlagInv
  BY DEF StunInv
<1>1. ASSUME UNCHANGED stask, spc # "none", spc' # "none"
      PROVE  FlagInv'
  BY <1>0, <1>1, Zenon
<1>2. ASSUME UNCHANGED <<stask, spc>> PROVE FlagInv'
  BY <1>0, <1>2, Zenon
<1>3. ASSUME stask' = FALSE, spc' = "none" PROVE FlagInv'
  BY <1>3, Zenon
<1>4. CASE Run
  <2>1. CASE stask
    BY <1>2, <1>4, <2>1 DEF Run
  <2>2. CASE ~stask
    <3>1. stask' = TRUE
      BY <1>4, <2>2, Zenon DEF Run
    <3>2. spc' # "none"
      BY <1>4, <2>2 DEF Run
    <3> QED BY <3>1, <3>2, Zenon
  <2> QED BY <2>1, <2>2
<1>5. CASE Io \/ Timer \/ DnsAgain \/ ConnectAgain
  BY <1>2, <1>5 DEF Io, Timer, DnsAgain, ConnectAgain
<1>6. ASSUME NEW a \in Addrs, Lookup \/ Bind(a)
      PROVE  FlagInv'
  BY <1>1, <1>6 DEF Lookup, Bind
<1>7. CASE Lookup
  BY <1>1, <1>7 DEF Lookup
<1>8. CASE Advance
  BY <1>1, <1>8, ExchangePlaces DEF Advance
<1>9. CASE Succeed \/ Fail
  BY <1>3, <1>9 DEF Succeed, Fail, Exit
<1> QED BY <1>4, <1>5, <1>6, <1>7, <1>8, <1>9 DEF Next, Segment

LEMMA NextKeepsClient == StunInv /\ Next => ClientInv'
<1> SUFFICES ASSUME StunInv, Next PROVE ClientInv'
  OBVIOUS
<1>0. ClientInv /\ (stask <=> spc # "none")
  BY DEF StunInv, FlagInv
<1> USE <1>0
<1> USE StunAssumption, ExchangePlaces
    DEF ClientInv, Places, TaskStatus, Blocked, Ready, MayHaveTimeLeft
<1>1. CASE Run
  <2>1. CASE stask
    BY <1>1, <2>1 DEF Run, Wakeup
  <2>2. CASE ~stask
    <3>1. spc' = "new" /\ sst' = "run" /\ UNCHANGED <<sretries, sbound, ssocks>>
      BY <1>1, <2>2 DEF Run
    <3>2. spc = "none"
      BY <2>2
    <3> QED BY <3>1, <3>2
  <2> QED BY <2>1, <2>2
<1>2. CASE Io \/ Timer
  BY <1>2 DEF Io, Timer
<1>3. CASE Lookup \/ DnsAgain \/ ConnectAgain
  BY <1>3 DEF Lookup, DnsAgain, ConnectAgain
<1>4. ASSUME NEW a \in Addrs, Bind(a)
      PROVE  ClientInv'
  BY <1>4 DEF Bind
<1>5. CASE Advance
  <2>1. /\ spc \in {"connect", "send", "header", "body"}
        /\ spc' \in {"send", "header", "body"}
    BY <1>5 DEF Advance
  <2>2. sst' = "sleep" /\ sretries' = 0 /\ UNCHANGED <<sbound, ssocks>>
    BY <1>5 DEF Advance
  <2> QED BY <2>1, <2>2
<1>6. CASE Succeed \/ Fail
  BY <1>6 DEF Succeed, Fail, Exit
<1> QED BY <1>1, <1>2, <1>3, <1>4, <1>5, <1>6 DEF Next, Segment

LEMMA StunInvStep == StunInv /\ [Next]_svars => StunInv'
<1>1. StunInv /\ Next => StunInv'
  BY NextKeepsClient, NextKeepsFlag DEF StunInv
<1>2. StunInv /\ UNCHANGED svars => StunInv'
  BY DEF svars, StunInv, ClientInv, FlagInv
<1> QED BY <1>1, <1>2

LEMMA StunInvariant == Spec => []StunInv
BY StunInvInit, StunInvStep, PTL DEF Spec

(* What it is for.                                                         *)
LEMMA StunInvImplies == StunInv => TypeOK /\ TaskOwned
BY ExchangePlaces
   DEF StunInv, ClientInv, FlagInv, Places, TypeOK, TaskOwned

-----------------------------------------------------------------------------
(* The task's variables have their types; above all, connect is never      *)
(* tried MaxRetries times.                                                 *)
THEOREM StunTypeCorrect == Spec => []TypeOK
BY StunInvImplies, StunInvariant, PTL

(* Static task and the task itself come and go together, and so does the   *)
(* socket with the phase that uses it.                                     *)
THEOREM StunTaskOwned == Spec => []TaskOwned
BY StunInvImplies, StunInvariant, PTL

=============================================================================
