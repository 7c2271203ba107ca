----------------------------- MODULE NotifyProofs -----------------------------
(***************************************************************************)
(* What Notify promises, for all sets of addresses and ports.              *)
(***************************************************************************)
EXTENDS Notify, TLAPS

(* The statics of cmp_addr are the last answer, none of whose parts is     *)
(* missing: with that, an answer that changes nothing was told already.    *)
Remembers ==
  /\ answer = Mapping(pmaddr, pmport, pbaddr, pbport)
  /\ pmport = Zero => answer = NoMapping

(* The inductive invariant.  The script is told only while it can be run,  *)
(* but the port is stored in any case.                                     *)
NotifyInv ==
  TypeOK /\ Remembers /\ DialsLatestPort /\ (~ForkFails => ToldLatest)

LEMMA NotifyInvInit == Init => NotifyInv
BY NotifyAssumption
   DEF Init, NotifyInv, TypeOK, Remembers, ToldLatest, DialsLatestPort,
       Mapping, NoMapping

(* One answer: the news and the repetition of the last answer.             *)
LEMMA ReportKeepsInv ==
  ASSUME NotifyInv,
         NEW ma \in PublicAddrs, NEW mp \in PublicPorts,
         NEW ba \in LocalAddrs, NEW bp \in LocalPorts,
         Report(ma, mp, ba, bp)
  PROVE  NotifyInv'
<1> DEFINE m == Mapping(ma, mp, ba, bp)
<1>1. /\ pmaddr' = ma /\ pmport' = mp /\ pbaddr' = ba /\ pbport' = bp
      /\ answer' = m
  BY DEF Report, Remember
<1>2. m \in Mappings /\ mp # Zero /\ m.mport = mp
  BY NotifyAssumption DEF Mappings, Mapping
<1>3. Remembers'
  BY <1>1, <1>2 DEF Remembers, Mapping
<1>4. CASE Changed(ma, mp, ba, bp)
  <2>1. mport' = mp /\ Exec(m)
    BY <1>4 DEF Report, StorePort
  <2>2. TypeOK'
    BY <1>1, <1>2, <2>1 DEF NotifyInv, TypeOK, Exec
  <2>3. DialsLatestPort'
    BY <1>1, <1>2, <2>1 DEF DialsLatestPort
  <2>4. ~ForkFails => ToldLatest'
    BY <1>1, <2>1 DEF ToldLatest, Exec
  <2> QED BY <1>3, <2>2, <2>3, <2>4 DEF NotifyInv
<1>5. CASE ~Changed(ma, mp, ba, bp)
  <2>1. UNCHANGED <<mport, told, ran>>
    BY <1>5 DEF Report
  <2>2. answer = m
    BY <1>5 DEF Changed, NotifyInv, Remembers
  <2>3. TypeOK'
    BY <1>1, <1>2, <2>1 DEF NotifyInv, TypeOK
  <2>4. DialsLatestPort' /\ (~ForkFails => ToldLatest')
    BY <1>1, <2>1, <2>2 DEF NotifyInv, ToldLatest, DialsLatestPort
  <2> QED BY <1>3, <2>3, <2>4 DEF NotifyInv
<1> QED BY <1>4, <1>5

LEMMA NotifyInvStep == NotifyInv /\ [Next]_nvars => NotifyInv'
<1> SUFFICES ASSUME NotifyInv, [Next]_nvars PROVE NotifyInv'
  OBVIOUS
<1>1. CASE Next
  BY <1>1, ReportKeepsInv DEF Next
<1>2. CASE UNCHANGED nvars
  BY <1>2 DEF nvars, NotifyInv, TypeOK, Remembers, ToldLatest,
              DialsLatestPort
<1> QED BY <1>1, <1>2

LEMMA NotifyInvariant == Spec => []NotifyInv
BY NotifyInvInit, NotifyInvStep, PTL DEF Spec

(* What it is for.                                                         *)
LEMMA NotifyInvImplies ==
  NotifyInv => TypeOK /\ DialsLatestPort /\ (~ForkFails => ToldLatest)
BY DEF NotifyInv

(* The state of cmp_addr, hev_conf_mport and hev_exec_run has its type.    *)
THEOREM NotifyTypeCorrect == Spec => []TypeOK
BY NotifyInvImplies, NotifyInvariant, PTL

(* As long as fork works, the script was told the last answer, in all of   *)
(* its parts, whatever answers came before it.                             *)
THEOREM ScriptToldLatest ==
  ASSUME ~ForkFails
  PROVE  Spec => []ToldLatest
BY NotifyInvImplies, NotifyInvariant, PTL

(* The port to forward to is the one of the last answer, also when fork    *)
(* fails: hev_conf_mport is called for every answer that changes it.       *)
THEOREM PortIsLatest == Spec => []DialsLatestPort
BY NotifyInvImplies, NotifyInvariant, PTL

(* A step of stun_bind is a step of the announcer, or none.                *)
LEMMA StepAnnounces ==
  ASSUME ~ForkFails, NotifyInv, [Next]_nvars
  PROVE  [A!Next]_(A!avars)
<1>1. CASE UNCHANGED nvars
  BY <1>1 DEF nvars, A!avars
<1>2. ASSUME NEW ma \in PublicAddrs, NEW mp \in PublicPorts,
             NEW ba \in LocalAddrs, NEW bp \in LocalPorts,
             Report(ma, mp, ba, bp)
      PROVE  [A!Next]_(A!avars)
  <2> DEFINE m == Mapping(ma, mp, ba, bp)
  <2>1. answer' = m /\ m \in Mappings
    BY <1>2 DEF Report, Mappings, Mapping
  <2>2. CASE Changed(ma, mp, ba, bp)
    <3>1. m # answer
      BY <2>2 DEF Changed, Mapping, NotifyInv, Remembers
    <3>2. told' = m /\ ran' = 1 - ran
      BY <1>2, <2>2 DEF Report, Exec
    <3>3. A!News(m)
      BY <2>1, <3>1, <3>2 DEF A!News
    <3> QED BY <2>1, <3>3 DEF A!Next
  <2>3. CASE ~Changed(ma, mp, ba, bp)
    <3>1. m = answer
      BY <2>3 DEF Changed, NotifyInv, Remembers
    <3>2. UNCHANGED <<told, ran>>
      BY <1>2, <2>3 DEF Report
    <3> QED BY <2>1, <3>1, <3>2 DEF A!avars
  <2> QED BY <2>2, <2>3
<1> QED BY <1>1, <1>2 DEF Next

(* As long as fork works, stun_bind implements the announcer: the script   *)
(* is run for every answer that is news, and for no other.                 *)
THEOREM NotifyImplementsAnnouncer ==
  ASSUME ~ForkFails
  PROVE  Spec => ImplementsAnnouncer
<1>1. Init => A!Init
  BY DEF Init, A!Init
<1>2. NotifyInv /\ [Next]_nvars => [A!Next]_(A!avars)
  BY StepAnnounces
<1> QED BY <1>1, <1>2, NotifyInvariant, PTL DEF Spec, ImplementsAnnouncer, A!Spec

=============================================================================
