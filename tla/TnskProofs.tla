------------------------------ MODULE TnskProofs ------------------------------
(***************************************************************************)
(* What the TCP keeper promises, for every set of addresses, every -k and  *)
(* every retry bound.                                                      *)
(***************************************************************************)
EXTENDS Tnsk, TLAPS

(* How misscnt and the unanswered HEADs go together.  In recv, a miss has  *)
(* been counted for every unanswered HEAD but the last; in send, the HEAD  *)
(* that is on its way is not one of them yet.                              *)
MissesCounted ==
  /\ kpc = "recv" => unanswered \in misscnt .. misscnt + 1
  /\ kpc = "send" => unanswered <= misscnt
  /\ ~InSession => unanswered = 0

(* The inductive invariant.                                                *)
KeeperInv == TypeOK /\ SocketsOwned /\ MissesCounted

LEMMA KeeperInvInit == Init => KeeperInv
<1> SUFFICES ASSUME Init PROVE KeeperInv
  OBVIOUS
<1>1. port_next \in BOOLEAN
  BY Zenon DEF Init
<1> QED
  BY <1>1, TnskAssumption
     DEF Init, KeeperInv, TypeOK, SocketsOwned, MissesCounted, InSession,
         TaskStatus, Blocked, Ready

(* What the keeper goes on to after it got to send a HEAD.                 *)
LEMMA SendHeadInv ==
  ASSUME NEW miss \in {0, 1}, NEW heads \in Nat, heads <= miss,
         SendHead(miss, heads)
  PROVE  /\ kpc' \in {"send", "recv"} /\ kst' = "sleep"
         /\ timeout' \in {SendTimeout, Keep}
         /\ misscnt' \in {0, 1} /\ unanswered' \in Nat
         /\ MissesCounted'
BY DEF SendHead, HeadSent, MissesCounted, InSession

(* The whole of keep-alive and what leads to it, one step per action.      *)
LEMMA SegmentKeepsInv ==
  ASSUME KeeperInv, Segment
  PROVE  KeeperInv'
<1> USE TnskAssumption DEF KeeperInv, TypeOK, TaskStatus, Blocked, Ready,
        MayHaveTimeLeft, MayHaveElapsed
<1>1. CASE Begin \/ DnsAgain \/ ConnectStarts \/ ConnectAgain
  BY <1>1 DEF Begin, DnsAgain, ConnectStarts, ConnectAgain, session,
              SocketsOwned, MissesCounted, InSession
<1>2. CASE BaseFails
  BY <1>2 DEF BaseFails, session, SocketsOwned, MissesCounted, InSession
<1>3. ASSUME NEW a \in Addrs, Established(a)
      PROVE  KeeperInv'
  <2>1. SendHead(0, 0) /\ BaseSucceeds(a)
    BY <1>3 DEF Established
  <2>2. /\ kpc' \in {"send", "recv"} /\ kst' = "sleep"
        /\ timeout' \in {SendTimeout, Keep}
        /\ misscnt' \in {0, 1} /\ unanswered' \in Nat
        /\ MissesCounted'
    BY <2>1, SendHeadInv
  <2>3. ksocks' = 1
    BY <1>3 DEF Established, BaseSucceeds, SocketsOwned
  <2>4. port_next' \in BOOLEAN
    BY <2>1, Zenon DEF BaseSucceeds
  <2> QED BY <2>1, <2>2, <2>3, <2>4 DEF BaseSucceeds, SocketsOwned
<1>4. ASSUME NEW a \in Addrs, EstablishedEnds(a)
      PROVE  KeeperInv'
  <2>1. port_next' \in BOOLEAN
    BY <1>4, Zenon DEF EstablishedEnds, BaseSucceeds
  <2> QED
    BY <1>4, <2>1 DEF EstablishedEnds, BaseSucceeds, SessionEnds,
                      SocketsOwned, MissesCounted, InSession
<1>5. CASE SendAgain
  BY <1>5 DEF SendAgain, HeadSent, session, SocketsOwned, MissesCounted,
              InSession
<1>6. CASE RecvAgain
  BY <1>6 DEF RecvAgain, SocketsOwned, MissesCounted, InSession
<1>7. CASE RecvMissed
  <2>1. SendHead(1, unanswered) /\ unanswered \in Nat /\ unanswered <= 1
    BY <1>7 DEF RecvMissed, MissesCounted
  <2>2. /\ kpc' \in {"send", "recv"} /\ kst' = "sleep"
        /\ timeout' \in {SendTimeout, Keep}
        /\ misscnt' \in {0, 1} /\ unanswered' \in Nat
        /\ MissesCounted'
    BY <2>1, SendHeadInv
  <2> QED BY <1>7, <2>2 DEF RecvMissed, SocketsOwned
<1>8. CASE KeepAliveEnds \/ ResendEnds
  BY <1>8 DEF KeepAliveEnds, ResendEnds, SessionEnds, SocketsOwned,
              MissesCounted, InSession
<1> QED BY <1>1, <1>2, <1>3, <1>4, <1>5, <1>6, <1>7, <1>8 DEF Segment

LEMMA KeeperInvStep == KeeperInv /\ [Next]_kvars => KeeperInv'
<1> SUFFICES ASSUME KeeperInv, [Next]_kvars PROVE KeeperInv'
  OBVIOUS
<1>1. CASE Segment
  BY <1>1, SegmentKeepsInv
<1>2. CASE Kill \/ Io \/ Timer
  BY <1>2 DEF Kill, Io, Timer, Wakeup, Blocked, Ready, TaskStatus, session,
              KeeperInv, TypeOK, SocketsOwned, MissesCounted, InSession
<1>3. CASE UNCHANGED kvars
  BY <1>3 DEF kvars, KeeperInv, TypeOK, SocketsOwned, MissesCounted, InSession
<1> QED BY <1>1, <1>2, <1>3 DEF Next

LEMMA KeeperInvariant == Spec => []KeeperInv
BY KeeperInvInit, KeeperInvStep, PTL DEF Spec

(* What it is for.                                                         *)
LEMMA KeeperInvImplies ==
  KeeperInv => TypeOK /\ SocketsOwned /\ SilentPeerBound /\ LivePeerKept
BY DEF KeeperInv, TypeOK, MissesCounted, InSession, SilentPeerBound,
       LivePeerKept

(* The keeper's statics and its loop variables have their types; above     *)
(* all, connect is never tried MaxRetries times.                           *)
THEOREM KeeperTypeCorrect == Spec => []TypeOK
BY KeeperInvImplies, KeeperInvariant, PTL

(* No path through tnsk_run leaves a socket open or closes one twice.      *)
THEOREM KeeperSocketsOwned == Spec => []SocketsOwned
BY KeeperInvImplies, KeeperInvariant, PTL

(* A peer that went silent gets two HEADs at most.                         *)
THEOREM KeeperSilentPeerBound == Spec => []SilentPeerBound
BY KeeperInvImplies, KeeperInvariant, PTL

(* A peer that answers every HEAD is never given up for being silent.      *)
THEOREM KeeperLivePeerKept == Spec => []LivePeerKept
BY KeeperInvImplies, KeeperInvariant, PTL

LEMMA StepSendsNoMore ==
  KeeperInv /\ [Next]_kvars =>
    [kpc = "recv" /\ timeout = 0 => kpc' \in {"recv", "sleep"}
                                    /\ unanswered' <= unanswered]_kvars
<1> SUFFICES ASSUME KeeperInv, Next, kpc = "recv", timeout = 0
             PROVE  kpc' \in {"recv", "sleep"} /\ unanswered' <= unanswered
  OBVIOUS
<1>0. unanswered \in Nat
  BY DEF KeeperInv, TypeOK
<1>1. CASE KeepAliveEnds
  BY <1>0, <1>1 DEF KeepAliveEnds, SessionEnds
<1>2. CASE Kill \/ Io \/ Timer
  BY <1>0, <1>2 DEF Kill, Io, Timer, session
<1>3. CASE Segment /\ ~KeepAliveEnds
  BY <1>3 DEF Segment, Begin, DnsAgain, ConnectStarts, ConnectAgain,
              BaseFails, Established, EstablishedEnds, BaseSucceeds,
              SendAgain, RecvAgain, RecvMissed, ResendEnds
<1> QED BY <1>1, <1>2, <1>3 DEF Next

(* A keeper killed in recv sends nothing more in that session.             *)
THEOREM KeeperKilledSendsNoMore == Spec => KilledSendsNoMore
BY StepSendsNoMore, KeeperInvariant, PTL DEF Spec, KilledSendsNoMore

=============================================================================
