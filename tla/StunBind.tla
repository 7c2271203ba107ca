------------------------------ MODULE StunBind ------------------------------
(***************************************************************************)
(* stun_bind in hev-stun.c, from the answer of the server on: stun_unpack  *)
(* (module StunCodec), and what is made of its result (module Notify).     *)
(***************************************************************************)
EXTENDS Notify, StunCodec

(* PublicAddrs are the addresses that can be reported, those of answers to *)
(* other requests included, which are read wrongly.                        *)
ASSUME StunBindAssumption ==
  /\ Addrs \subseteq PublicAddrs
  /\ \A a \in Addrs, s, t \in Tids :
       Masked(Masked(a, Magic \o s), Magic \o t) \in PublicAddrs
  /\ Ports \subseteq PublicPorts

BindInit == Init /\ CodecInit

(* stun_bind reports what was found at once, and fails otherwise.          *)
BindNext ==
  \/ /\ PackAny \/ ReceiveAny \/ Skip \/ Fail
     /\ UNCHANGED nvars
  \/ /\ Unpack
     /\ \E ba \in LocalAddrs, bp \in LocalPorts :
          Report(mapping'.addr, mapping'.port, ba, bp)

BindSpec == BindInit /\ [][BindNext]_<<nvars, cvars>>

=============================================================================
