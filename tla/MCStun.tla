------------------------------- MODULE MCStun -------------------------------
(***************************************************************************)
(* The STUN client, run at any time by a keeper at any of its addresses.   *)
(***************************************************************************)
EXTENDS Stun
=============================================================================
