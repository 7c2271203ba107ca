------------------------------- MODULE MCUfwd -------------------------------
(***************************************************************************)
(* The UDP forwarder with two peers, and every caller of hev_ufwd_run and  *)
(* hev_ufwd_kill.                                                          *)
(***************************************************************************)
EXTENDS Ufwd
=============================================================================
