------------------------------- MODULE MCTnsk -------------------------------
(***************************************************************************)
(* The keeper with every caller of tnsk_kill: a few addresses, a retry     *)
(* bound of 3, and a full send buffer.                                     *)
(***************************************************************************)
EXTENDS Tnsk
=============================================================================
