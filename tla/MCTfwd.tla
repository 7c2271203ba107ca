------------------------------- MODULE MCTfwd -------------------------------
(***************************************************************************)
(* The TCP forwarder with two addresses to listen on, two client           *)
(* connections and every caller of hev_tfwd_run and hev_tfwd_kill.         *)
(***************************************************************************)
EXTENDS Tfwd
=============================================================================
