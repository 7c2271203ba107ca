----------------------------- MODULE MCNatmapUdp -----------------------------
(***************************************************************************)
(* Instances of NATMap in UDP mode.                                        *)
(***************************************************************************)
EXTENDS NatmapUdp
=============================================================================
