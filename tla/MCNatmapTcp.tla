----------------------------- MODULE MCNatmapTcp -----------------------------
(***************************************************************************)
(* Instances of NATMap in TCP mode.                                        *)
(***************************************************************************)
EXTENDS NatmapTcp
=============================================================================
