--------------------------- MODULE MCHostSession ---------------------------
(***************************************************************************)
(* Instances of HostSession for TLC.                                       *)
(***************************************************************************)
EXTENDS HostSession

CONSTANTS g1, g2, g3
=============================================================================
