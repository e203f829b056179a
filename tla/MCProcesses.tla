---------------------------- MODULE MCProcesses ----------------------------
(***************************************************************************)
(* Instances of Processes for TLC.                                         *)
(***************************************************************************)
EXTENDS Processes

CONSTANTS x1, x2, p1, p2
=============================================================================
