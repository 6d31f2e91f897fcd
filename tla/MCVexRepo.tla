------------------------------ MODULE MCVexRepo ------------------------------
(* Instances of VexRepo for TLC.                                            *)
EXTENDS VexRepo
=============================================================================
