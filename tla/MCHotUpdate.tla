---------------------------- MODULE MCHotUpdate ----------------------------
(* Instances of HotUpdate for TLC.                                          *)
EXTENDS HotUpdate

=============================================================================
