----------------------------- MODULE MCDBClient -----------------------------
(* Instances of DBClient for TLC.                                           *)
EXTENDS DBClient
=============================================================================
