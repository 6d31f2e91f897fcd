----------------------------- MODULE MCPipeline -----------------------------
(* Instance of Pipeline for TLC, with the mutants of its definitions.       *)
EXTENDS Pipeline
=============================================================================
