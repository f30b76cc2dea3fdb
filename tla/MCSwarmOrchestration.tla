------------------------ MODULE MCSwarmOrchestration ------------------------
(* Instances of SwarmOrchestration for TLC. *)
EXTENDS SwarmOrchestration, TLC
=============================================================================
