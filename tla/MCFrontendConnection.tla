------------------------ MODULE MCFrontendConnection ------------------------
(* Instances of FrontendConnection for TLC. *)
EXTENDS FrontendConnection
=============================================================================
