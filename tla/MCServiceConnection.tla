------------------------ MODULE MCServiceConnection -------------------------
(* Instances of ServiceConnection for TLC. *)
EXTENDS ServiceConnection, TLC
=============================================================================
