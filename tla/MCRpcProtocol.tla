--------------------------- MODULE MCRpcProtocol ----------------------------
(* Instances of RpcProtocol for TLC. *)
EXTENDS RpcProtocol
=============================================================================
