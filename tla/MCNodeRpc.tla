------------------------------ MODULE MCNodeRpc ------------------------------
(* TLC instances of NodeRpc.                                                 *)
EXTENDS NodeRpc
=============================================================================
