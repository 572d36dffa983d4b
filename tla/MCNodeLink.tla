----------------------------- MODULE MCNodeLink -----------------------------
(* TLC instances of NodeLink.                                                *)
EXTENDS NodeLink, TLC

\* The registry and the handler treat every socket alike.
SocketSymmetry == Permutations(Sockets)
=============================================================================
