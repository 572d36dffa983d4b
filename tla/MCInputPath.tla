---------------------------- MODULE MCInputPath ----------------------------
EXTENDS InputPath, TLC

CONSTANTS a, b, k1, k2, k3

\* One page that types more than its queue keeps and reconnects once, or two
\* pages that compete for the node's share.
OnePageOrTwo == {(a :> 3) @@ (b :> 0), (a :> 2) @@ (b :> 1)}
WhoOpens == (k1 :> a) @@ (k2 :> a) @@ (k3 :> b)
Reconnects == Permutations({k1, k2})
=============================================================================
