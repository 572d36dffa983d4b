----------------------------- MODULE MCLiveFeed -----------------------------
(* LiveFeed with model values for its users.                               *)
EXTENDS LiveFeed
=============================================================================
