----------------------------- MODULE MCRingFeed -----------------------------
(* Small instances of RingFeed for TLC; the cfg files give the bounds.     *)
EXTENDS RingFeed
=============================================================================
