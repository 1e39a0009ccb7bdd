---------------------------- MODULE MCRingReader ----------------------------
(* Small instances of RingReader for TLC; the cfg files give the bounds.   *)
EXTENDS RingReader
=============================================================================
