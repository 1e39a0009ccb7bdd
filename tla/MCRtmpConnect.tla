---------------------------- MODULE MCRtmpConnect ----------------------------
(* Small instances of RtmpConnect: two interchangeable outputs.             *)
EXTENDS RtmpConnect, TLC

OutputSymmetry == Permutations(Outputs)
=============================================================================
