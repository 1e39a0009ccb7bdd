---------------------------- MODULE MCEgressShard ----------------------------
(* Small instances of EgressShard for TLC; the cfg files give the bounds.   *)
EXTENDS EgressShard, TLC

LeafSymmetry == Permutations(Leaves)
=============================================================================
