-------------------------- MODULE MCOutputLifecycle --------------------------
(* Small instances of OutputLifecycle: interchangeable outputs.             *)
EXTENDS OutputLifecycle, TLC

OutputSymmetry == Permutations(Outputs)
=============================================================================
