-------------------------- MODULE MCRingMigration ---------------------------
(* Small instances of RingMigration for TLC; the cfg files give the bounds. *)
EXTENDS RingMigration
=============================================================================
