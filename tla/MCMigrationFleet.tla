-------------------------- MODULE MCMigrationFleet --------------------------
(* Model-checking instances of MigrationFleet.                              *)
EXTENDS MigrationFleet, TLC

Symmetry == Permutations(Clients) \cup Permutations(Placements)
=============================================================================
