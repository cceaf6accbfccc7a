-------------------------- MODULE MCPlacementTable --------------------------
(* Model-checking instance of PlacementTable.                               *)
EXTENDS PlacementTable, TLC

\* Partitions, placements and clients are interchangeable.
Symmetry == Permutations(Partitions) \cup Permutations(Placements) \cup Permutations(Clients)
=============================================================================
