------------------------- MODULE MCUpdateCoordinator -------------------------
(* Instances of UpdateCoordinator for TLC.                                  *)
EXTENDS UpdateCoordinator, TLC

Symmetry == Permutations(Requests)
==============================================================================
