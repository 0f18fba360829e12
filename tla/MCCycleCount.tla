---------------------------- MODULE MCCycleCount ----------------------------
(***************************************************************************)
(* Small instances of CycleCount.  Tags, counts and workers are symmetric, *)
(* and no property checked here is a liveness property.                    *)
(***************************************************************************)
EXTENDS CycleCount, TLC

Symmetry ==
  Permutations(Tids) \cup Permutations(Counts) \cup Permutations(Workers)

=============================================================================
