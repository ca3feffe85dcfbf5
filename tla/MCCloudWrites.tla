---------------------------- MODULE MCCloudWrites ----------------------------
(* Symmetry for model checking cloud writes. *)
EXTENDS CloudWrites, TLC

MCSymmetry ==
  Permutations(Calls) \union Permutations(Verifies) \union Permutations(Polls)
=============================================================================
