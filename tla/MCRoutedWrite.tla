---------------------------- MODULE MCRoutedWrite ----------------------------
(* Constants for model checking routed writes. *)
EXTENDS RoutedWrite, TLC

MCStaleAfter == [p \in Protocols |-> 1]

MCSymmetry == Permutations(Retrievals)
=============================================================================
