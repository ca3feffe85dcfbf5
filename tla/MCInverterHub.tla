---------------------------- MODULE MCInverterHub ----------------------------
(* Constants for model checking the hub. *)
EXTENDS InverterHub, TLC

\* Modbus turns unhealthy after two units, cloud after one.
MCStaleAfter == [p \in Protocols |-> IF p = "modbus" THEN 2 ELSE 1]

MCSymmetry == Permutations(Retrievals) \union Permutations(Ticks)
=============================================================================
