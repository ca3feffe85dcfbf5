---------------------------- MODULE MCBitRegister ----------------------------
(***************************************************************************)
(* Three registers for model checking: the TOU switches (43707), the       *)
(* storage modes (43110, three bits that all conflict) and a register the  *)
(* cloud cannot write, with an inverted switch (43483).                    *)
(***************************************************************************)
EXTENDS BitRegister, TLC

CONSTANTS s1, s2, v1

NoConflicts(bits) == [b \in bits |-> {}]

TouSwitches ==
  [kind |-> "bits", bits |-> {0, 6}, bit |-> s1 :> 0 @@ s2 :> 6 @@ v1 :> None,
   conflicts |-> NoConflicts({0, 6}), inverted |-> {}, states |-> SUBSET {0, 6}]

\* The options of the select are among the states.
StorageModes ==
  [kind |-> "whole", bits |-> {0, 6, 11}, bit |-> s1 :> 0 @@ s2 :> 11 @@ v1 :> None,
   conflicts |-> 0 :> {6, 11} @@ 6 :> {0, 11} @@ 11 :> {0, 6}, inverted |-> {},
   states |-> {{0}, {6}}]

Functions43483 ==
  [kind |-> "local", bits |-> {0, 3}, bit |-> s1 :> 0 @@ s2 :> 3 @@ v1 :> None,
   conflicts |-> NoConflicts({0, 3}), inverted |-> {3}, states |-> {{}, {3}}]

MCScenarios == {TouSwitches, StorageModes, Functions43483}
=============================================================================
