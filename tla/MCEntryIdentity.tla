---------------------------- MODULE MCEntryIdentity ----------------------------
(* An entry of an old version and one that may be added, two inverters, a sensor *)
(* that needs a feature and a number.                                           *)
EXTENDS EntryIdentity, TLC

CONSTANTS e1, e2, s1, s2, backup, limit

MCSymmetry == Permutations(Serials)
=============================================================================
