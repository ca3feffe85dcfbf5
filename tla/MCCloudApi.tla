------------------------------ MODULE MCCloudApi ------------------------------
(***************************************************************************)
(* Two controls, which are interchangeable, and a read.                    *)
(***************************************************************************)
EXTENDS CloudApi

CONSTANTS c1, c2, r1
=============================================================================
