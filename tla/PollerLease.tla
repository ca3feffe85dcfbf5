----------------------------- MODULE PollerLease -----------------------------
(***************************************************************************)
(* What the hub promises of its polling objects: the right to poll on      *)
(* interval timers is a lease that at most one object holds.  It passes    *)
(* from one to the next only through a state in which nobody has it, never *)
(* by a direct hand-over, so a switch cannot leave two pollers behind.     *)
(***************************************************************************)
CONSTANT Pollers

VARIABLE holders   (* the pollers whose interval timers are registered *)

Init == holders = {}

Grant(p) == holders = {} /\ holders' = {p}

Revoke == holders # {} /\ holders' = {}

Next == (\E p \in Pollers : Grant(p)) \/ Revoke

Spec == Init /\ [][Next]_holders
=============================================================================
