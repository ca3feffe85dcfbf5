---------------------------- MODULE HalfDuplexBus ----------------------------
(***************************************************************************)
(* What the controllers of one Modbus link promise the device behind it:   *)
(* one request is outstanding at a time, and a request starts no sooner    *)
(* than its gap after the start of the one before.                         *)
(***************************************************************************)
EXTENDS Naturals

CONSTANTS
  Users,      (* those who send requests   *)
  Kinds,      (* the kinds of request      *)
  Gap(_),     (* the gap a kind asks for   *)
  MaxGap,     (* the largest gap           *)
  Nobody      (* no request is outstanding *)

VARIABLES
  wire,       (* the outstanding request *)
  quiet       (* time since the last request started, saturating *)

Init == wire = Nobody /\ quiet = MaxGap

Send(u, kind) ==
  /\ wire = Nobody
  /\ quiet >= Gap(kind)
  /\ wire' = [user |-> u, kind |-> kind]
  /\ quiet' = 0

Answer == wire # Nobody /\ wire' = Nobody /\ UNCHANGED quiet

Wait == quiet' \in (quiet + 1)..MaxGap /\ UNCHANGED wire

Next == (\E u \in Users, kind \in Kinds : Send(u, kind)) \/ Answer \/ Wait

Spec == Init /\ [][Next]_<<wire, quiet>>
=============================================================================
