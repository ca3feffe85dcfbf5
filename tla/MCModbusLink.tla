----------------------------- MODULE MCModbusLink -----------------------------
(* Constants for model checking a Modbus link. *)
EXTENDS ModbusLink

CONSTANTS entry, flow, o1, o2, c1, c2

\* An operation of an entry and one of a config flow.
MCControllerOf == [o \in Ops |-> IF o = o2 THEN flow ELSE entry]
=============================================================================
