---------------------------- MODULE RegisterTables ----------------------------
(***************************************************************************)
(* The register blocks the inverters are polled for: sensor_data's tables  *)
(* of hybrid and string inverters, reduced to the layout that polling and  *)
(* recovery depend on.  A block has its first register, its poll speed,    *)
(* the features of which the inverter must have one (none: always polled)  *)
(* and the number of registers of each of its entities, in order.  An      *)
(* entry without a poll speed is NORMAL below register 40000, else SLOW.   *)
(***************************************************************************)
EXTENDS Naturals, SequencesExt

Block(start, speed, requires, widths) ==
  [start |-> start, speed |-> speed, requires |-> requires, widths |-> widths]

\* n entities of w registers each.
Each(n, w) == [i \in 1..n |-> w]

-----------------------------------------------------------------------------
(* Hybrid inverters: input registers from 33000, holding registers from    *)
(* 43000 on.                                                               *)

Identity == {
  Block(33000, "once", {}, Each(4, 1) \o <<16>>),
  Block(35000, "once", {}, <<1>>)}

ClockAndYield == {
  Block(33022, "slow", {}, Each(6, 1)),
  Block(33029, "slow", {"pv"}, <<2, 2, 2, 1, 1, 2, 2>>)}

BmsAndStrings == {
  Block(33041, "fast", {"bms"}, <<1, 1, 1>>),
  Block(33049, "fast", {"pv"}, Each(8, 1) \o <<2>>)}

GridAndStatus == {
  Block(33070, "fast", {}, Each(9, 1) \o <<2, 2, 2, 8>> \o Each(4, 1))}

Limits == {
  Block(33122, "fast", {}, <<1>>),
  Block(33126, "fast", {}, <<2, 1, 1, 2>>)}

Battery == {
  Block(33132, "fast", {}, Each(17, 1) \o <<2, 2>> \o Each(4, 1))}

EnergyTotals == {
  Block(33161, "slow", {}, <<2, 1, 1, 2, 1, 1, 2, 1, 1, 2, 1, 1, 2, 1, 1>>)}

Ports == {
  Block(33243, "normal", {}, <<1, 1, 1>>),
  Block(34243, "slow", {"parallel"}, <<1>>),
  Block(34328, "fast", {"smart_port"}, Each(6, 1)),
  Block(34391, "fast", {"smart_port"}, <<1, 1, 1>>)}

Meter == {
  Block(33251, "fast", {}, Each(6, 1) \o Each(12, 2) \o <<1, 1, 2, 2>>)}

Generator == {
  Block(33530, "fast", {"generator"}, <<1, 1, 2, 1, 1>>),
  Block(33580, "slow", {}, <<2, 2, 2, 1, 3, 2, 2, 2, 1>>)}

AcCoupling == {
  Block(34445, "slow", {"ac_coupling"}, <<2, 2, 2, 1, 1>>),
  Block(34496, "fast", {"ac_coupling"}, <<2>>)}

ClockSettings == {
  Block(43007, "normal", {}, Each(7, 1) \o <<2>> \o Each(6, 1) \o <<2, 1, 2, 1, 1>>)}

RemoteControl == {
  Block(43073, "slow", {}, <<1, 1>>),
  Block(43195, "slow", {}, <<1>>),
  Block(43128, "slow", {}, Each(10, 1))}

TimedCharging == {
  Block(43141, "slow", {}, Each(10, 1) \o <<2>> \o Each(8, 1) \o <<2>> \o Each(8, 1))}

PeakShaving == {
  Block(43361, "slow", {}, Each(9, 1))}

ChargeSlots == {
  Block(43707, "slow", {}, Each(43, 1))}

DischargeSlots == {
  Block(43750, "slow", {}, Each(42, 1))}

SingleSettings == {
  Block(43815, "slow", {}, <<1>>),
  Block(43340, "slow", {}, <<1>>),
  Block(43483, "slow", {}, <<1>>),
  Block(43487, "slow", {}, <<1, 1>>),
  Block(43249, "slow", {}, <<1>>)}

SwitchRegisters == {
  Block(43291, "slow", {}, <<1, 1>>),
  Block(43302, "slow", {}, <<1>>),
  Block(43110, "slow", {}, <<1>>),
  Block(43117, "slow", {}, <<1, 1>>),
  Block(43282, "slow", {}, <<1>>),
  Block(44280, "slow", {}, <<1>>)}

-----------------------------------------------------------------------------
(* String inverters.                                                       *)

StringPower == {
  Block(2999, "fast", {}, Each(5, 1) \o Each(5, 2) \o <<1, 1, 2, 2>> \o Each(9, 1))}

StringGrid == {
  Block(3033, "fast", {}, Each(11, 1) \o <<2, 2>> \o Each(4, 1))}

StringMeter == {
  Block(3089, "slow", {}, <<1>>),
  Block(3179, "slow", {}, <<1, 1>>),
  Block(3250, "fast", {}, Each(6, 1) \o Each(4, 2))}

StringOptions == {
  Block(36013, "normal", {}, <<1, 1>>),
  Block(36022, "normal", {}, <<1, 1, 1>>),
  Block(36028, "fast", {}, <<2>>),
  Block(36050, "slow", {}, Each(4, 2))}

-----------------------------------------------------------------------------
(* What is made of a table at setup.                                       *)

HybridBlocks ==
  UNION {Identity, ClockAndYield, BmsAndStrings, GridAndStatus, Limits, Battery, EnergyTotals,
         Ports, Meter, Generator, AcCoupling, ClockSettings, RemoteControl, TimedCharging,
         PeakShaving, ChargeSlots, DischargeSlots, SingleSettings, SwitchRegisters}

StringBlocks == UNION {StringPower, StringGrid, StringMeter, StringOptions}

\* The blocks of an inverter: a block with requirements needs one of them.
BlocksFor(type, features) ==
  {b \in IF type = "string" THEN StringBlocks ELSE HybridBlocks :
     b.requires = {} \/ b.requires \cap features # {}}

\* The sensors of a block: entities follow each other without gap or overlap.
SensorsOf(b) ==
  {[lo |-> b.start + FoldSeq(+, 0, SubSeq(b.widths, 1, i - 1)), n |-> b.widths[i]] :
     i \in DOMAIN b.widths}
=============================================================================
