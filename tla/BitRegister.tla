----------------------------- MODULE BitRegister -----------------------------
(***************************************************************************)
(* Switches that share one register, one bit each, beside selects and the  *)
(* write service, which write the register as a whole.  A switch computes  *)
(* the new value from the cached one, the hub sends it by the active       *)
(* protocol and falls back to the other one.  Over the cloud a register    *)
(* is, by scenario, one control CID, one CID per bit (the TOU switches,    *)
(* 43707) or not writable at all.                                          *)
(*                                                                         *)
(* A register value is the set of its bits that are 1.  A step is the code *)
(* between two suspensions.                                                *)
(***************************************************************************)
EXTENDS FiniteSets, Naturals

CONSTANTS
  Scenarios,   (* the registers: bits, switches, conflicts and states of the device *)
  Calls,       (* switches and callers of whole-register writes             *)
  MaxEvents,   (* how many calls are made and how often something goes wrong
                  or changes from outside                                   *)
  None         (* no value                                                  *)

Protocols == {"modbus", "cloud"}
Other(p) == IF p = "modbus" THEN "cloud" ELSE "modbus"

ASSUME BitAssumption ==
  \A sc \in Scenarios :
    /\ sc.kind \in {"whole", "bits", "local"} /\ sc.bit \in [Calls -> sc.bits \union {None}]
    /\ sc.conflicts \in [sc.bits -> SUBSET sc.bits] /\ sc.inverted \subseteq sc.bits
    /\ \A b \in sc.bits : b \notin sc.conflicts[b]
    /\ sc.states \subseteq SUBSET sc.bits /\ None \notin sc.bits

VARIABLES
  scenario,    (* never changes: which register, and what its switches are   *)
  device,      (* the inverter's register                                   *)
  report,      (* what the SolisCloud API reports of it, later              *)
  cache,       (* the cached value                                          *)
  shown,       (* shown[s]: _attr_is_on of switch s                         *)
  active,      (* the hub's active protocol                                 *)
  linked,      (* the protocols that are connected()                        *)
  call,        (* call[w]: a call under way                                 *)
  pending,     (* the register is in _pending_write_registers               *)
  verifies,    (* the cloud controller's verify tasks                       *)
  poll,        (* what a cloud update cycle in flight has been answered     *)
  events       (* calls made and troubles had so far                        *)

world == <<device, report>>
vars == <<scenario, device, report, cache, shown, active, linked, call, pending, verifies, poll, events>>

Bits == scenario.bits
Switches == {w \in Calls : scenario.bit[w] # None}

\* History: began, what the device held when the call was made; acknowledged, the
\* last call ended well; undisturbed, no value it took was stale and nobody else has
\* changed the device since.
IdleCall == [pc |-> "idle", on |-> FALSE, want |-> {}, todo |-> {}, old |-> {}, fell |-> FALSE,
             began |-> {}, acknowledged |-> FALSE, undisturbed |-> TRUE]

Init ==
  /\ \E sc \in Scenarios :
       /\ scenario = sc
       /\ device \in sc.states
       /\ cache \in {None, device}
       /\ shown = [s \in {w \in Calls : sc.bit[w] # None} |-> None]
  /\ report = device
  /\ active \in Protocols /\ linked = Protocols
  /\ call = [w \in Calls |-> IdleCall]
  /\ pending = FALSE /\ verifies = {} /\ poll = None
  /\ events = 0

\* A call is made, or something goes wrong or changes from outside.
Event == events < MaxEvents /\ events' = events + 1

-----------------------------------------------------------------------------
(* Switches.                                                               *)

Flag(s, on) == IF scenario.bit[s] \in scenario.inverted THEN ~on ELSE on
IsOn(s, value) == Flag(s, scenario.bit[s] \in value)

\* Mutant of Toggled: the conflicting bits stay.
ToggledBesideConflicts(s, on, base) ==
  IF Flag(s, on) THEN base \union {scenario.bit[s]} ELSE base \ {scenario.bit[s]}

\* The register with switch s turned on or off.
Toggled(s, on, base) ==
  LET b == scenario.bit[s]
      cleared == IF on THEN base \ scenario.conflicts[b] ELSE base
  IN IF Flag(s, on) THEN cleared \union {b} ELSE cleared \ {b}

\* The dispatcher tells every switch of the register.
Notified(value) == [s \in Switches |-> IsOn(s, value)]

-----------------------------------------------------------------------------
(* A call goes on: its record changes, and the device, which disturbs the  *)
(* calls of others.                                                        *)

Goes(w, rec, value) ==
  /\ device' = value
  /\ call' = [x \in Calls |->
       IF x = w THEN rec
       ELSE IF call[x].pc = "idle" THEN IdleCall
       ELSE [call[x] EXCEPT !.undisturbed = @ /\ value = device]]

\* A call returns to its caller, with the register value c cached and sh shown.
Returns(w, rec, value, c, sh, acknowledged) ==
  /\ cache' = c /\ shown' = sh
  /\ Goes(w, [IdleCall EXCEPT !.undisturbed = rec.undisturbed, !.acknowledged = acknowledged], value)

Raises(w, rec, value) == Returns(w, rec, value, cache, shown, FALSE)
Acknowledged(w, rec, value) == Returns(w, rec, value, rec.want, Notified(rec.want), TRUE)

Waits(w, rec, value) == UNCHANGED <<cache, shown>> /\ Goes(w, rec, value)

Differing(v1, v2) == (v1 \ v2) \union (v2 \ v1)

\* A value that is what the device holds, or held before the call itself wrote.
Current(rec, v, value) == v \in {value, rec.began}

\* The TOU switches that differ from v are sent one by one; none is sent if none does.
SendsBits(w, rec, v, value) ==
  LET new == [rec EXCEPT !.undisturbed = @ /\ Current(rec, v, value)]
  IN IF v = rec.want THEN Acknowledged(w, new, value)
     ELSE Waits(w, [new EXCEPT !.pc = "control", !.todo = Differing(v, rec.want), !.old = v], value)

\* The write goes out by protocol p, over the cloud for the TOU switches with the
\* cached value as the old one, however old it is by then.
Sends(w, rec, p, value) ==
  CASE p = "modbus" -> Waits(w, [rec EXCEPT !.pc = "modbus"], value)
    [] p = "cloud" /\ scenario.kind = "whole" -> Waits(w, [rec EXCEPT !.pc = "control"], value)
    [] p = "cloud" /\ scenario.kind = "bits" /\ cache = None ->
         Waits(w, [rec EXCEPT !.pc = "oldread"], value)
    [] OTHER -> SendsBits(w, rec, cache, value)

\* A register without a control CID cannot be sent over the cloud.
Sendable(p) == p = "modbus" \/ scenario.kind # "local"

\* The hub's fallback, to the protocol that is not active now.
FallsBack(w, rec, value) ==
  LET p == Other(active)
  IN IF rec.fell \/ p \notin linked \/ ~Sendable(p) THEN Raises(w, rec, value)
     ELSE Sends(w, [rec EXCEPT !.fell = TRUE], p, value)

\* _routed_write.
Routed(w, rec) ==
  IF Sendable(active) THEN Sends(w, rec, active, device) ELSE FallsBack(w, rec, device)

-----------------------------------------------------------------------------
(* Calls.                                                                  *)

\* A call that is made, by a value that is in step with the device or not.
Made == [IdleCall EXCEPT !.began = device, !.undisturbed = cache \in {None, device}]

\* set_register_bit, with a value to begin with: nothing is written when nothing
\* changes or the active protocol is not connected.
Decides(w, rec, base) ==
  LET new == [rec EXCEPT !.want = Toggled(w, rec.on, base)]
  IN IF new.want # base /\ active \in linked THEN Routed(w, new)
     ELSE Returns(w, new, device, cache, [shown EXCEPT ![w] = rec.on], FALSE)

\* Mutant of Toggle: a cold cache counts as all bits off (issue #402).
ToggleFromZero(w) ==
  /\ w \in Switches /\ call[w].pc = "idle" /\ Event
  /\ \E on \in BOOLEAN : Decides(w, [Made EXCEPT !.on = on], IF cache = None THEN {} ELSE cache)
  /\ UNCHANGED <<scenario, report, active, linked, pending, verifies, poll>>

\* async_turn_on, async_turn_off.  On a cold cache the call raises: the entity asks
\* its controller for a live value, and the hub has no such method.
Toggle(w) ==
  /\ w \in Switches /\ call[w].pc = "idle" /\ Event
  /\ \/ cache # None /\ \E on \in BOOLEAN : Decides(w, [Made EXCEPT !.on = on], cache)
     \/ cache = None /\ Raises(w, Made, device)
  /\ UNCHANGED <<scenario, report, active, linked, pending, verifies, poll>>

\* A select option or the write service: the whole register.
WriteWhole(w) ==
  /\ w \notin Switches /\ call[w].pc = "idle" /\ Event
  /\ \E v \in scenario.states : Routed(w, [Made EXCEPT !.want = v])
  /\ UNCHANGED <<scenario, report, active, linked, pending, verifies, poll>>

\* What a read of the twelve TOU CIDs makes of an answer that may lack some.
Bitfield(observed) == report \intersect observed

\* Nothing is missing from an answer, or something is, which is trouble.
Observes(observed) ==
  IF observed = Bits THEN UNCHANGED events ELSE observed \subseteq Bits /\ Event

\* A Modbus write of the whole register.
ModbusWritten(w) ==
  /\ call[w].pc = "modbus" /\ "modbus" \in linked
  /\ Acknowledged(w, call[w], call[w].want)
  /\ UNCHANGED <<scenario, report, active, linked, pending, verifies, poll, events>>

\* The request is refused or lost, or its answer is.
ModbusFails(w) ==
  /\ call[w].pc = "modbus" /\ Event
  /\ \E value \in {device, call[w].want} : FallsBack(w, call[w], value)
  /\ UNCHANGED <<scenario, report, active, linked, pending, verifies, poll>>

\* The TOU switches are read before the first of them is sent.
OldValueRead(w) ==
  /\ call[w].pc = "oldread"
  /\ \E observed \in SUBSET Bits :
       /\ Observes(observed)
       /\ SendsBits(w, call[w], Bitfield(observed), device)
  /\ UNCHANGED <<scenario, report, active, linked, pending, verifies, poll>>

OldValueReadFails(w) ==
  /\ call[w].pc = "oldread" /\ Event
  /\ FallsBack(w, call[w], device)
  /\ UNCHANGED <<scenario, report, active, linked, pending, verifies, poll>>

With(value, b, on) == IF on THEN value \union {b} ELSE value \ {b}

\* Cached, shown, pending and to be verified.
CloudDone(w, rec, value) ==
  /\ Acknowledged(w, rec, value)
  /\ pending' = TRUE
  /\ verifies' = verifies \union {[want |-> rec.want, left |-> 2, actual |-> None]}

\* The next TOU switch, lowest first: the service sets the bit, in the register
\* as it is or in the old value that came with the call.
NextBit(rec) == CHOOSE b \in rec.todo : \A x \in rec.todo : b <= x

\* Mutant of Advanced: the old value does not follow the calls.
AdvancedButOld(rec, b) == [rec EXCEPT !.todo = @ \ {b}]

Advanced(rec, b) == [rec EXCEPT !.todo = @ \ {b}, !.old = With(@, b, b \in rec.want)]

ControlAccepted(w) ==
  /\ call[w].pc = "control"
  /\ IF scenario.kind = "whole" THEN CloudDone(w, call[w], call[w].want)
     ELSE LET b == NextBit(call[w])
              rec == Advanced(call[w], b)
          IN \E value \in {With(device, b, b \in rec.want), With(call[w].old, b, b \in rec.want)} :
               IF rec.todo = {} THEN CloudDone(w, rec, value)
               ELSE Waits(w, rec, value) /\ UNCHANGED <<pending, verifies>>
  /\ UNCHANGED <<scenario, report, active, linked, poll, events>>

ControlFails(w) ==
  /\ call[w].pc = "control" /\ Event
  /\ FallsBack(w, call[w], device)
  /\ UNCHANGED <<scenario, report, active, linked, pending, verifies, poll>>

-----------------------------------------------------------------------------
(* Verify tasks and polls.                                                 *)

Shows(value) == cache' = value /\ shown' = Notified(value)

\* Mutant of VerifyRead: the mark is dropped only when the write is confirmed.
VerifyReadForgets(v) ==
  /\ v \in verifies
  /\ \E observed \in (SUBSET Bits) \union {None} :
       LET failed == observed = None \/ (scenario.kind = "whole" /\ observed # Bits)
           actual == IF failed THEN v.actual ELSE Bitfield(observed)
           ended == (~failed /\ actual = v.want) \/ v.left = 1
       IN /\ IF observed = None THEN Event ELSE Observes(observed)
          /\ IF ended /\ actual \notin {None, v.want} THEN Shows(actual) ELSE UNCHANGED <<cache, shown>>
          /\ pending' = (pending /\ ~(ended /\ actual = v.want))
          /\ verifies' = (verifies \ {v}) \union
                           (IF ended THEN {} ELSE {[v EXCEPT !.left = 1, !.actual = actual]})
  /\ UNCHANGED <<scenario, world, active, linked, call, poll>>

\* A read of a verify task: the wanted value ends it, so does the second read,
\* which restores what the device was last seen to hold.
VerifyRead(v) ==
  /\ v \in verifies
  /\ \E observed \in (SUBSET Bits) \union {None} :
       LET failed == observed = None \/ (scenario.kind = "whole" /\ observed # Bits)
           actual == IF failed THEN v.actual ELSE Bitfield(observed)
           ended == (~failed /\ actual = v.want) \/ v.left = 1
       IN /\ IF observed = None THEN Event ELSE Observes(observed)
          /\ IF ended /\ actual \notin {None, v.want} THEN Shows(actual) ELSE UNCHANGED <<cache, shown>>
          /\ pending' = (pending /\ ~ended)
          /\ verifies' = (verifies \ {v}) \union
                           (IF ended THEN {} ELSE {[v EXCEPT !.left = 1, !.actual = actual]})
  /\ UNCHANGED <<scenario, world, active, linked, call, poll>>

ModbusPoll ==
  /\ active = "modbus" /\ active \in linked
  /\ Shows(device)
  /\ UNCHANGED <<scenario, world, active, linked, call, pending, verifies, poll, events>>

CloudPollAnswered ==
  /\ active = "cloud" /\ active \in linked /\ poll = None
  /\ \E observed \in SUBSET Bits :
       Observes(observed) /\ poll' = [bits |-> Bitfield(observed), observed |-> observed]
  /\ UNCHANGED <<scenario, world, cache, shown, active, linked, call, pending, verifies>>

\* _merge_switch_bits: a bit that is missing stays as it is cached, and a cold
\* cache waits for a complete answer.
Merged ==
  IF scenario.kind = "local" THEN cache
  ELSE IF poll.observed = Bits THEN poll.bits
  ELSE IF cache = None \/ scenario.kind = "whole" THEN cache
  ELSE poll.bits \union (cache \ poll.observed)

CloudPollLands ==
  /\ poll # None /\ poll' = None
  /\ IF pending \/ Merged = None THEN UNCHANGED <<cache, shown>> ELSE Shows(Merged)
  /\ UNCHANGED <<scenario, world, active, linked, call, pending, verifies, events>>

-----------------------------------------------------------------------------
(* Outside.                                                                *)

CloudCatchesUp ==
  /\ report # device /\ report' = device
  /\ UNCHANGED <<scenario, device, cache, shown, active, linked, call, pending, verifies, poll, events>>

\* The front panel.
DeviceChanges ==
  /\ \E v \in scenario.states \ {device} :
       /\ device' = v
       /\ call' = [w \in Calls |-> IF call[w].pc = "idle" THEN IdleCall
                                 ELSE [call[w] EXCEPT !.undisturbed = FALSE]]
  /\ Event
  /\ UNCHANGED <<scenario, report, cache, shown, active, linked, pending, verifies, poll>>

HubSwitches ==
  /\ active' = Other(active) /\ Event
  /\ UNCHANGED <<scenario, world, cache, shown, linked, call, pending, verifies, poll>>

Disconnects ==
  /\ \E p \in linked : linked' = linked \ {p}
  /\ Event
  /\ UNCHANGED <<scenario, world, cache, shown, active, call, pending, verifies, poll>>

Connects ==
  /\ linked # Protocols /\ linked' = Protocols
  /\ UNCHANGED <<scenario, world, cache, shown, active, call, pending, verifies, poll, events>>

Next ==
  \/ \E w \in Calls :
       \/ Toggle(w) \/ WriteWhole(w)
       \/ ModbusWritten(w) \/ ModbusFails(w) \/ OldValueRead(w) \/ OldValueReadFails(w)
       \/ ControlAccepted(w) \/ ControlFails(w)
  \/ \E v \in verifies : VerifyRead(v)
  \/ ModbusPoll \/ CloudPollAnswered \/ CloudPollLands
  \/ CloudCatchesUp \/ DeviceChanges \/ HubSwitches \/ Disconnects \/ Connects

Spec == Init /\ [][Next]_vars

\* The event loop runs, lost links come back, the cloud catches up, and polls
\* are repeated.
FairSpec ==
  /\ Spec
  /\ WF_vars(\E v \in verifies : VerifyRead(v))
  /\ WF_vars(ModbusPoll) /\ WF_vars(CloudPollAnswered) /\ WF_vars(CloudPollLands)
  /\ WF_vars(CloudCatchesUp) /\ WF_vars(Connects)

-----------------------------------------------------------------------------

\* A switch changes its own bit and the bits it conflicts with, and no other,
\* unless a value it took was stale or incomplete or somebody else wrote under it,
\* whatever fails and by whichever protocol; from a cold cache it changes nothing
\* (issue #402), for the call raises.
OthersKept ==
  [][\A s \in Switches :
       call[s].pc # "idle" /\ call'[s] # call[s] /\ call'[s].undisturbed =>
         Differing(device, device') \subseteq {scenario.bit[s]} \union scenario.conflicts[scenario.bit[s]]]_vars

\* A write that nobody disturbed and that is acknowledged has been carried out in
\* full, whatever failed on the way, also when the hub fell back after some TOU
\* switches had been sent: a switch is as it was asked to be, and off are the ones
\* it conflicts with if it was turned on.
WritesApplied ==
  [][\A w \in Calls :
       call[w].pc # "idle" /\ call'[w].acknowledged /\ call'[w].undisturbed =>
         IF w \in Switches
         THEN /\ IsOn(w, device') = call[w].on
              /\ call[w].on => scenario.conflicts[scenario.bit[w]] \intersect device' = {}
         ELSE device' = call[w].want]_vars

\* When nothing changes any more the cache and the switches come to show the
\* device, except over the cloud for a register the cloud does not report.
ShownConverges ==
  <>[](Sendable(active) => cache = device /\ shown = Notified(device))
=============================================================================
