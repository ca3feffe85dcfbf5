------------------------------- MODULE Readings -------------------------------
(***************************************************************************)
(* What a poll's registers go through before an entity shows them: the     *)
(* spike filter of the battery's state of charge (33139; that of the       *)
(* backup load, 33148, is the same with other implausible values), the     *)
(* cache, the assembly of a derived sensor from two registers, and the     *)
(* test of the inverter's clock, which sets it when it has drifted in too  *)
(* many tests in a row.  All inverters share one drift counter.  The hub   *)
(* of an inverter switches between Modbus and the cloud, whose polls       *)
(* publish what they bring without a filter and do not bring the clock.    *)
(***************************************************************************)
EXTENDS Naturals

CONSTANTS
  Scenarios,   (* the inverters there are, the blocks their polls read and the
                  states of charge they may report                          *)
  Inverters,
  Patience,    (* implausible values ignored in a row, and one: 3             *)
  DriftLimit,  (* the counter must exceed it before the clock is set: 5       *)
  MaxEvents,   (* how often something changes or goes wrong                   *)
  None

\* Edges are the implausible values.
ASSUME ReadingsAssumption ==
  /\ Patience \in Nat \ {0} /\ DriftLimit \in Nat /\ MaxEvents \in Nat
  /\ \A sc \in Scenarios :
       /\ sc.inverters \subseteq Inverters
       /\ sc.blocks \subseteq {"soc", "clock", "first", "second"}
       /\ sc.edges \subseteq sc.values /\ sc.values # {} /\ None \notin sc.values

VARIABLES
  scenario,    (* never changes                                             *)
  linked,      (* inverters whose controller is connected                   *)
  active,      (* active[i]: the protocol by which it is polled             *)
  winding,     (* inverters whose stopped Modbus object is in mid-cycle     *)
  soc,         (* soc[i]: the state of charge the inverter reports          *)
  spikes,      (* spikes[i][o]: _spike_counter of its Modbus polling object *)
  cached,      (* cached[i]: the cached state of charge                     *)
  received,    (* received[i]: the derived sensor's _received_values        *)
  clock,       (* clock[i]: whether the RTC is within ten seconds           *)
  drift,       (* hass.data[DOMAIN][DRIFT_COUNTER]                          *)
  setting,     (* inverters with an RTC write under way                     *)
  events,
  history      (* what the properties speak of: edgeRun[i][o], edges read in a
                  row by one polling object; wrongRun, tests in a row that
                  found a drift; gap[i], a poll, or the end of one that a
                  switch has cut in two, has brought one register of the pair;
                  mixed[i], the derived value combines two polls            *)

vars == <<scenario, linked, active, winding, soc, spikes, cached, received, clock, drift, setting, events, history>>

All == scenario.inverters
Pair == {"first", "second"}
Blocks == scenario.blocks

\* The hub's Modbus object, and the one before, whose cycle in flight goes on.
Objects == {"current", "stopped"}

AtMost(n, limit) == IF n > limit THEN limit ELSE n

Init ==
  /\ scenario \in Scenarios
  /\ linked = All
  /\ soc \in [All -> scenario.values] /\ clock \in [All -> {"right", "wrong"}]
  /\ active \in [All -> {"modbus", "cloud"}] /\ winding = {}
  /\ spikes = [i \in All |-> [o \in Objects |-> 0]] /\ cached = [i \in All |-> None]
  /\ received = [i \in All |-> {}]
  /\ drift = 0 /\ setting = {} /\ events = 0
  /\ history = [edgeRun |-> [i \in All |-> [o \in Objects |-> 0]], wrongRun |-> 0,
                gap |-> [i \in All |-> FALSE], mixed |-> [i \in All |-> FALSE]]

Event == events < MaxEvents /\ events' = events + 1

-----------------------------------------------------------------------------
(* The spike filter: the value to cache, and the counter.                  *)

\* Mutant of Filtered: plausible values in between do not count as such.
FilteredAcrossGaps(value, counter, old) ==
  IF value \notin scenario.edges THEN [value |-> value, counter |-> counter]
  ELSE IF counter + 1 < Patience
       THEN [value |-> IF old # None THEN old ELSE value, counter |-> counter + 1]
  ELSE [value |-> value, counter |-> 0]

Filtered(value, counter, old) ==
  IF value \notin scenario.edges THEN [value |-> value, counter |-> 0]
  ELSE IF counter + 1 < Patience
       THEN [value |-> IF old # None THEN old ELSE value, counter |-> counter + 1]
  ELSE [value |-> value, counter |-> 0]

ReadsSoc(i, o) ==
  LET f == Filtered(soc[i], spikes[i][o], cached[i])
  IN /\ cached' = [cached EXCEPT ![i] = f.value]
     /\ spikes' = [spikes EXCEPT ![i][o] = f.counter]

-----------------------------------------------------------------------------
(* A derived sensor computes its value when it has both registers, and     *)
(* forgets them then.  A poll notifies one of them before the other.       *)

\* Mutant of Assembled: the registers are kept after the update.
AssembledKeeping(kept, delivered, head) ==
  LET done == head \in delivered /\ kept \ {head} # {}
      both == kept \union delivered
  IN [left |-> both,
      shows |-> both = Pair,
      mixed |-> done \/ (both = Pair /\ delivered # Pair)]

\* What is left, whether a value has been shown, and whether it is of two polls.
Assembled(kept, delivered, head) ==
  LET early == head \in delivered /\ kept \ {head} # {}
      both == kept \union delivered
  IN IF early THEN [left |-> delivered \ {head}, shows |-> TRUE, mixed |-> TRUE]
     ELSE IF both = Pair THEN [left |-> {}, shows |-> TRUE, mixed |-> head \notin delivered]
     ELSE [left |-> both, shows |-> FALSE, mixed |-> FALSE]

\* Of the pair a poll has brought one register.
Half(brought) == brought \intersect Pair \notin {{}, Pair}

-----------------------------------------------------------------------------
(* clock_drift_test.                                                       *)

\* Mutant of ClockTested: a clock that is right does not start the count again.
ClockTestedWithoutReset(i) ==
  /\ IF clock[i] = "right" THEN UNCHANGED drift
     ELSE drift' = AtMost(drift + 1, DriftLimit + 1)
  /\ setting' = IF clock[i] = "wrong" /\ drift > DriftLimit THEN setting \union {i} ELSE setting

\* Mutant of ClockTested: the clock is set once in a run of tests.
ClockTestedOnce(i) ==
  /\ IF clock[i] = "right" THEN drift' = 0 ELSE drift' = AtMost(drift + 1, DriftLimit + 2)
  /\ setting' = IF clock[i] = "wrong" /\ drift = DriftLimit + 1 THEN setting \union {i} ELSE setting

\* Beyond the limit every test sets the clock, and the count stays.
ClockTested(i) ==
  /\ IF clock[i] = "right" THEN drift' = 0
     ELSE IF drift > DriftLimit THEN UNCHANGED drift
     ELSE drift' = drift + 1
  /\ setting' = IF clock[i] = "wrong" /\ drift > DriftLimit THEN setting \union {i} ELSE setting

-----------------------------------------------------------------------------

\* A poll brings all blocks, or some are lost; the cycle of a stopped object
\* brings those it has not read yet.
Poll(i, o) ==
  /\ i \in linked
  /\ IF o = "current" THEN active[i] = "modbus" ELSE i \in winding
  /\ winding' = IF o = "stopped" THEN winding \ {i} ELSE winding
  /\ \E brought \in SUBSET Blocks :
       LET pair == Assembled(received[i], brought \intersect Pair, "first")
           edge == soc[i] \in scenario.edges
       IN /\ IF brought = Blocks \/ o = "stopped" THEN UNCHANGED events ELSE Event
          /\ IF "soc" \in brought THEN ReadsSoc(i, o) ELSE UNCHANGED <<cached, spikes>>
          /\ received' = [received EXCEPT ![i] = pair.left]
          /\ IF "clock" \in brought THEN ClockTested(i) ELSE UNCHANGED <<drift, setting>>
          /\ history' = [history EXCEPT
               !.edgeRun[i][o] = IF "soc" \notin brought THEN @
                                 ELSE IF edge THEN AtMost(@ + 1, Patience) ELSE 0,
               !.wrongRun = IF "clock" \notin brought THEN @
                            ELSE IF clock[i] = "wrong" THEN AtMost(@ + 1, DriftLimit + 1) ELSE 0,
               !.gap[i] = @ \/ Half(brought),
               !.mixed[i] = IF pair.shows THEN pair.mixed ELSE @]
  /\ UNCHANGED <<scenario, linked, active, soc, clock>>

\* A poll of the cloud publishes the state of charge as it is reported, in whatever
\* order and as much of the pair as is mapped; it reports late, or nothing, at times.
CloudPoll(i) ==
  /\ active[i] = "cloud"
  /\ \E brought \in SUBSET (Pair \intersect Blocks), head \in Pair, value \in scenario.values \union {None} :
       LET pair == Assembled(received[i], brought, head)
       IN /\ IF value = soc[i] THEN UNCHANGED events ELSE Event
          /\ cached' = IF value = None THEN cached ELSE [cached EXCEPT ![i] = value]
          /\ received' = [received EXCEPT ![i] = pair.left]
          /\ history' = [history EXCEPT !.gap[i] = @ \/ Half(brought),
                                        !.mixed[i] = IF pair.shows THEN pair.mixed ELSE @]
  /\ UNCHANGED <<scenario, linked, active, winding, soc, spikes, clock, drift, setting>>

\* The write carries the time of the test: it sets the clock right unless it has
\* waited too long for the link, is lost or refused.
SettingEnds(i) ==
  /\ i \in setting /\ setting' = setting \ {i}
  /\ \/ i \in linked /\ clock' = [clock EXCEPT ![i] = "right"] /\ UNCHANGED events
     \/ i \in linked /\ clock' = [clock EXCEPT ![i] = "wrong"] /\ Event
     \/ i \notin linked /\ UNCHANGED <<clock, events>>
  /\ UNCHANGED <<scenario, linked, active, winding, soc, spikes, cached, received, drift, history>>

SocChanges(i) ==
  /\ \E v \in scenario.values \ {soc[i]} : soc' = [soc EXCEPT ![i] = v]
  /\ Event
  /\ UNCHANGED <<scenario, linked, active, winding, spikes, cached, received, clock, drift, setting, history>>

ClockDrifts(i) ==
  /\ clock[i] = "right" /\ clock' = [clock EXCEPT ![i] = "wrong"]
  /\ Event
  /\ UNCHANGED <<scenario, linked, active, winding, soc, spikes, cached, received, drift, setting, history>>

\* The hub stops the Modbus object, perhaps in the middle of a cycle, and polls
\* the cloud.
LeavesModbus(i) ==
  /\ active[i] = "modbus" /\ active' = [active EXCEPT ![i] = "cloud"]
  /\ i \notin winding /\ winding' \in {winding, winding \union {i}}
  /\ spikes' = [spikes EXCEPT ![i] = [current |-> 0, stopped |-> @.current]]
  /\ history' = [history EXCEPT !.edgeRun[i] = [current |-> 0, stopped |-> @.current]]
  /\ Event
  /\ UNCHANGED <<scenario, linked, soc, cached, received, clock, drift, setting>>

\* It comes back with a new object, which counts from 0.
ReturnsToModbus(i) ==
  /\ active[i] = "cloud" /\ active' = [active EXCEPT ![i] = "modbus"]
  /\ UNCHANGED <<scenario, linked, winding, soc, spikes, cached, received, clock, drift, setting,
                 events, history>>

LinkLost(i) ==
  /\ i \in linked /\ linked' = linked \ {i}
  /\ Event
  /\ UNCHANGED <<scenario, active, winding, soc, spikes, cached, received, clock, drift, setting, history>>

LinkBack(i) ==
  /\ i \in All \ linked /\ linked' = linked \union {i}
  /\ UNCHANGED <<scenario, active, winding, soc, spikes, cached, received, clock, drift, setting, events, history>>

Next ==
  \E i \in All :
    \/ CloudPoll(i) \/ SettingEnds(i) \/ \E o \in Objects : Poll(i, o)
    \/ SocChanges(i) \/ ClockDrifts(i) \/ LeavesModbus(i) \/ ReturnsToModbus(i)
    \/ LinkLost(i) \/ LinkBack(i)

\* Polls are repeated, writes end, and lost links come back.
Fairness ==
  \A i \in Inverters :
    /\ WF_vars(i \in All /\ Poll(i, "current")) /\ WF_vars(i \in All /\ CloudPoll(i))
    /\ WF_vars(i \in All /\ SettingEnds(i)) /\ WF_vars(i \in All /\ LinkBack(i))

Spec == Init /\ [][Next]_vars
FairSpec == Spec /\ Fairness

-----------------------------------------------------------------------------

\* A poll over Modbus lets an implausible value replace a plausible cached one only
\* when its polling object has read one for the third time in a row, however the
\* readings mix, whatever the cloud has published unfiltered in between, and though the
\* cycle of an object that was stopped goes on beside its successor's.
SpikesHeldBack ==
  [][\A i \in All, o \in Objects :
       /\ Poll(i, o)
       /\ cached[i] \notin scenario.edges \union {None} /\ cached'[i] \in scenario.edges
       => history'.edgeRun[i][o] = Patience]_vars

\* A clock is set only after six tests in a row that found a drift.  They may
\* have been tests of other inverters, for the counter is shared.
SetAfterManyDrifts ==
  [][\A i \in setting' \ setting : history.wrongRun = DriftLimit + 1]_vars

\* What lasts is shown and set right: a reading that stays, implausible or not, is
\* cached in the end, and a wrong clock is set, unless the inverter is polled over the
\* cloud or the right clock of another one keeps resetting the shared counter.
ReadingsConverge ==
  \A i \in Inverters :
    /\ <>[](i \in All => cached[i] = soc[i])
    /\ \/ []<>(i \in All => clock[i] = "right" \/ active[i] = "cloud")
       \/ \E j \in Inverters \ {i} : []<>(j \in All /\ clock[j] = "right")

\* A derived sensor combines registers of different polls, also of polls by different
\* protocols and in different orders, only after a poll that brought but one of them.
MixedOnlyAfterGap == \A i \in All : history.mixed[i] => history.gap[i]
=============================================================================
