---------------------------- MODULE ReadingsProofs ----------------------------
(***************************************************************************)
(* Proofs about readings and the clock, for any number of inverters, any   *)
(* values and any limits, over both protocols.                             *)
(***************************************************************************)
EXTENDS Readings, TLAPS

Histories ==
  [edgeRun : [All -> [Objects -> Nat]], wrongRun : Nat, gap : [All -> BOOLEAN], mixed : [All -> BOOLEAN]]

ReadingsTypeOK ==
  /\ scenario \in Scenarios
  /\ soc \in [All -> scenario.values] /\ clock \in [All -> {"right", "wrong"}]
  /\ spikes \in [All -> [Objects -> Nat]] /\ cached \in [All -> scenario.values \union {None}]
  /\ received \in [All -> SUBSET Pair]
  /\ drift \in Nat
  /\ history \in Histories

-----------------------------------------------------------------------------
(* The inductive invariant: the counters of the code never run ahead of    *)
(* what has been read, and a register is kept only after a poll that       *)
(* lacked the other one.                                                   *)

SpikeInv ==
  \A i \in All, o \in Objects :
    spikes[i][o] <= history.edgeRun[i][o] /\ history.edgeRun[i][o] <= Patience

DriftInv == drift <= history.wrongRun /\ history.wrongRun <= DriftLimit + 1

PairInv == \A i \in All : received[i] # {} => history.gap[i]

ReadingsInv == ReadingsTypeOK /\ SpikeInv /\ DriftInv /\ PairInv /\ MixedOnlyAfterGap

-----------------------------------------------------------------------------
(* What a poll changes.                                                    *)

\* An implausible value leaves the filter when it has no plausible one to hold, or
\* when the counter is full.
LEMMA FilterFacts ==
  ASSUME NEW value \in scenario.values, NEW counter \in Nat, NEW old \in scenario.values \union {None}
  PROVE  LET f == Filtered(value, counter, old)
         IN /\ f.value \in scenario.values \union {None} /\ f.counter \in Nat
            /\ f.counter <= IF value \in scenario.edges THEN counter + 1 ELSE 0
            /\ f.value \in scenario.edges /\ old \notin scenario.edges \union {None} =>
                 value \in scenario.edges /\ counter + 1 >= Patience
  BY ReadingsAssumption DEF Filtered

\* Whatever is left or mixed comes from what was kept or from half of the pair.
LEMMA AssemblyFacts ==
  ASSUME NEW kept \in SUBSET Pair, NEW brought, NEW head \in Pair
  PROVE  LET pair == Assembled(kept, brought \intersect Pair, head)
         IN /\ pair.left \in SUBSET Pair /\ pair.shows \in BOOLEAN /\ pair.mixed \in BOOLEAN
            /\ kept = {} /\ ~Half(brought) => pair.left = {} /\ ~pair.mixed
<1> DEFINE delivered == brought \intersect Pair
<1>1. delivered \in SUBSET Pair /\ (~Half(brought) => delivered \in {{}, Pair})
  BY DEF Half
<1> HIDE DEF delivered
<1>2. LET pair == Assembled(kept, delivered, head)
      IN /\ pair.left \in SUBSET Pair /\ pair.shows \in BOOLEAN /\ pair.mixed \in BOOLEAN
         /\ kept = {} /\ delivered \in {{}, Pair} => pair.left = {} /\ ~pair.mixed
  BY <1>1 DEF Assembled, Pair
<1> QED BY <1>1, <1>2 DEF delivered

\* The run of implausible readings after a poll.
Run(i, o, brought) ==
  IF "soc" \notin brought THEN history.edgeRun[i][o]
  ELSE IF soc[i] \in scenario.edges THEN AtMost(history.edgeRun[i][o] + 1, Patience) ELSE 0

WrongRun(i, brought) ==
  IF "clock" \notin brought THEN history.wrongRun
  ELSE IF clock[i] = "wrong" THEN AtMost(history.wrongRun + 1, DriftLimit + 1) ELSE 0

\* What a poll does, with the history field by field.
Polled(i, o, brought) ==
  LET pair == Assembled(received[i], brought \intersect Pair, "first")
  IN /\ IF "soc" \in brought THEN ReadsSoc(i, o) ELSE UNCHANGED <<cached, spikes>>
     /\ received' = [received EXCEPT ![i] = pair.left]
     /\ IF "clock" \in brought THEN ClockTested(i) ELSE UNCHANGED <<drift, setting>>
     /\ history' \in Histories
     /\ history'.edgeRun = [history.edgeRun EXCEPT ![i][o] = Run(i, o, brought)]
     /\ history'.wrongRun = WrongRun(i, brought)
     /\ history'.gap = [history.gap EXCEPT ![i] = @ \/ Half(brought)]
     /\ history'.mixed = [history.mixed EXCEPT ![i] = IF pair.shows THEN pair.mixed ELSE @]

LEMMA PollFacts ==
  ASSUME ReadingsTypeOK, NEW i \in All, NEW o \in Objects, Poll(i, o)
  PROVE  \E brought : Polled(i, o, brought)
<1> DEFINE pair(brought) == Assembled(received[i], brought \intersect Pair, "first")
           gap(brought) == history.gap[i] \/ Half(brought)
           mix(brought) == IF pair(brought).shows THEN pair(brought).mixed ELSE history.mixed[i]
<1>1. PICK brought \in SUBSET Blocks :
        /\ IF "soc" \in brought THEN ReadsSoc(i, o) ELSE UNCHANGED <<cached, spikes>>
        /\ received' = [received EXCEPT ![i] = pair(brought).left]
        /\ IF "clock" \in brought THEN ClockTested(i) ELSE UNCHANGED <<drift, setting>>
        /\ history' = [history EXCEPT !.edgeRun[i][o] = Run(i, o, brought),
                                      !.wrongRun = WrongRun(i, brought),
                                      !.gap[i] = gap(brought), !.mixed[i] = mix(brought)]
  BY DEF Poll, Run, WrongRun
<1>2. Run(i, o, brought) \in Nat /\ WrongRun(i, brought) \in Nat
  BY ReadingsAssumption DEF ReadingsTypeOK, Histories, AtMost, Run, WrongRun
<1>3. gap(brought) \in BOOLEAN /\ mix(brought) \in BOOLEAN
  <2>1. received[i] \in SUBSET Pair /\ history.mixed[i] \in BOOLEAN /\ "first" \in Pair
    BY DEF ReadingsTypeOK, Histories, Pair
  <2>2. pair(brought).mixed \in BOOLEAN
    BY <2>1, AssemblyFacts
  <2>3. mix(brought) \in BOOLEAN
    BY <2>1, <2>2
  <2> QED BY <2>3 DEF ReadingsTypeOK, Histories
<1>4. /\ history.edgeRun \in [All -> [Objects -> Nat]]
      /\ history.gap \in [All -> BOOLEAN] /\ history.mixed \in [All -> BOOLEAN]
  BY DEF ReadingsTypeOK, Histories
<1> HIDE DEF gap, mix
<1>5. /\ [history.edgeRun EXCEPT ![i][o] = Run(i, o, brought)] \in [All -> [Objects -> Nat]]
      /\ [history.gap EXCEPT ![i] = gap(brought)] \in [All -> BOOLEAN]
      /\ [history.mixed EXCEPT ![i] = mix(brought)] \in [All -> BOOLEAN]
  BY <1>2, <1>3, <1>4
<1>6. history' = [edgeRun |-> [history.edgeRun EXCEPT ![i][o] = Run(i, o, brought)],
                  wrongRun |-> WrongRun(i, brought),
                  gap |-> [history.gap EXCEPT ![i] = gap(brought)],
                  mixed |-> [history.mixed EXCEPT ![i] = mix(brought)]]
  BY <1>1 DEF ReadingsTypeOK, Histories
<1>7. history' \in Histories
  BY <1>2, <1>5, <1>6 DEF Histories
<1>8. /\ history'.edgeRun = [history.edgeRun EXCEPT ![i][o] = Run(i, o, brought)]
      /\ history'.wrongRun = WrongRun(i, brought)
      /\ history'.gap = [history.gap EXCEPT ![i] = gap(brought)]
      /\ history'.mixed = [history.mixed EXCEPT ![i] = mix(brought)]
  BY <1>6
<1>9. Polled(i, o, brought)
  BY <1>1, <1>7, <1>8 DEF Polled, gap, mix
<1> QED BY <1>9

-----------------------------------------------------------------------------

LEMMA InitInv == Init => ReadingsInv
<1> SUFFICES ASSUME Init PROVE ReadingsInv
  OBVIOUS
<1>1. scenario \in Scenarios
  BY DEF Init
<1>2. history \in Histories /\ history.wrongRun = 0
      /\ \A i \in All : (\A o \in Objects : history.edgeRun[i][o] = 0) /\ ~history.gap[i] /\ ~history.mixed[i]
  BY DEF Init, Histories
<1>3. ReadingsTypeOK
  BY <1>1, <1>2 DEF Init, ReadingsTypeOK
<1>4. SpikeInv /\ DriftInv /\ PairInv /\ MixedOnlyAfterGap
  BY <1>2, ReadingsAssumption DEF Init, SpikeInv, DriftInv, PairInv, MixedOnlyAfterGap
<1> QED BY <1>3, <1>4 DEF ReadingsInv

\* What a poll leaves behind of the pair is explained.
LEMMA PairKept ==
  ASSUME ReadingsInv, NEW i \in All, NEW brought, NEW head \in Pair, All' = All,
         NEW pair, pair = Assembled(received[i], brought \intersect Pair, head),
         received' = [received EXCEPT ![i] = pair.left],
         history'.gap = [history.gap EXCEPT ![i] = @ \/ Half(brought)],
         history'.mixed = [history.mixed EXCEPT ![i] = IF pair.shows THEN pair.mixed ELSE @]
  PROVE  received' \in [All -> SUBSET Pair] /\ PairInv' /\ MixedOnlyAfterGap'
<1>1. /\ received \in [All -> SUBSET Pair]
      /\ history.gap \in [All -> BOOLEAN] /\ history.mixed \in [All -> BOOLEAN]
  BY DEF ReadingsInv, ReadingsTypeOK, Histories
<1>2. /\ pair.left \in SUBSET Pair
      /\ received[i] = {} /\ ~Half(brought) => pair.left = {} /\ ~pair.mixed
  BY <1>1, AssemblyFacts
<1>3. ASSUME NEW j \in All \ {i}
      PROVE  received'[j] = received[j] /\ history'.gap[j] = history.gap[j]
             /\ history'.mixed[j] = history.mixed[j]
  BY <1>1
<1>4. /\ received'[i] = pair.left /\ history'.gap[i] = (history.gap[i] \/ Half(brought))
      /\ history'.mixed[i] = IF pair.shows THEN pair.mixed ELSE history.mixed[i]
  BY <1>1
<1>5. (received'[i] # {} => history'.gap[i]) /\ (history'.mixed[i] => history'.gap[i])
  BY <1>2, <1>4 DEF ReadingsInv, PairInv, MixedOnlyAfterGap
<1>6. PairInv' /\ MixedOnlyAfterGap'
  BY <1>3, <1>5 DEF ReadingsInv, PairInv, MixedOnlyAfterGap
<1> QED BY <1>1, <1>2, <1>6

\* The rest of what a poll keeps, once the filter is seen to.
LEMMA PollRest ==
  ASSUME ReadingsInv, NEW i \in All, NEW brought, UNCHANGED <<scenario, soc, clock>>, All' = All,
         history' \in Histories, history'.wrongRun = WrongRun(i, brought),
         IF "clock" \in brought THEN ClockTested(i) ELSE UNCHANGED <<drift, setting>>,
         cached' \in [All -> scenario.values \union {None}], spikes' \in [All -> [Objects -> Nat]],
         received' \in [All -> SUBSET Pair], SpikeInv', PairInv', MixedOnlyAfterGap'
  PROVE  ReadingsInv'
<1> USE DEF ReadingsInv
<1>1. drift \in Nat /\ history.wrongRun \in Nat /\ clock[i] \in {"right", "wrong"}
  BY DEF ReadingsTypeOK, Histories
<1>2. DriftInv'
  BY <1>1, ReadingsAssumption DEF DriftInv, ClockTested, AtMost, WrongRun
<1>3. drift' \in Nat
  BY <1>1 DEF ClockTested
<1>4. Histories' = Histories
  BY DEF Histories
<1>5. ReadingsTypeOK'
  BY <1>3, <1>4 DEF ReadingsTypeOK
<1> QED BY <1>2, <1>5

LEMMA PollInv ==
  ASSUME ReadingsInv, NEW i \in All, NEW o \in Objects, Poll(i, o)
  PROVE  ReadingsInv'
<1> USE DEF ReadingsInv
<1>1. UNCHANGED <<scenario, soc, clock>> /\ All' = All
  BY DEF Poll, All
<1>2. PICK brought : Polled(i, o, brought)
  BY PollFacts
<1> DEFINE pair == Assembled(received[i], brought \intersect Pair, "first")
           f == Filtered(soc[i], spikes[i][o], cached[i])
<1>3. /\ f.value \in scenario.values \union {None} /\ f.counter \in Nat
      /\ f.counter <= IF soc[i] \in scenario.edges THEN spikes[i][o] + 1 ELSE 0
  BY FilterFacts DEF ReadingsTypeOK
<1>4. /\ spikes \in [All -> [Objects -> Nat]] /\ history.edgeRun \in [All -> [Objects -> Nat]]
      /\ history.wrongRun \in Nat /\ drift \in Nat
      /\ cached \in [All -> scenario.values \union {None}]
  BY DEF ReadingsTypeOK, Histories
<1>5. /\ history' \in Histories /\ history'.wrongRun = WrongRun(i, brought)
      /\ history'.edgeRun = [history.edgeRun EXCEPT ![i][o] = Run(i, o, brought)]
      /\ IF "clock" \in brought THEN ClockTested(i) ELSE UNCHANGED <<drift, setting>>
      /\ IF "soc" \in brought THEN ReadsSoc(i, o) ELSE UNCHANGED <<cached, spikes>>
  BY <1>2 DEF Polled
<1>6. received' \in [All -> SUBSET Pair] /\ PairInv' /\ MixedOnlyAfterGap'
  <2>1. /\ received' = [received EXCEPT ![i] = pair.left] /\ "first" \in Pair
        /\ history'.gap = [history.gap EXCEPT ![i] = @ \/ Half(brought)]
        /\ history'.mixed = [history.mixed EXCEPT ![i] = IF pair.shows THEN pair.mixed ELSE @]
    BY <1>2 DEF Polled, Pair
  <2> HIDE DEF ReadingsInv
  <2> QED BY <1>1, <2>1, PairKept
<1>7. CASE "soc" \in brought
  <2>1. cached' = [cached EXCEPT ![i] = f.value] /\ spikes' = [spikes EXCEPT ![i][o] = f.counter]
    BY <1>5, <1>7 DEF ReadsSoc
  <2>2. f.counter < Patience
    BY <1>4, ReadingsAssumption DEF f, Filtered
  <2> HIDE DEF f
  <2>3. cached' \in [All -> scenario.values \union {None}] /\ spikes' \in [All -> [Objects -> Nat]]
    BY <1>3, <1>4, <2>1
  <2>4. f.counter <= Run(i, o, brought) /\ Run(i, o, brought) <= Patience
    BY <1>3, <1>4, <1>7, <2>2, ReadingsAssumption DEF Run, AtMost, SpikeInv
  <2>5. SpikeInv'
    BY <1>1, <1>4, <1>5, <2>1, <2>4 DEF SpikeInv
  <2> QED BY <2>3, <2>5, <1>1, <1>5, <1>6, PollRest
<1>8. CASE "soc" \notin brought
  <2>1. UNCHANGED <<cached, spikes>> /\ Run(i, o, brought) = history.edgeRun[i][o]
    BY <1>5, <1>8 DEF Run
  <2>2. \A j \in All, q \in Objects : history'.edgeRun[j][q] = history.edgeRun[j][q]
    BY <1>4, <1>5, <2>1
  <2>3. SpikeInv'
    BY <1>1, <2>1, <2>2 DEF SpikeInv
  <2> QED BY <1>1, <1>4, <1>5, <1>6, <2>1, <2>3, PollRest
<1> QED BY <1>7, <1>8

\* A poll of the cloud touches neither a counter nor a run.
LEMMA CloudPollInv == ASSUME ReadingsInv, NEW i \in All, CloudPoll(i) PROVE ReadingsInv'
<1> USE DEF ReadingsInv
<1>1. UNCHANGED <<scenario, soc, clock, spikes, drift>> /\ All' = All
  BY DEF CloudPoll, All
<1>2. PICK brought \in SUBSET Pair, head \in Pair, value \in scenario.values \union {None} :
        LET pair == Assembled(received[i], brought, head)
        IN /\ cached' = IF value = None THEN cached ELSE [cached EXCEPT ![i] = value]
           /\ received' = [received EXCEPT ![i] = pair.left]
           /\ history' = [history EXCEPT !.gap[i] = @ \/ Half(brought),
                                         !.mixed[i] = IF pair.shows THEN pair.mixed ELSE @]
  BY DEF CloudPoll
<1> DEFINE pair == Assembled(received[i], brought \intersect Pair, head)
           gap == history.gap[i] \/ Half(brought)
           mix == IF pair.shows THEN pair.mixed ELSE history.mixed[i]
<1>3. brought \intersect Pair = brought
  BY <1>2
<1>4. /\ received' = [received EXCEPT ![i] = pair.left]
      /\ history' = [history EXCEPT !.gap[i] = gap, !.mixed[i] = mix]
  BY <1>2, <1>3
<1>5. gap \in BOOLEAN /\ mix \in BOOLEAN
  <2>1. received[i] \in SUBSET Pair /\ history.mixed[i] \in BOOLEAN
    BY DEF ReadingsTypeOK, Histories
  <2>2. pair.mixed \in BOOLEAN
    BY <1>2, <2>1, AssemblyFacts
  <2>3. mix \in BOOLEAN
    BY <2>1, <2>2
  <2> QED BY <2>3 DEF ReadingsTypeOK, Histories
<1> HIDE DEF gap, mix
<1>6. history.gap \in [All -> BOOLEAN] /\ history.mixed \in [All -> BOOLEAN]
  BY DEF ReadingsTypeOK, Histories
<1>7. history' = [edgeRun |-> history.edgeRun, wrongRun |-> history.wrongRun,
                  gap |-> [history.gap EXCEPT ![i] = gap],
                  mixed |-> [history.mixed EXCEPT ![i] = mix]]
  BY <1>4 DEF ReadingsTypeOK, Histories
<1>8. /\ [history.gap EXCEPT ![i] = gap] \in [All -> BOOLEAN]
      /\ [history.mixed EXCEPT ![i] = mix] \in [All -> BOOLEAN]
  BY <1>5, <1>6
<1>9. /\ history' \in Histories
      /\ history'.edgeRun = history.edgeRun /\ history'.wrongRun = history.wrongRun
      /\ history'.gap = [history.gap EXCEPT ![i] = gap]
      /\ history'.mixed = [history.mixed EXCEPT ![i] = mix]
  BY <1>7, <1>8 DEF ReadingsTypeOK, Histories
<1>10. cached' \in [All -> scenario.values \union {None}]
  BY <1>2 DEF ReadingsTypeOK
<1>11. received' \in [All -> SUBSET Pair] /\ PairInv' /\ MixedOnlyAfterGap'
  <2>1. /\ history'.gap = [history.gap EXCEPT ![i] = @ \/ Half(brought)]
        /\ history'.mixed = [history.mixed EXCEPT ![i] = IF pair.shows THEN pair.mixed ELSE @]
    BY <1>9 DEF gap, mix
  <2>2. pair = Assembled(received[i], brought \intersect Pair, head) /\ All' = All
    BY <1>1
  <2>3. received' = [received EXCEPT ![i] = pair.left]
    BY <1>4
  <2> HIDE DEF ReadingsInv, pair
  <2> QED BY <2>1, <2>2, <2>3, PairKept
<1>12. ReadingsTypeOK'
  <2>1. Histories' = Histories
    BY <1>1 DEF Histories
  <2> QED BY <1>1, <1>9, <1>10, <1>11, <2>1 DEF ReadingsTypeOK
<1>13. SpikeInv' /\ DriftInv'
  BY <1>1, <1>9 DEF SpikeInv, DriftInv
<1> QED BY <1>11, <1>12, <1>13

\* The counter of the object that is stopped goes with its run.
LEMMA LeavesModbusInv == ASSUME ReadingsInv, NEW i \in All, LeavesModbus(i) PROVE ReadingsInv'
<1> USE DEF ReadingsInv
<1>1. UNCHANGED <<scenario, linked, soc, clock, cached, received, drift>> /\ All' = All
  BY DEF LeavesModbus, All
<1> DEFINE count == [current |-> 0, stopped |-> spikes[i].current]
           run == [current |-> 0, stopped |-> history.edgeRun[i].current]
<1>2. spikes' = [spikes EXCEPT ![i] = count] /\ history' = [history EXCEPT !.edgeRun[i] = run]
  BY DEF LeavesModbus
<1>3. /\ spikes \in [All -> [Objects -> Nat]] /\ history.edgeRun \in [All -> [Objects -> Nat]]
      /\ "current" \in Objects
  BY DEF ReadingsTypeOK, Histories, Objects
<1>4. count \in [Objects -> Nat] /\ run \in [Objects -> Nat]
  BY <1>3 DEF Objects
<1>5. \A o \in Objects : count[o] <= run[o] /\ run[o] <= Patience
  BY <1>3, ReadingsAssumption DEF SpikeInv, Objects
<1> HIDE DEF count, run
<1>6. history' = [history EXCEPT !.edgeRun = [history.edgeRun EXCEPT ![i] = run]]
  BY <1>2 DEF ReadingsTypeOK, Histories
<1>7. [history.edgeRun EXCEPT ![i] = run] \in [All -> [Objects -> Nat]]
  BY <1>3, <1>4
<1>8. /\ history' \in Histories /\ history'.edgeRun = [history.edgeRun EXCEPT ![i] = run]
      /\ history'.wrongRun = history.wrongRun
      /\ history'.gap = history.gap /\ history'.mixed = history.mixed
  BY <1>6, <1>7 DEF ReadingsTypeOK, Histories
<1>9. Histories' = Histories
  BY <1>1 DEF Histories
<1>10. spikes' \in [All -> [Objects -> Nat]]
  BY <1>2, <1>3, <1>4
<1>11. ReadingsTypeOK'
  BY <1>1, <1>8, <1>9, <1>10 DEF ReadingsTypeOK
<1>12. SpikeInv'
  BY <1>1, <1>2, <1>3, <1>5, <1>8 DEF SpikeInv
<1>13. DriftInv' /\ PairInv' /\ MixedOnlyAfterGap'
  BY <1>1, <1>8 DEF DriftInv, PairInv, MixedOnlyAfterGap
<1> QED BY <1>11, <1>12, <1>13

\* The other steps change what the inverters report.
LEMMA ReportInv ==
  ASSUME ReadingsInv, NEW i \in All,
         SettingEnds(i) \/ SocChanges(i) \/ ClockDrifts(i) \/ ReturnsToModbus(i) \/ LinkLost(i) \/ LinkBack(i)
  PROVE  ReadingsInv'
<1> USE DEF ReadingsInv
<1>1. UNCHANGED <<scenario, spikes, cached, received, drift, history>> /\ All' = All
  BY DEF SettingEnds, SocChanges, ClockDrifts, ReturnsToModbus, LinkLost, LinkBack, All
<1>2. soc' \in [All -> scenario.values]
  BY DEF SettingEnds, SocChanges, ClockDrifts, ReturnsToModbus, LinkLost, LinkBack, ReadingsTypeOK
<1>3. clock' \in [All -> {"right", "wrong"}]
  BY DEF SettingEnds, SocChanges, ClockDrifts, ReturnsToModbus, LinkLost, LinkBack, ReadingsTypeOK
<1>4. Histories' = Histories
  BY <1>1 DEF Histories
<1>5. ReadingsTypeOK'
  BY <1>1, <1>2, <1>3, <1>4 DEF ReadingsTypeOK
<1>6. SpikeInv' /\ DriftInv' /\ PairInv' /\ MixedOnlyAfterGap'
  BY <1>1 DEF SpikeInv, DriftInv, PairInv, MixedOnlyAfterGap
<1> QED BY <1>5, <1>6

LEMMA StepInv == ReadingsInv /\ [Next]_vars => ReadingsInv'
<1>1. ASSUME ReadingsInv, UNCHANGED vars PROVE ReadingsInv'
  BY <1>1 DEF ReadingsInv, ReadingsTypeOK, SpikeInv, DriftInv, PairInv, MixedOnlyAfterGap,
              Histories, All, vars
<1> QED BY <1>1, PollInv, CloudPollInv, LeavesModbusInv, ReportInv DEF Next

LEMMA ReadingsInvariant == Spec => []ReadingsInv
  BY InitInv, StepInv, PTL DEF Spec

-----------------------------------------------------------------------------
(* The theorems.                                                           *)

\* A Modbus object lets an implausible value replace a plausible one after Patience of
\* them in a row, since its counter is never ahead of the run of its readings, whatever
\* the cloud or another object has put into the cache.
THEOREM SpikesFiltered == Spec => SpikesHeldBack
<1> DEFINE Held ==
      \A i \in All, o \in Objects :
        /\ Poll(i, o)
        /\ cached[i] \notin scenario.edges \union {None} /\ cached'[i] \in scenario.edges
        => history'.edgeRun[i][o] = Patience
<1>1. ASSUME ReadingsInv PROVE Held
  <2> SUFFICES ASSUME NEW i \in All, NEW o \in Objects, Poll(i, o),
                      cached[i] \notin scenario.edges \union {None}, cached'[i] \in scenario.edges
               PROVE  history'.edgeRun[i][o] = Patience
    OBVIOUS
  <2>1. PICK brought : Polled(i, o, brought)
    BY <1>1, PollFacts DEF ReadingsInv
  <2>2. "soc" \in brought /\ ReadsSoc(i, o)
    BY <2>1 DEF Polled
  <2>3. cached'[i] = Filtered(soc[i], spikes[i][o], cached[i]).value
    BY <1>1, <2>2 DEF ReadsSoc, ReadingsInv, ReadingsTypeOK
  <2>4. /\ spikes[i][o] \in Nat /\ history.edgeRun[i][o] \in Nat /\ soc[i] \in scenario.values
        /\ cached[i] \in scenario.values \union {None}
    BY <1>1 DEF ReadingsInv, ReadingsTypeOK, Histories
  <2>5. soc[i] \in scenario.edges /\ spikes[i][o] + 1 >= Patience
    BY <2>3, <2>4, FilterFacts
  <2>6. spikes[i][o] <= history.edgeRun[i][o]
    BY <1>1 DEF ReadingsInv, SpikeInv
  <2>7. Run(i, o, brought) = Patience
    BY <2>2, <2>4, <2>5, <2>6, ReadingsAssumption DEF Run, AtMost
  <2> QED BY <1>1, <2>1, <2>7 DEF Polled, ReadingsInv, ReadingsTypeOK, Histories
<1> HIDE DEF Held
<1>2. Spec => [][Held]_vars
  BY <1>1, ReadingsInvariant, PTL DEF Spec
<1> QED BY <1>2 DEF Held, SpikesHeldBack

\* The shared counter never exceeds the run of tests that found a drift.
THEOREM ClockSetAfterDrifts == Spec => SetAfterManyDrifts
<1> DEFINE Many == \A i \in setting' \ setting : history.wrongRun = DriftLimit + 1
<1>1. ASSUME ReadingsInv, [Next]_vars PROVE [Many]_vars
  <2> SUFFICES ASSUME Next, NEW i \in setting' \ setting PROVE history.wrongRun = DriftLimit + 1
    BY <1>1
  <2>1. PICK j \in All, o \in Objects : Poll(j, o)
    BY DEF Next, CloudPoll, SettingEnds, SocChanges, ClockDrifts, LeavesModbus, ReturnsToModbus,
           LinkLost, LinkBack
  <2>2. ClockTested(j)
    BY <1>1, <2>1, PollFacts DEF ReadingsInv, Polled
  <2>3. drift > DriftLimit
    BY <2>2 DEF ClockTested
  <2>4. drift \in Nat /\ history.wrongRun \in Nat
    BY <1>1 DEF ReadingsInv, ReadingsTypeOK, Histories
  <2> QED BY <1>1, <2>3, <2>4, ReadingsAssumption DEF ReadingsInv, DriftInv
<1> HIDE DEF Many
<1>2. Spec => [][Many]_vars
  BY <1>1, ReadingsInvariant, PTL DEF Spec
<1> QED BY <1>2 DEF Many, SetAfterManyDrifts

\* A derived value combines two polls only after one that brought half of the pair.
THEOREM MixedExplained == Spec => []MixedOnlyAfterGap
  BY ReadingsInvariant, PTL DEF ReadingsInv

=============================================================================
