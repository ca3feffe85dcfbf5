--------------------------- MODULE RegisterRecovery ---------------------------
(***************************************************************************)
(* DataRetrieval's poll cycles and what they do about a block of registers *)
(* the inverter rejects: bisect it with probes for one bad register,       *)
(* disable the sensors on that register, replace the sensor group by the   *)
(* contiguous rest in the lists of both controllers and read the new       *)
(* groups, which may be rejected in turn.                                  *)
(*                                                                         *)
(* A step is one request on the wire and the code up to the next one.  The *)
(* cycles of a polling object take turns under its poll_lock; a stopped    *)
(* object that still finishes a cycle and its successor do not.  The order *)
(* of a list of groups is left out: any of them may be read next.          *)
(***************************************************************************)
EXTENDS Naturals, FiniteSets

CONSTANTS
  Scenarios,   (* sensor groups at setup, the registers the inverter rejects, the
                  cycles that run and how many faults there may be            *)
  Cycles,      (* poll cycles that may be under way                               *)
  PollerOf,    (* the polling object of a cycle                                   *)
  MaxDepth,    (* _MAX_REGISTER_RECOVERY_DEPTH: 24                                *)
  Setup,       (* the creator of the groups that are there from the start         *)
  NoGroup

(* A sensor is its run of registers.  A group is also who made it: the groups
   that two cycles make of the same sensors are different objects. *)
Sensor == [lo : Nat, n : Nat \ {0}]
Speeds == {"fast", "normal", "slow"}
Regs(s) == s.lo .. s.lo + s.n - 1

Sensors(gs) == UNION {g.sensors : g \in gs}
Registers(sensors) == UNION {Regs(s) : s \in sensors}
Registrars(sensors) == UNION {{s} \X Regs(s) : s \in sensors}
Lowest(S) == CHOOSE x \in S : \A y \in S : x <= y
Start(g) == Lowest({s.lo : s \in g.sensors})

\* The block that is read for a group: as many registers as its sensors have
\* together, whether they overlap or leave gaps, from the lowest on.
Count(g) == Cardinality(Registrars(g.sensors))
Block(g) == Start(g) .. Start(g) + Count(g) - 1

SensorGroup ==
  {g \in [by : Cycles \union {Setup}, speed : Speeds \union {"once"}, sensors : SUBSET Sensor] :
     g.sensors # {} /\ IsFiniteSet(g.sensors)}

\* A register belongs to one sensor of the group, and there is no gap.
Contiguous(g) ==
  /\ \A s, t \in g.sensors : s # t => Regs(s) \intersect Regs(t) = {}
  /\ Registers(g.sensors) = Block(g)

\* The groups of the tables are contiguous and have no sensor in common.
ASSUME RecoveryAssumption ==
  /\ \A sc \in Scenarios :
       /\ sc.cycles \subseteq Cycles /\ sc.faults \in Nat
       /\ sc.groups \subseteq SensorGroup
       /\ \A g \in sc.groups : g.by = Setup /\ Contiguous(g)
       /\ \A g, h \in sc.groups : g # h => g.sensors \intersect h.sensors = {}
  /\ Setup \notin Cycles
  /\ MaxDepth \in Nat

VARIABLES
  scenario,   (* never changes: which registers reject every read, and so on       *)
  groups,     (* _sensor_groups of the Modbus controller                          *)
  standby,    (* _sensor_groups of the cloud controller, the same objects          *)
  enabled,    (* enabled[s]: sensor s has not been disabled                       *)
  onceRead,   (* history: sensors of poll speed ONCE whose value has arrived      *)
  cycle,      (* cycle[c]: where a poll cycle stands                              *)
  faults      (* lost packets and spurious rejections so far                      *)

vars == <<scenario, groups, standby, enabled, onceRead, cycle, faults>>

\* ONCE groups are polled along with the NORMAL ones.
PolledAt(g, speed) == g.speed = speed \/ (g.speed = "once" /\ speed = "normal")

IdleCycle == [pc |-> "idle", speed |-> "normal", hash |-> {}, queue |-> {}, todo |-> {},
              marked |-> {}, group |-> NoGroup, depth |-> 0, lo |-> 0, n |-> 0]

Probing == {"left", "right", "single"}
Running(c) == cycle[c].pc \notin {"idle", "waiting"}

\* Groups are contiguous and exactly fill the block that is read for them, and
\* what is being bisected is part of the block of the group in recovery.
RecoveryTypeOK ==
  /\ \A g \in groups \union standby : g.sensors # {} /\ Registers(g.sensors) = Block(g)
  /\ \A c \in Cycles :
       /\ cycle[c].pc \in {"idle", "waiting", "read"} \union Probing
       /\ cycle[c].pc \in Probing =>
            /\ cycle[c].n \in Nat \ {0} /\ cycle[c].depth \in 0..MaxDepth
            /\ cycle[c].lo .. cycle[c].lo + cycle[c].n - 1 \subseteq Block(cycle[c].group)
  /\ faults \in 0..scenario.faults

Init ==
  /\ \E sc \in Scenarios :
       /\ groups = sc.groups /\ standby = sc.groups
       /\ scenario = [rejected |-> sc.rejected, cycles |-> sc.cycles, faults |-> sc.faults]
       /\ enabled = [s \in Sensors(sc.groups) |-> TRUE]
  /\ onceRead = {}
  /\ cycle = [c \in Cycles |-> IdleCycle]
  /\ faults = 0

-----------------------------------------------------------------------------
(* Answers of the inverter, and faults on the way.                         *)

Accepts(registers) == registers \cap scenario.rejected = {}
Fault == faults < scenario.faults /\ faults' = faults + 1

Succeeds(registers) == Accepts(registers) /\ UNCHANGED faults
Fails(registers) == (~Accepts(registers) /\ UNCHANGED faults) \/ (Accepts(registers) /\ Fault)

-----------------------------------------------------------------------------
(* Recovery.                                                               *)

\* Mutant of Clusters: a cluster goes on across a gap.
ClustersAcrossGaps(sensors) == IF sensors = {} THEN {} ELSE {sensors}

\* The parts of a set of sensors that cover contiguous registers.
Clusters(sensors) ==
  LET Joined(s, t) ==
        LET lo == Lowest({s.lo, t.lo})
            hi == IF s.lo + s.n > t.lo + t.n THEN s.lo + s.n ELSE t.lo + t.n
        IN lo .. hi - 1 \subseteq Registers(sensors)
  IN {{t \in sensors : Joined(s, t)} : s \in sensors}

\* Mutant of Replaced: the new groups are also added when the old one is gone.
ReplacedAnyway(list, g, new) == (list \ {g}) \union new

\* A group that is not in the list any more is not replaced.
Replaced(list, g, new) == IF g \in list THEN (list \ {g}) \union new ELSE list

\* The next block; after the last one the ONCE groups that were read are dropped.
Proceed(c, st, list) ==
  IF st.queue = {} /\ st.todo = {}
  THEN /\ cycle' = [cycle EXCEPT ![c] = IdleCycle]
       /\ groups' = list \ st.marked
  ELSE /\ cycle' = [cycle EXCEPT ![c] =
                      [st EXCEPT !.pc = "read", !.group = NoGroup, !.depth = 0, !.lo = 0, !.n = 0]]
       /\ groups' = list

\* Mutant of Adapt: only the list of the polling protocol follows.
AdaptActiveOnly(c, st, bad) ==
  LET hit == {s \in st.group.sensors : bad \in Regs(s)}
      new == {[by |-> c, speed |-> st.group.speed, sensors |-> k] :
                k \in Clusters({s \in st.group.sensors \ hit : enabled[s]})}
  IN /\ enabled' = [s \in DOMAIN enabled |-> enabled[s] /\ s \notin hit]
     /\ UNCHANGED standby
     /\ Proceed(c, [st EXCEPT !.todo = @ \union {[group |-> g, depth |-> st.depth + 1] : g \in new}],
                Replaced(groups, st.group, new))

\* Mutant of Adapt: the sensors on the bad register are disabled but still read.
AdaptKeepsReading(c, st, bad) ==
  LET hit == {s \in st.group.sensors : bad \in Regs(s)}
      new == {[by |-> c, speed |-> st.group.speed, sensors |-> k] :
                k \in Clusters(st.group.sensors)}
  IN /\ enabled' = [s \in DOMAIN enabled |-> enabled[s] /\ s \notin hit]
     /\ standby' = Replaced(standby, st.group, new)
     /\ Proceed(c, [st EXCEPT !.todo = @ \union {[group |-> g, depth |-> st.depth + 1] : g \in new}],
                Replaced(groups, st.group, new))

\* The sensors on the bad register are disabled and the group gives way to its
\* contiguous rest, in the lists of both controllers.
Adapt(c, st, bad) ==
  LET hit == {s \in st.group.sensors : bad \in Regs(s)}
      new == {[by |-> c, speed |-> st.group.speed, sensors |-> k] :
                k \in Clusters({s \in st.group.sensors \ hit : enabled[s]})}
  IN /\ enabled' = [s \in DOMAIN enabled |-> enabled[s] /\ s \notin hit]
     /\ standby' = Replaced(standby, st.group, new)
     /\ Proceed(c, [st EXCEPT !.todo = @ \union {[group |-> g, depth |-> st.depth + 1] : g \in new}],
                Replaced(groups, st.group, new))

\* Bisection: a single register is the bad one.
Narrow(c, st, lo, n) ==
  IF n = 1 THEN Adapt(c, st, lo)
  ELSE /\ cycle' = [cycle EXCEPT ![c] = [st EXCEPT !.pc = "left", !.lo = lo, !.n = n]]
       /\ UNCHANGED <<groups, standby, enabled>>

LeftHalf(st) == st.lo .. st.lo + (st.n \div 2) - 1
RightHalf(st) == st.lo + (st.n \div 2) .. st.lo + st.n - 1

ProbeLeft(c) ==
  LET st == cycle[c] IN
  /\ st.pc = "left"
  /\ \/ Fails(LeftHalf(st)) /\ Narrow(c, st, st.lo, st.n \div 2)
     \/ /\ Succeeds(LeftHalf(st))
        /\ cycle' = [cycle EXCEPT ![c].pc = "right"]
        /\ UNCHANGED <<groups, standby, enabled>>
  /\ UNCHANGED <<scenario, onceRead>>

\* Mutant of ProbeRight: the right half is narrowed from one register too early.
ProbeRightTooEarly(c) ==
  LET st == cycle[c] IN
  /\ st.pc = "right"
  /\ \/ Fails(RightHalf(st)) /\ Narrow(c, st, st.lo + (st.n \div 2) - 1, st.n - (st.n \div 2))
     \/ /\ Succeeds(RightHalf(st))
        /\ cycle' = [cycle EXCEPT ![c].pc = "single"]
        /\ UNCHANGED <<groups, standby, enabled>>
  /\ UNCHANGED <<scenario, onceRead>>

\* When both halves are fine by now, every register is probed.
ProbeRight(c) ==
  LET st == cycle[c] IN
  /\ st.pc = "right"
  /\ \/ Fails(RightHalf(st)) /\ Narrow(c, st, st.lo + (st.n \div 2), st.n - (st.n \div 2))
     \/ /\ Succeeds(RightHalf(st))
        /\ cycle' = [cycle EXCEPT ![c].pc = "single"]
        /\ UNCHANGED <<groups, standby, enabled>>
  /\ UNCHANGED <<scenario, onceRead>>

\* No bad register: the group stays as it is, and is unread this time.
ProbeSingle(c) ==
  LET st == cycle[c] IN
  /\ st.pc = "single"
  /\ \/ Fails({st.lo}) /\ Adapt(c, st, st.lo)
     \/ /\ Succeeds({st.lo}) /\ st.n > 1
        /\ cycle' = [cycle EXCEPT ![c].lo = @ + 1, ![c].n = @ - 1]
        /\ UNCHANGED <<groups, standby, enabled>>
     \/ /\ Succeeds({st.lo}) /\ st.n = 1
        /\ Proceed(c, st, groups)
        /\ UNCHANGED <<standby, enabled>>
  /\ UNCHANGED <<scenario, onceRead>>

-----------------------------------------------------------------------------
(* Poll cycles.                                                            *)

\* A timer fires.  The cycle is skipped while one of the polling object works
\* on groups of the same start registers; it keeps the groups it found here.
StartCycle(c, speed) ==
  LET polled == {g \in groups : PolledAt(g, speed)}
      hash == {Start(g) : g \in polled}
  IN /\ c \in scenario.cycles /\ cycle[c].pc = "idle"
     /\ \A d \in Cycles : PollerOf[d] = PollerOf[c] /\ cycle[d].pc # "idle" =>
          cycle[d].speed # speed \/ cycle[d].hash # hash
     /\ cycle' = [cycle EXCEPT ![c] = [IdleCycle EXCEPT !.pc = "waiting", !.speed = speed,
                                                        !.hash = hash, !.queue = polled]]
     /\ UNCHANGED <<scenario, groups, standby, enabled, onceRead, faults>>

TakeLock(c) ==
  /\ cycle[c].pc = "waiting"
  /\ \A d \in Cycles : PollerOf[d] = PollerOf[c] => ~Running(d)
  /\ Proceed(c, cycle[c], groups)
  /\ UNCHANGED <<scenario, standby, enabled, onceRead, faults>>

\* Blocks of a recovery come first.
NextBlocks(c) ==
  IF cycle[c].todo # {} THEN cycle[c].todo
  ELSE {[group |-> g, depth |-> 0] : g \in cycle[c].queue}

Without(st, block) == [st EXCEPT !.queue = @ \ {block.group}, !.todo = @ \ {block}]

ReadArrives(c) ==
  /\ cycle[c].pc = "read"
  /\ \E block \in NextBlocks(c) :
       LET st == Without(cycle[c], block)
           once == {g \in {block.group} : g.speed = "once"}
       IN /\ Succeeds(Block(block.group))
          /\ onceRead' = onceRead \union Sensors(once)
          /\ Proceed(c, [st EXCEPT !.marked = @ \union once], groups)
  /\ UNCHANGED <<scenario, standby, enabled>>

\* An illegal address or value: the group is recovered, but not too deep.
ReadRejected(c) ==
  /\ cycle[c].pc = "read"
  /\ \E block \in NextBlocks(c) :
       LET st == Without(cycle[c], block)
           g == block.group
       IN /\ Fails(Block(g))
          /\ \/ /\ block.depth <= MaxDepth
                /\ Narrow(c, [st EXCEPT !.group = g, !.depth = block.depth], Start(g), Count(g))
             \/ /\ block.depth > MaxDepth
                /\ Proceed(c, st, groups)
                /\ UNCHANGED <<standby, enabled>>
  /\ UNCHANGED <<scenario, onceRead>>

\* No answer, or one of the wrong length: the group is skipped this time.
ReadLost(c) ==
  /\ cycle[c].pc = "read"
  /\ Fault
  /\ \E block \in NextBlocks(c) : Proceed(c, Without(cycle[c], block), groups)
  /\ UNCHANGED <<scenario, standby, enabled, onceRead>>

Probe(c) == ProbeLeft(c) \/ ProbeRight(c) \/ ProbeSingle(c)
Read(c) == ReadArrives(c) \/ ReadRejected(c) \/ ReadLost(c)

Next == \E c \in Cycles :
  \/ \E speed \in Speeds : StartCycle(c, speed)
  \/ TakeLock(c) \/ Read(c) \/ Probe(c)

Spec == Init /\ [][Next]_vars

(***************************************************************************)
(* Timers fire again and again, the lock is first come first served and    *)
(* every request ends (OperationsEnd of ModbusLink).                       *)
(***************************************************************************)
Fairness ==
  /\ \A speed \in Speeds : SF_vars(\E c \in Cycles : StartCycle(c, speed))
  /\ \A c \in Cycles : SF_vars(TakeLock(c)) /\ WF_vars(Read(c) \/ Probe(c))

FairSpec == Spec /\ Fairness

-----------------------------------------------------------------------------
(* Properties.                                                             *)

\* Whatever is disabled, split, replaced or dropped, and by how many polling
\* objects at a time: a sensor that is still enabled is read with exactly one
\* group, or was to be read once and has been.
EnabledCovered ==
  \A s \in {x \in DOMAIN enabled : enabled[x]} :
    LET with == {g \in groups : s \in g.sensors}
    IN Cardinality(with) = 1 \/ (with = {} /\ s \in onceRead)

\* Without faults on the wire a sensor is disabled only if the inverter rejects
\* one of its registers: bisection never blames a neighbour.
NoFalseAlarm ==
  faults = 0 => \A s \in DOMAIN enabled : enabled[s] \/ ~Accepts(Regs(s))

\* The list of the standby protocol is edited along, so that a switch does not
\* bring back a block that is known to be rejected.
StandbyFollows ==
  /\ groups \subseteq standby
  /\ \A g \in standby \ groups : g.speed = "once"

\* In the end no rejected block is left: everything that is polled is readable,
\* however many registers are bad and whatever was lost in between.
Settles == <>[](\A g \in groups : Accepts(Block(g)))
=============================================================================
