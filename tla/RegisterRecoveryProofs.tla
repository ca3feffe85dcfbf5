------------------------ MODULE RegisterRecoveryProofs ------------------------
(***************************************************************************)
(* Proofs about RegisterRecovery, for all tables, rejected registers and   *)
(* faults, and any number of cycles and polling objects.                   *)
(*                                                                         *)
(* Every step of a cycle either moves only that cycle on (Quietly), ends   *)
(* the work on one block (Proceeds) or disables and replaces (Adapts); the *)
(* invariants are shown for these three.                                   *)
(***************************************************************************)
EXTENDS RegisterRecovery, FiniteSetTheorems, WellFoundedInduction, TLAPS

Whole == {g \in SensorGroup : Contiguous(g)}

CycleRec ==
  [pc : {"idle", "waiting", "read"} \union Probing, speed : Speeds, hash : SUBSET Nat,
   queue : SUBSET Whole, todo : SUBSET [group : Whole, depth : Nat], marked : SUBSET Whole,
   group : Whole \union {NoGroup}, depth : Nat, lo : Nat, n : Nat]

\* What is bisected is in the block of its group, and a half is never empty.
ProbeOK(st) ==
  st.pc \in Probing =>
    /\ st.group \in Whole /\ st.depth <= MaxDepth
    /\ st.n >= 1 /\ (st.pc # "single" => st.n >= 2)
    /\ st.lo .. st.lo + st.n - 1 \subseteq Block(st.group)

Cyclic == {st \in CycleRec : ProbeOK(st)}

TypesInv ==
  /\ scenario.faults \in Nat /\ faults \in 0..scenario.faults
  /\ groups \subseteq Whole /\ standby \subseteq Whole
  /\ enabled \in [DOMAIN enabled -> BOOLEAN]
  /\ cycle \in [Cycles -> Cyclic]

\* Only ONCE groups whose values have arrived are to be dropped.
MarkedInv ==
  \A c \in Cycles : \A g \in cycle[c].marked : g.speed = "once" /\ g.sensors \subseteq onceRead

Disjoint(gs) == \A g, h \in gs : g # h => g.sensors \intersect h.sensors = {}

Covered == \A s \in DOMAIN enabled : enabled[s] => s \in Sensors(groups) \union onceRead

RecoveryInv ==
  /\ TypesInv
  /\ MarkedInv
  /\ StandbyFollows
  /\ NoFalseAlarm
  /\ Disjoint(groups)
  /\ Covered

-----------------------------------------------------------------------------
(* The three kinds of steps.                                               *)

Quietly(c) ==
  \E st \in Cyclic :
    /\ st.marked \subseteq cycle[c].marked
    /\ cycle' = [cycle EXCEPT ![c] = st]
    /\ UNCHANGED <<groups, standby, enabled, onceRead>>

Proceeds(c) ==
  \E st \in CycleRec :
    /\ \A g \in st.marked : \/ g \in cycle[c].marked
                            \/ g.speed = "once" /\ g.sensors \subseteq onceRead'
    /\ Proceed(c, st, groups)
    /\ onceRead \subseteq onceRead'
    /\ UNCHANGED <<standby, enabled>>

Adapts(c) ==
  \E st \in CycleRec, bad \in Nat :
    /\ st.group \in Whole /\ st.marked \subseteq cycle[c].marked
    /\ Fails({bad}) /\ Adapt(c, st, bad)
    /\ UNCHANGED onceRead

-----------------------------------------------------------------------------
(* Groups and their blocks.                                                *)

\* Some element of a set of naturals is the lowest.
LEMMA LowestIs ==
  ASSUME NEW S \in SUBSET Nat, S # {}
  PROVE  Lowest(S) \in S /\ \A y \in S : Lowest(S) <= y
<1>1. \E n \in S : \A m \in S : ~(<<m, n>> \in OpToRel(<, Nat))
  BY NatLessThanWellFounded, WFMin
<1>2. OpToRel(<, Nat) = {ss \in Nat \X Nat : ss[1] < ss[2]}
  BY DEF OpToRel
<1>3. \E n \in S : \A m \in S : n <= m
  <2>1. \A n, m \in Nat : ~(<<m, n>> \in {ss \in Nat \X Nat : ss[1] < ss[2]}) => n <= m
    OBVIOUS
  <2> QED BY <1>1, <1>2, <2>1
<1> QED BY <1>3 DEF Lowest

LEMMA RegsFacts ==
  ASSUME NEW s \in Sensor
  PROVE  /\ s.lo \in Nat /\ s.n \in Nat /\ s.n >= 1
         /\ Regs(s) \in SUBSET Nat /\ s.lo \in Regs(s) /\ IsFiniteSet(Regs(s))
         /\ \A x \in Nat : x \in Regs(s) <=> s.lo <= x /\ x < s.lo + s.n
<1>1. s.lo \in Nat /\ s.n \in Nat /\ s.n >= 1
  BY DEF Sensor
<1>2. s.lo + s.n - 1 \in Int /\ s.lo \in Int
  BY <1>1
<1>3. IsFiniteSet(Regs(s))
  BY <1>2, FS_Interval DEF Regs
<1>4. \A x \in Nat : x \in Regs(s) <=> s.lo <= x /\ x < s.lo + s.n
  BY <1>1 DEF Regs
<1>5. Regs(s) \in SUBSET Nat
  BY <1>1 DEF Regs
<1> QED BY <1>1, <1>3, <1>4, <1>5

\* The registers of finitely many sensors, and the pairs of a sensor and one
\* of its registers, are finite sets.
LEMMA FinitelyMany ==
  ASSUME NEW S \in SUBSET Sensor, S # {}, IsFiniteSet(S)
  PROVE  /\ Registers(S) \in SUBSET Nat /\ IsFiniteSet(Registers(S))
         /\ Registers(S) # {} /\ IsFiniteSet(Registrars(S))
         /\ Cardinality(Registrars(S)) \in Nat /\ Cardinality(Registrars(S)) >= 1
         /\ Lowest({s.lo : s \in S}) \in Registers(S)
         /\ \A x \in Registers(S) : Lowest({s.lo : s \in S}) <= x
<1> DEFINE runs == {Regs(s) : s \in S}
           f == [s \in S |-> Regs(s)]
           los == {s.lo : s \in S}
<1>1. IsFiniteSet(runs)
  <2>1. f \in Surjection(S, runs)
    BY DEF Surjection
  <2> QED BY <2>1, FS_Surjection
<1>2. IsFiniteSet(UNION runs)
  BY <1>1, FS_UNION, RegsFacts
<1>3. Registers(S) = UNION runs
  BY DEF Registers
<1>4. Registers(S) \in SUBSET Nat /\ Registers(S) # {}
  BY <1>3, RegsFacts
<1>5. Registrars(S) \subseteq S \X Registers(S) /\ Registrars(S) # {}
  <2>1. \A s \in S : {s} \X Regs(s) \subseteq S \X Registers(S) /\ <<s, s.lo>> \in {s} \X Regs(s)
    BY RegsFacts DEF Registers
  <2>2. Registrars(S) \subseteq S \X Registers(S)
    BY <2>1, Zenon DEF Registrars
  <2>3. \A s \in S : <<s, s.lo>> \in Registrars(S)
    BY <2>1 DEF Registrars
  <2> QED BY <2>2, <2>3
<1>6. IsFiniteSet(Registrars(S))
  BY <1>2, <1>3, <1>5, FS_Product, FS_Subset
<1>7. Cardinality(Registrars(S)) \in Nat /\ Cardinality(Registrars(S)) >= 1
  <2>1. Cardinality(Registrars(S)) \in Nat /\ Cardinality(Registrars(S)) # 0
    BY <1>5, <1>6, FS_CardinalityType, FS_EmptySet
  <2> QED BY <2>1
<1>8. Lowest(los) \in los /\ \A y \in los : Lowest(los) <= y
  <2>1. los \in SUBSET Nat /\ los # {}
    BY RegsFacts
  <2> QED BY <2>1, LowestIs
<1>9. Lowest(los) \in Registers(S)
  <2>1. PICK s \in S : Lowest(los) = s.lo
    BY <1>8
  <2> QED BY <2>1, RegsFacts DEF Registers
<1>10. ASSUME NEW x \in Registers(S) PROVE Lowest(los) <= x
  <2>1. PICK s \in S : x \in Regs(s)
    BY DEF Registers
  <2>2. s.lo <= x /\ s.lo \in Nat /\ x \in Nat
    BY <2>1, RegsFacts
  <2>3. Lowest(los) <= s.lo /\ Lowest(los) \in Nat
    BY <1>8, RegsFacts
  <2> QED BY <2>2, <2>3
<1>11. \A x \in Registers(S) : Lowest(los) <= x
  BY <1>10
<1>12. IsFiniteSet(Registers(S))
  BY <1>2, <1>3
<1> QED BY <1>4, <1>6, <1>7, <1>9, <1>11, <1>12

\* Sensors without a common register and without a gap fill the block that is
\* read for them.
LEMMA NoGapFills ==
  ASSUME NEW S \in SUBSET Sensor, S # {}, IsFiniteSet(S),
         \A s, t \in S : s # t => Regs(s) \intersect Regs(t) = {},
         \A x, y \in Registers(S) : \A z \in Nat : x <= z /\ z <= y => z \in Registers(S),
         NEW first \in Nat, first = Lowest({s.lo : s \in S}),
         NEW many \in Nat, many = Cardinality(Registrars(S))
  PROVE  Registers(S) = first .. first + many - 1
<1> DEFINE R == Registers(S)
           f == [p \in Registrars(S) |-> p[2]]
<1>1. /\ R \in SUBSET Nat /\ IsFiniteSet(R) /\ IsFiniteSet(Registrars(S)) /\ many >= 1
      /\ first \in R /\ \A x \in R : first <= x
  BY FinitelyMany
<1>2. \A p \in Registrars(S) : p[1] \in S /\ p[2] \in Regs(p[1]) /\ p = <<p[1], p[2]>>
  BY DEF Registrars
<1>3. Cardinality(R) = many
  <2>1. f \in [Registrars(S) -> R]
    BY <1>2 DEF Registers
  <2>2. \A x \in R : \E p \in Registrars(S) : f[p] = x
    <3> TAKE x \in R
    <3>1. PICK s \in S : x \in Regs(s)
      BY DEF Registers
    <3>2. <<s, x>> \in Registrars(S) /\ <<s, x>>[2] = x
      BY <3>1 DEF Registrars
    <3> QED BY <3>2
  <2>3. \A p, q \in Registrars(S) : f[p] = f[q] => p = q
    BY <1>2
  <2>4. f \in Surjection(Registrars(S), R) /\ f \in Injection(Registrars(S), R)
    BY <2>1, <2>2, <2>3 DEF Surjection, Injection, IsInjective
  <2> QED BY <1>1, <2>4, FS_Surjection
<1> HIDE DEF R
<1>4. first + many \notin R
  <2> SUFFICES ASSUME first + many \in R PROVE FALSE
    OBVIOUS
  <2>1. first .. first + many \in SUBSET R
    BY <1>1 DEF R
  <2>2. Cardinality(first .. first + many) = many + 1
    BY FS_Interval
  <2>3. Cardinality(first .. first + many) <= Cardinality(R)
    BY <1>1, <2>1, FS_Subset
  <2> QED BY <1>3, <2>2, <2>3
<1>5. R \in SUBSET (first .. first + many - 1)
  <2>1. \A x \in R : x \in Nat /\ first <= x /\ ~(first + many <= x)
    BY <1>1, <1>4 DEF R
  <2>2. \A x \in R : x \in first .. first + many - 1
    BY <2>1
  <2> QED BY <2>2
<1>6. IsFiniteSet(first .. first + many - 1) /\ Cardinality(first .. first + many - 1) = many
  <2>1. first \in Int /\ first + many - 1 \in Int /\ first <= first + many - 1
    BY <1>1
  <2>2. Cardinality(first .. first + many - 1) = (first + many - 1) - first + 1
    BY <2>1, FS_Interval
  <2> QED BY <2>1, <2>2, FS_Interval
<1>7. R = first .. first + many - 1
  BY <1>3, <1>5, <1>6, FS_Subset
<1> QED BY <1>7 DEF R

\* Sensors s and t with nothing missing between them.
Joined(S, s, t) ==
  \A x \in Nat : /\ s.lo <= x \/ t.lo <= x
                 /\ x < s.lo + s.n \/ x < t.lo + t.n
                 => x \in Registers(S)

\* What Clusters joins is just that.
LEMMA ClustersJoined ==
  ASSUME NEW S \in SUBSET Sensor
  PROVE  Clusters(S) = {{t \in S : Joined(S, s, t)} : s \in S}
<1> DEFINE hi(s, t) == IF s.lo + s.n > t.lo + t.n THEN s.lo + s.n ELSE t.lo + t.n
           join(s, t) == Lowest({s.lo, t.lo}) .. hi(s, t) - 1 \subseteq Registers(S)
<1>1. ASSUME NEW s \in S, NEW t \in S PROVE join(s, t) <=> Joined(S, s, t)
  <2> DEFINE lo == Lowest({s.lo, t.lo})
  <2>1. s.lo \in Nat /\ s.n \in Nat /\ t.lo \in Nat /\ t.n \in Nat
    BY RegsFacts
  <2>2. lo \in {s.lo, t.lo} /\ lo <= s.lo /\ lo <= t.lo
    <3>1. {s.lo, t.lo} \in SUBSET Nat /\ {s.lo, t.lo} # {}
      BY <2>1
    <3> HIDE DEF lo
    <3> QED BY <3>1, LowestIs DEF lo
  <2> HIDE DEF lo
  <2>3. lo \in Nat /\ \A x \in Nat : lo <= x <=> s.lo <= x \/ t.lo <= x
    BY <2>1, <2>2
  <2>4. \A x \in Nat : x <= hi(s, t) - 1 <=> x < s.lo + s.n \/ x < t.lo + t.n
    BY <2>1
  <2>5. hi(s, t) \in Nat
    BY <2>1
  <2> HIDE DEF hi
  <2>6. \A x : x \in lo .. hi(s, t) - 1 <=> x \in Nat /\ lo <= x /\ x <= hi(s, t) - 1
    BY <2>3, <2>5
  <2> QED BY <2>3, <2>4, <2>6 DEF Joined, lo
<1>2. Clusters(S) = {{t \in S : join(s, t)} : s \in S}
  BY DEF Clusters
<1> HIDE DEF join
<1> QED BY <1>1, <1>2

\* Being joined is an equivalence.
LEMMA JoinedEquivalence ==
  ASSUME NEW S \in SUBSET Sensor
  PROVE  /\ \A s \in S : Joined(S, s, s)
         /\ \A s, t \in S : Joined(S, s, t) => Joined(S, t, s)
         /\ \A s, t, u \in S : Joined(S, s, t) /\ Joined(S, t, u) => Joined(S, s, u)
<1>1. ASSUME NEW s \in S PROVE Joined(S, s, s)
  BY RegsFacts DEF Joined, Registers
<1>2. ASSUME NEW s \in S, NEW t \in S, Joined(S, s, t) PROVE Joined(S, t, s)
  BY <1>2 DEF Joined
<1>3. ASSUME NEW s \in S, NEW t \in S, NEW u \in S, Joined(S, s, t), Joined(S, t, u)
      PROVE  Joined(S, s, u)
  <2>1. /\ s.lo \in Nat /\ s.n \in Nat /\ t.lo \in Nat /\ t.n \in Nat /\ t.n >= 1
        /\ u.lo \in Nat /\ u.n \in Nat
    BY RegsFacts
  <2> QED BY <1>3, <2>1 DEF Joined
<1> QED BY <1>1, <1>2, <1>3

\* A cluster is a group without gaps when the sensors share no register.
LEMMA ClusterFacts ==
  ASSUME NEW S \in SUBSET Sensor, IsFiniteSet(S), NEW k \in Clusters(S)
  PROVE  /\ k \in SUBSET S /\ k # {} /\ IsFiniteSet(k)
         /\ \A x, y \in Registers(k) : \A z \in Nat : x <= z /\ z <= y => z \in Registers(k)
<1>1. PICK s \in S : k = {t \in S : Joined(S, s, t)}
  BY ClustersJoined
<1>2. k \in SUBSET S /\ k # {} /\ IsFiniteSet(k)
  BY <1>1, JoinedEquivalence, FS_Subset
<1>3. ASSUME NEW t \in k, NEW u \in k, NEW x \in Regs(t), NEW y \in Regs(u),
             NEW z \in Nat, x <= z, z <= y
      PROVE  z \in Registers(k)
  <2>1. /\ s.lo \in Nat /\ s.n \in Nat /\ s.n >= 1
        /\ t.lo \in Nat /\ t.n \in Nat /\ t.n >= 1
        /\ u.lo \in Nat /\ u.n \in Nat /\ u.n >= 1
        /\ x \in Nat /\ t.lo <= x /\ y \in Nat /\ y < u.lo + u.n
    BY <1>2, RegsFacts
  <2>2. Joined(S, s, t) /\ Joined(S, s, u)
    BY <1>1
  <2>3. \/ (s.lo <= z \/ t.lo <= z) /\ (z < s.lo + s.n \/ z < t.lo + t.n)
        \/ (s.lo <= z \/ u.lo <= z) /\ (z < s.lo + s.n \/ z < u.lo + u.n)
    BY <1>3, <2>1
  <2>4. z \in Registers(S)
    BY <2>2, <2>3 DEF Joined
  <2>5. PICK v \in S : z \in Regs(v)
    BY <2>4 DEF Registers
  <2>6. v.lo \in Nat /\ v.n \in Nat /\ v.lo <= z /\ z < v.lo + v.n
    BY <2>5, RegsFacts
  <2>7. \A w \in Nat : v.lo <= w /\ w < v.lo + v.n => w \in Registers(S)
    BY RegsFacts DEF Registers
  <2>8. Joined(S, s, v)
    BY <2>1, <2>2, <2>3, <2>6, <2>7 DEF Joined
  <2> QED BY <1>1, <2>5, <2>8 DEF Registers
<1>4. \A x, y \in Registers(k) : \A z \in Nat : x <= z /\ z <= y => z \in Registers(k)
  <2> SUFFICES ASSUME NEW x \in Registers(k), NEW y \in Registers(k), NEW z \in Nat, x <= z, z <= y
               PROVE  z \in Registers(k)
    OBVIOUS
  <2>1. PICK t \in k, u \in k : x \in Regs(t) /\ y \in Regs(u)
    BY DEF Registers
  <2> QED BY <1>3, <2>1
<1> QED BY <1>2, <1>4

\* The clusters of a set of sensors are a partition of it.
LEMMA ClustersPartition ==
  ASSUME NEW S \in SUBSET Sensor
  PROVE  /\ UNION Clusters(S) = S
         /\ \A k, m \in Clusters(S) : k # m => k \intersect m = {}
<1>1. Clusters(S) = {{t \in S : Joined(S, s, t)} : s \in S}
  BY ClustersJoined
<1>2. ASSUME NEW s \in S, NEW t \in S, NEW u \in S, Joined(S, s, u), Joined(S, t, u)
      PROVE  {v \in S : Joined(S, s, v)} = {v \in S : Joined(S, t, v)}
  <2>1. Joined(S, s, t) /\ Joined(S, t, s)
    BY <1>2, JoinedEquivalence
  <2> QED BY <2>1, JoinedEquivalence
<1>3. ASSUME NEW k \in Clusters(S), NEW m \in Clusters(S), NEW u, u \in k, u \in m
      PROVE  k = m
  <2>1. PICK s \in S : k = {v \in S : Joined(S, s, v)}
    BY <1>1
  <2>2. PICK t \in S : m = {v \in S : Joined(S, t, v)}
    BY <1>1
  <2>3. u \in S /\ Joined(S, s, u) /\ Joined(S, t, u)
    BY <1>3, <2>1, <2>2
  <2> QED BY <1>2, <2>1, <2>2, <2>3
<1>4. \A s \in S : s \in {t \in S : Joined(S, s, t)}
  BY JoinedEquivalence
<1>5. UNION Clusters(S) = S
  BY <1>1, <1>4
<1> QED BY <1>3, <1>5

LEMMA WholeFacts ==
  ASSUME NEW g \in Whole
  PROVE  /\ g.sensors \in SUBSET Sensor /\ g.sensors # {} /\ IsFiniteSet(g.sensors)
         /\ g.speed \in Speeds \union {"once"}
         /\ Start(g) \in Nat /\ Count(g) \in Nat /\ Count(g) >= 1
         /\ Block(g) = Start(g) .. Start(g) + Count(g) - 1
         /\ Registers(g.sensors) = Block(g)
<1>1. g.sensors \in SUBSET Sensor /\ g.sensors # {} /\ IsFiniteSet(g.sensors)
  BY DEF Whole, SensorGroup
<1>2. Start(g) \in Nat /\ Count(g) \in Nat /\ Count(g) >= 1
  BY <1>1, FinitelyMany DEF Start, Count
<1> QED BY <1>1, <1>2 DEF Whole, SensorGroup, Contiguous, Block

\* The groups that replace another are again without gaps.
LEMMA NewGroupWhole ==
  ASSUME NEW g \in Whole, NEW S \in SUBSET g.sensors, NEW k \in Clusters(S), NEW c \in Cycles
  PROVE  [by |-> c, speed |-> g.speed, sensors |-> k] \in Whole
<1> DEFINE new == [by |-> c, speed |-> g.speed, sensors |-> k]
<1>1. g.sensors \in SUBSET Sensor /\ IsFiniteSet(g.sensors) /\ g.speed \in Speeds \union {"once"}
  BY WholeFacts
<1>2. IsFiniteSet(S)
  BY <1>1, FS_Subset
<1>3. /\ k \in SUBSET S /\ k # {} /\ IsFiniteSet(k)
      /\ \A x, y \in Registers(k) : \A z \in Nat : x <= z /\ z <= y => z \in Registers(k)
  BY <1>1, <1>2, ClusterFacts
<1>4. new \in SensorGroup
  BY <1>1, <1>3 DEF SensorGroup
<1>5. \A s, t \in k : s # t => Regs(s) \intersect Regs(t) = {}
  BY <1>3 DEF Whole, Contiguous
<1>6. k \in SUBSET Sensor
  BY <1>1, <1>3
<1>7. Start(new) \in Nat /\ Count(new) \in Nat
  BY <1>3, <1>6, FinitelyMany DEF Start, Count
<1>8. Registers(k) = Start(new) .. Start(new) + Count(new) - 1
  <2>1. Start(new) = Lowest({s.lo : s \in k}) /\ Count(new) = Cardinality(Registrars(k))
    BY DEF Start, Count
  <2> HIDE DEF new
  <2> QED BY <1>3, <1>5, <1>6, <1>7, <2>1, NoGapFills
<1>9. Contiguous(new)
  BY <1>5, <1>8 DEF Contiguous, Block
<1> QED BY <1>4, <1>9 DEF Whole

-----------------------------------------------------------------------------
(* What the steps are made of.                                             *)

\* The end of the work on a block.
LEMMA ProceedFacts ==
  ASSUME cycle \in [Cycles -> Cyclic], NEW c \in Cycles, NEW st \in CycleRec, NEW list,
         Proceed(c, st, list)
  PROVE  /\ cycle' \in [Cycles -> Cyclic]
         /\ \A d \in Cycles : d # c => cycle'[d] = cycle[d]
         /\ cycle'[c].marked \subseteq st.marked
         /\ groups' \subseteq list /\ list \ groups' \subseteq st.marked
<1> DEFINE next == [st EXCEPT !.pc = "read", !.group = NoGroup, !.depth = 0, !.lo = 0, !.n = 0]
<1>1. IdleCycle \in Cyclic /\ IdleCycle.marked = {}
  BY DEF IdleCycle, Cyclic, CycleRec, ProbeOK, Probing, Speeds
<1>2. next \in Cyclic /\ next.marked = st.marked
  <2>1. next \in CycleRec /\ next.pc = "read" /\ next.marked = st.marked
    BY DEF CycleRec
  <2> QED BY <2>1 DEF Cyclic, ProbeOK, Probing
<1>3. \/ cycle' = [cycle EXCEPT ![c] = IdleCycle] /\ groups' = list \ st.marked
      \/ cycle' = [cycle EXCEPT ![c] = next] /\ groups' = list
  BY DEF Proceed
<1> HIDE DEF next
<1>4. CASE cycle' = [cycle EXCEPT ![c] = IdleCycle] /\ groups' = list \ st.marked
  BY <1>1, <1>4
<1>5. CASE cycle' = [cycle EXCEPT ![c] = next] /\ groups' = list
  BY <1>2, <1>5
<1> QED BY <1>3, <1>4, <1>5

Hit(st, bad) == {s \in st.group.sensors : bad \in Regs(s)}
Rest(st, bad) == {s \in st.group.sensors \ Hit(st, bad) : enabled[s]}
NewGroups(c, st, bad) ==
  {[by |-> c, speed |-> st.group.speed, sensors |-> k] : k \in Clusters(Rest(st, bad))}

\* Disabling and replacing; the new groups have the speed of the old one.
LEMMA AdaptFacts ==
  ASSUME TypesInv, NEW c \in Cycles, NEW st \in CycleRec, st.group \in Whole,
         NEW bad, Adapt(c, st, bad)
  PROVE  /\ NewGroups(c, st, bad) \subseteq Whole
         /\ \A g \in NewGroups(c, st, bad) : g.speed = st.group.speed
         /\ enabled' = [s \in DOMAIN enabled |-> enabled[s] /\ s \notin Hit(st, bad)]
         /\ standby' = Replaced(standby, st.group, NewGroups(c, st, bad))
         /\ \E after \in CycleRec :
              /\ after.marked = st.marked
              /\ Proceed(c, after, Replaced(groups, st.group, NewGroups(c, st, bad)))
<1> DEFINE new == NewGroups(c, st, bad)
           blocks == {[group |-> g, depth |-> st.depth + 1] : g \in new}
           after == [st EXCEPT !.todo = @ \union blocks]
<1>1. Rest(st, bad) \in SUBSET st.group.sensors
  BY DEF Rest
<1>2. new \subseteq Whole
  BY <1>1, NewGroupWhole DEF NewGroups
<1>3. \A g \in new : g.speed = st.group.speed
  BY DEF NewGroups
<1>4. /\ enabled' = [s \in DOMAIN enabled |-> enabled[s] /\ s \notin Hit(st, bad)]
      /\ standby' = Replaced(standby, st.group, new)
      /\ Proceed(c, after, Replaced(groups, st.group, new))
  BY DEF Adapt, NewGroups, Rest, Hit
<1>5. blocks \subseteq [group : Whole, depth : Nat]
  <2>1. st.depth + 1 \in Nat
    BY DEF CycleRec
  <2> HIDE DEF new
  <2> QED BY <1>2, <2>1
<1> HIDE DEF blocks
<1>6. after \in CycleRec /\ after.marked = st.marked
  BY <1>5 DEF CycleRec
<1> HIDE DEF after, new
<1> QED BY <1>2, <1>3, <1>4, <1>6 DEF new

\* Bisection goes on, or has found its register.
LEMMA NarrowKinds ==
  ASSUME TypesInv, NEW c \in Cycles, NEW st \in CycleRec,
         st.group \in Whole, st.depth <= MaxDepth, st.marked \subseteq cycle[c].marked,
         NEW lo \in Nat, NEW n \in Nat, n >= 1, lo .. lo + n - 1 \subseteq Block(st.group),
         Fails(lo .. lo + n - 1), Narrow(c, st, lo, n), UNCHANGED onceRead
  PROVE  Quietly(c) \/ Adapts(c)
<1>1. CASE n = 1
  <2>1. lo .. lo + n - 1 = {lo}
    BY <1>1
  <2> QED BY <1>1, <2>1 DEF Narrow, Adapts
<1>2. CASE n # 1
  <2> DEFINE next == [st EXCEPT !.pc = "left", !.lo = lo, !.n = n]
  <2>1. /\ next \in CycleRec /\ next.marked = st.marked /\ next.group = st.group
        /\ next.depth = st.depth /\ next.lo = lo /\ next.n = n /\ next.pc = "left"
    BY DEF CycleRec, Probing
  <2>2. cycle' = [cycle EXCEPT ![c] = next] /\ UNCHANGED <<groups, standby, enabled>>
    BY <1>2 DEF Narrow
  <2> HIDE DEF next
  <2>3. next \in Cyclic
    BY <1>2, <2>1 DEF Cyclic, ProbeOK
  <2> QED BY <2>1, <2>2, <2>3 DEF Quietly
<1> QED BY <1>1, <1>2

\* What a cycle holds while it probes.
LEMMA ProbingFacts ==
  ASSUME TypesInv, NEW c \in Cycles
  PROVE  /\ cycle[c] \in CycleRec /\ cycle[c] \in Cyclic
         /\ cycle[c].lo \in Nat /\ cycle[c].n \in Nat /\ cycle[c].depth \in Nat
         /\ cycle[c].pc \in Probing =>
              /\ cycle[c].group \in Whole /\ cycle[c].depth <= MaxDepth
              /\ cycle[c].n >= 1 /\ (cycle[c].pc # "single" => cycle[c].n >= 2)
              /\ cycle[c].lo .. cycle[c].lo + cycle[c].n - 1 \subseteq Block(cycle[c].group)
  BY DEF TypesInv, Cyclic, CycleRec, ProbeOK

LEMMA ProbeLeftKind ==
  ASSUME TypesInv, NEW c \in Cycles, ProbeLeft(c)
  PROVE  Quietly(c) \/ Adapts(c)
<1> DEFINE st == cycle[c]
<1>1. /\ st \in CycleRec /\ st.pc = "left" /\ st.lo \in Nat /\ st.n \in Nat /\ st.n >= 2
      /\ st.group \in Whole /\ st.depth <= MaxDepth
      /\ st.lo .. st.lo + st.n - 1 \subseteq Block(st.group)
      /\ UNCHANGED onceRead
  BY ProbingFacts DEF ProbeLeft, Probing
<1>2. CASE Fails(LeftHalf(st)) /\ Narrow(c, st, st.lo, st.n \div 2)
  <2>1. st.n \div 2 \in Nat /\ st.n \div 2 >= 1 /\ st.n \div 2 <= st.n
    BY <1>1
  <2>2. LeftHalf(st) = st.lo .. st.lo + (st.n \div 2) - 1
    BY DEF LeftHalf
  <2>3. st.lo .. st.lo + (st.n \div 2) - 1 \subseteq Block(st.group)
    BY <1>1, <2>1
  <2> HIDE DEF st
  <2>4. st.marked \subseteq cycle[c].marked
    BY DEF st
  <2> QED BY <1>1, <1>2, <2>1, <2>2, <2>3, <2>4, NarrowKinds
<1>3. CASE cycle' = [cycle EXCEPT ![c].pc = "right"] /\ UNCHANGED <<groups, standby, enabled>>
  <2> DEFINE next == [st EXCEPT !.pc = "right"]
  <2>1. /\ next \in CycleRec /\ next.marked = st.marked /\ next.group = st.group
        /\ next.depth = st.depth /\ next.lo = st.lo /\ next.n = st.n /\ next.pc = "right"
    BY <1>1 DEF CycleRec, Probing
  <2>2. cycle' = [cycle EXCEPT ![c] = next]
    BY <1>3
  <2> HIDE DEF next
  <2>3. next \in Cyclic
    BY <1>1, <2>1 DEF Cyclic, ProbeOK
  <2> QED BY <1>1, <1>3, <2>1, <2>2, <2>3 DEF Quietly
<1> QED BY <1>2, <1>3 DEF ProbeLeft

LEMMA ProbeRightKind ==
  ASSUME TypesInv, NEW c \in Cycles, ProbeRight(c)
  PROVE  Quietly(c) \/ Adapts(c)
<1> DEFINE st == cycle[c]
           lo == st.lo + (st.n \div 2)
           n == st.n - (st.n \div 2)
<1>1. /\ st \in CycleRec /\ st.pc = "right" /\ st.lo \in Nat /\ st.n \in Nat /\ st.n >= 2
      /\ st.group \in Whole /\ st.depth <= MaxDepth
      /\ st.lo .. st.lo + st.n - 1 \subseteq Block(st.group)
      /\ UNCHANGED onceRead
  BY ProbingFacts DEF ProbeRight, Probing
<1>2. CASE Fails(RightHalf(st)) /\ Narrow(c, st, st.lo + (st.n \div 2), st.n - (st.n \div 2))
  <2>1. /\ lo \in Nat /\ st.lo <= lo /\ n \in Nat /\ n >= 1
        /\ lo + n - 1 = st.lo + st.n - 1
    BY <1>1
  <2>2. RightHalf(st) = lo .. lo + n - 1
    BY <2>1 DEF RightHalf
  <2>3. Fails(lo .. lo + n - 1) /\ Narrow(c, st, lo, n) /\ st.marked \subseteq cycle[c].marked
    BY <1>2, <2>2
  <2> HIDE DEF st, lo, n
  <2>4. lo .. lo + n - 1 \subseteq Block(st.group)
    BY <1>1, <2>1
  <2> QED BY <1>1, <2>1, <2>3, <2>4, NarrowKinds
<1>3. CASE cycle' = [cycle EXCEPT ![c].pc = "single"] /\ UNCHANGED <<groups, standby, enabled>>
  <2> DEFINE next == [st EXCEPT !.pc = "single"]
  <2>1. /\ next \in CycleRec /\ next.marked = st.marked /\ next.group = st.group
        /\ next.depth = st.depth /\ next.lo = st.lo /\ next.n = st.n /\ next.pc = "single"
    BY <1>1 DEF CycleRec, Probing
  <2>2. cycle' = [cycle EXCEPT ![c] = next]
    BY <1>3
  <2> HIDE DEF next
  <2>3. next \in Cyclic
    BY <1>1, <2>1 DEF Cyclic, ProbeOK
  <2> QED BY <1>1, <1>3, <2>1, <2>2, <2>3 DEF Quietly
<1> QED BY <1>2, <1>3 DEF ProbeRight

LEMMA ProbeSingleKind ==
  ASSUME TypesInv, NEW c \in Cycles, ProbeSingle(c)
  PROVE  Quietly(c) \/ Proceeds(c) \/ Adapts(c)
<1> DEFINE st == cycle[c]
<1>1. /\ st \in CycleRec /\ st.pc = "single" /\ st.lo \in Nat /\ st.n \in Nat
      /\ st.group \in Whole /\ st.depth <= MaxDepth
      /\ st.lo .. st.lo + st.n - 1 \subseteq Block(st.group)
      /\ UNCHANGED onceRead
  BY ProbingFacts DEF ProbeSingle, Probing
<1>2. CASE Fails({st.lo}) /\ Adapt(c, st, st.lo)
  BY <1>1, <1>2 DEF Adapts
<1>3. CASE /\ st.n > 1 /\ cycle' = [cycle EXCEPT ![c].lo = @ + 1, ![c].n = @ - 1]
           /\ UNCHANGED <<groups, standby, enabled>>
  <2> DEFINE next == [st EXCEPT !.lo = st.lo + 1, !.n = st.n - 1]
  <2>1. /\ next \in CycleRec /\ next.marked = st.marked /\ next.group = st.group
        /\ next.depth = st.depth /\ next.lo = st.lo + 1 /\ next.n = st.n - 1 /\ next.pc = "single"
    <3>1. st.lo + 1 \in Nat /\ st.n - 1 \in Nat
      BY <1>1, <1>3
    <3> HIDE DEF st
    <3> QED BY <1>1, <3>1 DEF CycleRec
  <2>2. cycle' = [cycle EXCEPT ![c] = next]
    BY <1>1, <1>3 DEF TypesInv, Cyclic, CycleRec
  <2> HIDE DEF next
  <2>3. next \in Cyclic
    BY <1>1, <1>3, <2>1 DEF Cyclic, ProbeOK
  <2> QED BY <1>1, <1>3, <2>1, <2>2, <2>3 DEF Quietly
<1>4. CASE Proceed(c, st, groups) /\ UNCHANGED <<standby, enabled>>
  BY <1>1, <1>4 DEF Proceeds
<1> QED BY <1>2, <1>3, <1>4 DEF ProbeSingle

LEMMA StartCycleKind ==
  ASSUME TypesInv, NEW c \in Cycles, NEW speed \in Speeds, StartCycle(c, speed)
  PROVE  Quietly(c)
<1> DEFINE polled == {g \in groups : PolledAt(g, speed)}
           hash == {Start(g) : g \in polled}
           next == [IdleCycle EXCEPT !.pc = "waiting", !.speed = speed,
                                     !.hash = hash, !.queue = polled]
<1>1. polled \in SUBSET Whole /\ hash \in SUBSET Nat
  BY WholeFacts DEF TypesInv
<1>2. cycle' = [cycle EXCEPT ![c] = next] /\ UNCHANGED <<groups, standby, enabled, onceRead>>
  BY DEF StartCycle
<1> HIDE DEF polled, hash
<1>3. next \in CycleRec /\ next.pc = "waiting" /\ next.marked = {}
  BY <1>1 DEF CycleRec, IdleCycle
<1> HIDE DEF next
<1>4. next \in Cyclic
  BY <1>3 DEF Cyclic, ProbeOK, Probing
<1> QED BY <1>2, <1>3, <1>4 DEF Quietly

LEMMA TakeLockKind ==
  ASSUME TypesInv, NEW c \in Cycles, TakeLock(c)
  PROVE  Proceeds(c)
<1>1. cycle[c] \in CycleRec
  BY ProbingFacts
<1> QED BY <1>1 DEF TakeLock, Proceeds

\* Taking the next block off the lists of a cycle.
LEMMA WithoutFacts ==
  ASSUME TypesInv, NEW c \in Cycles, NEW block \in NextBlocks(c)
  PROVE  /\ block.group \in Whole /\ block.depth \in Nat
         /\ Without(cycle[c], block) \in CycleRec
         /\ Without(cycle[c], block).marked = cycle[c].marked
<1>1. cycle[c] \in CycleRec
  BY ProbingFacts
<1>2. block.group \in Whole /\ block.depth \in Nat
  BY <1>1 DEF NextBlocks, CycleRec
<1> QED BY <1>1, <1>2 DEF Without, CycleRec

LEMMA ReadArrivesKind ==
  ASSUME TypesInv, NEW c \in Cycles, ReadArrives(c)
  PROVE  Proceeds(c)
<1>1. PICK block \in NextBlocks(c) :
        /\ onceRead' = onceRead \union Sensors({g \in {block.group} : g.speed = "once"})
        /\ Proceed(c, [Without(cycle[c], block) EXCEPT
                         !.marked = @ \union {g \in {block.group} : g.speed = "once"}], groups)
        /\ UNCHANGED <<standby, enabled>>
  BY DEF ReadArrives
<1> DEFINE st == Without(cycle[c], block)
           once == {g \in {block.group} : g.speed = "once"}
           next == [st EXCEPT !.marked = @ \union once]
<1>2. block.group \in Whole /\ st \in CycleRec /\ st.marked = cycle[c].marked
  BY WithoutFacts
<1>3. Proceed(c, next, groups) /\ onceRead' = onceRead \union Sensors(once)
  BY <1>1
<1>4. \A g \in once : g.speed = "once" /\ g.sensors \subseteq onceRead' /\ g \in Whole
  BY <1>2, <1>3 DEF Sensors
<1> HIDE DEF once, st
<1>5. next \in CycleRec /\ next.marked = st.marked \union once
  BY <1>2, <1>4 DEF CycleRec
<1> HIDE DEF next
<1> QED BY <1>1, <1>2, <1>3, <1>4, <1>5 DEF Proceeds

LEMMA ReadRejectedKind ==
  ASSUME TypesInv, NEW c \in Cycles, ReadRejected(c)
  PROVE  Quietly(c) \/ Proceeds(c) \/ Adapts(c)
<1>1. PICK block \in NextBlocks(c) :
        LET st == Without(cycle[c], block)
            g == block.group
        IN /\ Fails(Block(g))
           /\ \/ /\ block.depth <= MaxDepth
                 /\ Narrow(c, [st EXCEPT !.group = g, !.depth = block.depth], Start(g), Count(g))
              \/ /\ block.depth > MaxDepth
                 /\ Proceed(c, st, groups)
                 /\ UNCHANGED <<standby, enabled>>
  BY DEF ReadRejected
<1> DEFINE st == Without(cycle[c], block)
           g == block.group
           next == [st EXCEPT !.group = g, !.depth = block.depth]
<1>2. g \in Whole /\ block.depth \in Nat /\ st \in CycleRec /\ st.marked = cycle[c].marked
  BY WithoutFacts
<1>3. UNCHANGED onceRead
  BY DEF ReadRejected
<1>4. CASE block.depth <= MaxDepth /\ Fails(Block(g)) /\ Narrow(c, next, Start(g), Count(g))
  <2>1. /\ next \in CycleRec /\ next.group = g /\ next.depth = block.depth
        /\ next.marked = cycle[c].marked
    <3> HIDE DEF st, g
    <3> QED BY <1>2 DEF CycleRec
  <2>2. /\ Start(g) \in Nat /\ Count(g) \in Nat /\ Count(g) >= 1
        /\ Block(g) = Start(g) .. Start(g) + Count(g) - 1
    BY <1>2, WholeFacts
  <2> HIDE DEF next, g
  <2>3. Fails(Start(g) .. Start(g) + Count(g) - 1)
    BY <1>4, <2>2
  <2> QED BY <1>2, <1>3, <1>4, <2>1, <2>2, <2>3, NarrowKinds
<1>5. CASE Proceed(c, st, groups) /\ UNCHANGED <<standby, enabled>>
  BY <1>2, <1>3, <1>5 DEF Proceeds
<1> QED BY <1>1, <1>4, <1>5

LEMMA ReadLostKind ==
  ASSUME TypesInv, NEW c \in Cycles, ReadLost(c)
  PROVE  Proceeds(c)
<1>1. PICK block \in NextBlocks(c) : Proceed(c, Without(cycle[c], block), groups)
  BY DEF ReadLost
<1>2. Without(cycle[c], block) \in CycleRec /\ Without(cycle[c], block).marked = cycle[c].marked
  BY WithoutFacts
<1>3. UNCHANGED <<standby, enabled, onceRead>>
  BY DEF ReadLost
<1> QED BY <1>1, <1>2, <1>3 DEF Proceeds

\* Every step is of one of the three kinds, and faults are only ever added.
LEMMA StepKinds ==
  ASSUME TypesInv, Next
  PROVE  /\ UNCHANGED scenario /\ faults' \in 0..scenario.faults /\ faults <= faults'
         /\ \E c \in Cycles : Quietly(c) \/ Proceeds(c) \/ Adapts(c)
<1>1. faults \in Nat /\ scenario.faults \in Nat /\ faults <= scenario.faults
  BY DEF TypesInv
<1>2. PICK c \in Cycles :
        \/ \E speed \in Speeds : StartCycle(c, speed)
        \/ TakeLock(c) \/ Read(c) \/ Probe(c)
  BY DEF Next
<1>3. Quietly(c) \/ Proceeds(c) \/ Adapts(c)
  BY <1>2, StartCycleKind, TakeLockKind, ReadArrivesKind, ReadRejectedKind, ReadLostKind,
     ProbeLeftKind, ProbeRightKind, ProbeSingleKind DEF Read, Probe
<1>4. \A r : Succeeds(r) \/ Fails(r) => faults' \in 0..scenario.faults /\ faults <= faults'
  BY <1>1 DEF Succeeds, Fails, Fault
<1>5. UNCHANGED scenario /\ faults' \in 0..scenario.faults /\ faults <= faults'
  <2>1. ASSUME NEW speed \in Speeds, StartCycle(c, speed)
        PROVE  UNCHANGED scenario /\ faults' \in 0..scenario.faults /\ faults <= faults'
    BY <1>1, <2>1 DEF StartCycle
  <2>2. CASE TakeLock(c)
    BY <1>1, <2>2 DEF TakeLock
  <2>3. CASE ReadArrives(c)
    BY <1>4, <2>3 DEF ReadArrives
  <2>4. CASE ReadRejected(c)
    BY <1>4, <2>4 DEF ReadRejected
  <2>5. CASE ReadLost(c)
    BY <1>1, <2>5 DEF ReadLost, Fault
  <2>6. CASE ProbeLeft(c)
    BY <1>4, <2>6 DEF ProbeLeft
  <2>7. CASE ProbeRight(c)
    BY <1>4, <2>7 DEF ProbeRight
  <2>8. CASE ProbeSingle(c)
    BY <1>4, <2>8 DEF ProbeSingle
  <2> QED BY <1>2, <2>1, <2>2, <2>3, <2>4, <2>5, <2>6, <2>7, <2>8 DEF Read, Probe
<1> QED BY <1>3, <1>5

-----------------------------------------------------------------------------
(* The invariant is inductive.                                             *)

LEMMA Initial == Init => RecoveryInv
<1> SUFFICES ASSUME Init PROVE RecoveryInv
  OBVIOUS
<1>1. PICK sc \in Scenarios :
        /\ groups = sc.groups /\ standby = sc.groups
        /\ scenario = [rejected |-> sc.rejected, cycles |-> sc.cycles, faults |-> sc.faults]
        /\ enabled = [s \in Sensors(sc.groups) |-> TRUE]
  BY DEF Init
<1>2. IdleCycle \in Cyclic /\ IdleCycle.marked = {}
  BY DEF IdleCycle, Cyclic, CycleRec, ProbeOK, Probing, Speeds
<1>3. cycle = [c \in Cycles |-> IdleCycle] /\ faults = 0
  BY DEF Init
<1>4. sc.groups \subseteq Whole /\ Disjoint(sc.groups) /\ sc.faults \in Nat
  BY RecoveryAssumption DEF Whole, Disjoint
<1>5. TypesInv
  BY <1>1, <1>2, <1>3, <1>4 DEF TypesInv
<1>6. MarkedInv
  BY <1>2, <1>3 DEF MarkedInv
<1>7. NoFalseAlarm /\ Covered /\ StandbyFollows
  BY <1>1 DEF NoFalseAlarm, Covered, StandbyFollows
<1> QED BY <1>1, <1>4, <1>5, <1>6, <1>7 DEF RecoveryInv

LEMMA ReplacedTyped ==
  ASSUME NEW list \in SUBSET Whole, NEW g, NEW new \in SUBSET Whole
  PROVE  Replaced(list, g, new) \in SUBSET Whole
  BY DEF Replaced

LEMMA TypesKept ==
  ASSUME TypesInv, Next
  PROVE  TypesInv'
<1>1. UNCHANGED scenario /\ faults' \in 0..scenario.faults
  BY StepKinds
<1>2. PICK c \in Cycles : Quietly(c) \/ Proceeds(c) \/ Adapts(c)
  BY StepKinds
<1>3. /\ scenario.faults \in Nat /\ groups \in SUBSET Whole /\ standby \in SUBSET Whole
      /\ enabled \in [DOMAIN enabled -> BOOLEAN] /\ cycle \in [Cycles -> Cyclic]
  BY DEF TypesInv
<1>4. CASE Quietly(c)
  BY <1>1, <1>3, <1>4 DEF Quietly, TypesInv
<1>5. CASE Proceeds(c)
  <2>1. PICK st \in CycleRec : Proceed(c, st, groups) /\ UNCHANGED <<standby, enabled>>
    BY <1>5 DEF Proceeds
  <2>2. cycle' \in [Cycles -> Cyclic] /\ groups' \subseteq groups
    BY <1>3, <2>1, ProceedFacts
  <2> QED BY <1>1, <1>3, <2>1, <2>2 DEF TypesInv
<1>6. CASE Adapts(c)
  <2>1. PICK st \in CycleRec, bad \in Nat : st.group \in Whole /\ Adapt(c, st, bad)
    BY <1>6 DEF Adapts
  <2> DEFINE new == NewGroups(c, st, bad)
  <2>2. /\ new \subseteq Whole
        /\ enabled' = [s \in DOMAIN enabled |-> enabled[s] /\ s \notin Hit(st, bad)]
        /\ standby' = Replaced(standby, st.group, new)
        /\ \E after \in CycleRec : Proceed(c, after, Replaced(groups, st.group, new))
    BY <2>1, AdaptFacts
  <2> HIDE DEF new
  <2>3. cycle' \in [Cycles -> Cyclic] /\ groups' \subseteq Replaced(groups, st.group, new)
    BY <1>3, <2>2, ProceedFacts
  <2>4. groups' \subseteq Whole /\ standby' \subseteq Whole
    BY <1>3, <2>2, <2>3, ReplacedTyped
  <2>5. enabled' \in [DOMAIN enabled' -> BOOLEAN]
    BY <1>3, <2>2
  <2> QED BY <1>1, <1>3, <2>3, <2>4, <2>5 DEF TypesInv
<1> QED BY <1>2, <1>4, <1>5, <1>6

LEMMA MarkedKept ==
  ASSUME TypesInv, MarkedInv, Next
  PROVE  MarkedInv'
<1>1. PICK c \in Cycles : Quietly(c) \/ Proceeds(c) \/ Adapts(c)
  BY StepKinds
<1>2. cycle \in [Cycles -> Cyclic]
  BY DEF TypesInv
<1>3. CASE Quietly(c)
  BY <1>2, <1>3 DEF Quietly, MarkedInv
<1>4. CASE Proceeds(c)
  <2>1. PICK st \in CycleRec :
          /\ \A g \in st.marked : \/ g \in cycle[c].marked
                                  \/ g.speed = "once" /\ g.sensors \subseteq onceRead'
          /\ Proceed(c, st, groups) /\ onceRead \subseteq onceRead'
    BY <1>4 DEF Proceeds
  <2>2. /\ \A d \in Cycles : d # c => cycle'[d] = cycle[d]
        /\ cycle'[c].marked \subseteq st.marked
    BY <1>2, <2>1, ProceedFacts
  <2> QED BY <2>1, <2>2 DEF MarkedInv
<1>5. CASE Adapts(c)
  <2>1. PICK st \in CycleRec, bad \in Nat :
          /\ st.group \in Whole /\ Adapt(c, st, bad) /\ st.marked \subseteq cycle[c].marked
          /\ UNCHANGED onceRead
    BY <1>5 DEF Adapts
  <2>2. PICK after \in CycleRec :
          /\ after.marked = st.marked
          /\ Proceed(c, after, Replaced(groups, st.group, NewGroups(c, st, bad)))
    BY <2>1, AdaptFacts
  <2>3. /\ \A d \in Cycles : d # c => cycle'[d] = cycle[d]
        /\ cycle'[c].marked \subseteq after.marked
    BY <1>2, <2>2, ProceedFacts
  <2> QED BY <2>1, <2>2, <2>3 DEF MarkedInv
<1> QED BY <1>1, <1>3, <1>4, <1>5

LEMMA StandbyKept ==
  ASSUME TypesInv, MarkedInv, StandbyFollows, Next
  PROVE  StandbyFollows'
<1>1. PICK c \in Cycles : Quietly(c) \/ Proceeds(c) \/ Adapts(c)
  BY StepKinds
<1>2. cycle \in [Cycles -> Cyclic]
  BY DEF TypesInv
<1>3. CASE Quietly(c)
  BY <1>3 DEF Quietly, StandbyFollows
<1>4. CASE Proceeds(c)
  <2>1. PICK st \in CycleRec :
          /\ \A g \in st.marked : g \in cycle[c].marked \/ g.speed = "once"
          /\ Proceed(c, st, groups) /\ UNCHANGED standby
    BY <1>4 DEF Proceeds
  <2>2. groups' \subseteq groups /\ groups \ groups' \subseteq st.marked
    BY <1>2, <2>1, ProceedFacts
  <2> QED BY <2>1, <2>2 DEF MarkedInv, StandbyFollows
<1>5. CASE Adapts(c)
  <2>1. PICK st \in CycleRec, bad \in Nat :
          st.group \in Whole /\ Adapt(c, st, bad) /\ st.marked \subseteq cycle[c].marked
    BY <1>5 DEF Adapts
  <2> DEFINE new == NewGroups(c, st, bad)
  <2>2. /\ \A g \in new : g.speed = st.group.speed
        /\ standby' = Replaced(standby, st.group, new)
    BY <2>1, AdaptFacts
  <2>3. PICK after \in CycleRec :
          after.marked = st.marked /\ Proceed(c, after, Replaced(groups, st.group, new))
    BY <2>1, AdaptFacts
  <2>4. /\ groups' \subseteq Replaced(groups, st.group, new)
        /\ Replaced(groups, st.group, new) \ groups' \subseteq after.marked
    BY <1>2, <2>3, ProceedFacts
  <2>5. \A g \in after.marked : g.speed = "once"
    BY <2>1, <2>3 DEF MarkedInv
  <2> HIDE DEF new
  <2>6. Replaced(groups, st.group, new) \subseteq standby'
    BY <2>2 DEF StandbyFollows, Replaced
  <2>7. \A g \in standby' \ Replaced(groups, st.group, new) : g.speed = "once"
    BY <2>2 DEF StandbyFollows, Replaced
  <2> QED BY <2>4, <2>5, <2>6, <2>7 DEF StandbyFollows
<1> QED BY <1>1, <1>3, <1>4, <1>5

LEMMA NoFalseAlarmKept ==
  ASSUME TypesInv, NoFalseAlarm, Next
  PROVE  NoFalseAlarm'
<1>1. UNCHANGED scenario /\ faults <= faults' /\ faults \in Nat /\ faults' \in Nat
  BY StepKinds DEF TypesInv
<1>2. PICK c \in Cycles : Quietly(c) \/ Proceeds(c) \/ Adapts(c)
  BY StepKinds
<1>3. CASE Quietly(c) \/ Proceeds(c)
  <2>1. UNCHANGED enabled
    BY <1>3 DEF Quietly, Proceeds
  <2> QED BY <1>1, <2>1 DEF NoFalseAlarm, Accepts
<1>4. CASE Adapts(c)
  <2>1. PICK st \in CycleRec, bad \in Nat :
          st.group \in Whole /\ Fails({bad}) /\ Adapt(c, st, bad)
    BY <1>4 DEF Adapts
  <2>2. enabled' = [s \in DOMAIN enabled |-> enabled[s] /\ s \notin Hit(st, bad)]
    BY <2>1, AdaptFacts
  <2> SUFFICES ASSUME faults' = 0, NEW s \in DOMAIN enabled', ~enabled'[s]
               PROVE  ~Accepts(Regs(s))'
    BY DEF NoFalseAlarm
  <2>3. faults = 0
    BY <1>1
  <2>4. ~Accepts({bad})
    BY <1>1, <2>1, <2>3 DEF Fails, Fault
  <2>5. CASE s \in Hit(st, bad)
    BY <1>1, <2>4, <2>5 DEF Hit, Accepts
  <2>6. CASE s \notin Hit(st, bad)
    BY <1>1, <2>2, <2>3, <2>6 DEF NoFalseAlarm, Accepts
  <2> QED BY <2>5, <2>6
<1> QED BY <1>2, <1>3, <1>4

\* A group that is replaced leaves no sensor in two groups.
LEMMA DisjointReplaced ==
  ASSUME TypesInv, Disjoint(groups), NEW c \in Cycles, NEW st \in CycleRec, st.group \in Whole,
         NEW bad
  PROVE  Disjoint(Replaced(groups, st.group, NewGroups(c, st, bad)))
<1> DEFINE new == NewGroups(c, st, bad)
<1>1. Rest(st, bad) \in SUBSET st.group.sensors /\ Rest(st, bad) \in SUBSET Sensor
  BY WholeFacts DEF Rest
<1>2. \A g, h \in new : g # h => g.sensors \intersect h.sensors = {}
  <2>1. ASSUME NEW j \in Clusters(Rest(st, bad)), NEW k \in Clusters(Rest(st, bad)), j # k
        PROVE  j \intersect k = {}
    BY <1>1, <2>1, ClustersPartition
  <2> QED BY <2>1 DEF NewGroups
<1>3. \A g \in new : g.sensors \subseteq st.group.sensors
  BY <1>1, ClustersPartition DEF NewGroups
<1> HIDE DEF new
<1>4. \A g, h \in Replaced(groups, st.group, new) : g # h => g.sensors \intersect h.sensors = {}
  <2> SUFFICES ASSUME NEW g \in Replaced(groups, st.group, new),
                      NEW h \in Replaced(groups, st.group, new), g # h
               PROVE  g.sensors \intersect h.sensors = {}
    OBVIOUS
  <2>1. CASE g \in groups /\ h \in groups
    BY <2>1 DEF Disjoint
  <2>2. CASE g \in new /\ h \in new
    BY <1>2, <2>2
  <2>3. CASE st.group \in groups /\ g \in groups \ {st.group} /\ h \in new
    BY <1>3, <2>3 DEF Disjoint
  <2>4. CASE st.group \in groups /\ h \in groups \ {st.group} /\ g \in new
    BY <1>3, <2>4 DEF Disjoint
  <2> QED BY <2>1, <2>2, <2>3, <2>4 DEF Replaced
<1> QED BY <1>4 DEF Disjoint, new

LEMMA DisjointKept ==
  ASSUME TypesInv, Disjoint(groups), Next
  PROVE  Disjoint(groups')
<1>1. PICK c \in Cycles : Quietly(c) \/ Proceeds(c) \/ Adapts(c)
  BY StepKinds
<1>2. cycle \in [Cycles -> Cyclic]
  BY DEF TypesInv
<1>3. CASE Quietly(c)
  BY <1>3 DEF Quietly
<1>4. CASE Proceeds(c)
  <2>1. PICK st \in CycleRec : Proceed(c, st, groups)
    BY <1>4 DEF Proceeds
  <2>2. groups' \subseteq groups
    BY <1>2, <2>1, ProceedFacts
  <2> QED BY <2>2 DEF Disjoint
<1>5. CASE Adapts(c)
  <2>1. PICK st \in CycleRec, bad \in Nat : st.group \in Whole /\ Adapt(c, st, bad)
    BY <1>5 DEF Adapts
  <2>2. PICK after \in CycleRec :
          Proceed(c, after, Replaced(groups, st.group, NewGroups(c, st, bad)))
    BY <2>1, AdaptFacts
  <2>3. groups' \subseteq Replaced(groups, st.group, NewGroups(c, st, bad))
    BY <1>2, <2>2, ProceedFacts
  <2>4. Disjoint(Replaced(groups, st.group, NewGroups(c, st, bad)))
    BY <2>1, DisjointReplaced
  <2> QED BY <2>3, <2>4 DEF Disjoint
<1> QED BY <1>1, <1>3, <1>4, <1>5

LEMMA CoveredKept ==
  ASSUME TypesInv, MarkedInv, Covered, Next
  PROVE  Covered'
<1>1. PICK c \in Cycles : Quietly(c) \/ Proceeds(c) \/ Adapts(c)
  BY StepKinds
<1>2. cycle \in [Cycles -> Cyclic]
  BY DEF TypesInv
<1>3. CASE Quietly(c)
  BY <1>3 DEF Quietly, Covered
<1>4. CASE Proceeds(c)
  <2>1. PICK st \in CycleRec :
          /\ \A g \in st.marked : \/ g \in cycle[c].marked
                                  \/ g.speed = "once" /\ g.sensors \subseteq onceRead'
          /\ Proceed(c, st, groups) /\ onceRead \subseteq onceRead' /\ UNCHANGED enabled
    BY <1>4 DEF Proceeds
  <2>2. groups \ groups' \subseteq st.marked
    BY <1>2, <2>1, ProceedFacts
  <2>3. \A g \in groups \ groups' : g.sensors \subseteq onceRead'
    BY <2>1, <2>2 DEF MarkedInv
  <2> QED BY <2>1, <2>3 DEF Covered, Sensors
<1>5. CASE Adapts(c)
  <2>1. PICK st \in CycleRec, bad \in Nat :
          /\ st.group \in Whole /\ Adapt(c, st, bad) /\ st.marked \subseteq cycle[c].marked
          /\ UNCHANGED onceRead
    BY <1>5 DEF Adapts
  <2> DEFINE new == NewGroups(c, st, bad)
  <2>2. enabled' = [s \in DOMAIN enabled |-> enabled[s] /\ s \notin Hit(st, bad)]
    BY <2>1, AdaptFacts
  <2>3. PICK after \in CycleRec :
          after.marked = st.marked /\ Proceed(c, after, Replaced(groups, st.group, new))
    BY <2>1, AdaptFacts
  <2>4. Replaced(groups, st.group, new) \ groups' \subseteq after.marked
    BY <1>2, <2>3, ProceedFacts
  <2>5. \A g \in Replaced(groups, st.group, new) \ groups' : g.sensors \subseteq onceRead
    BY <2>1, <2>3, <2>4 DEF MarkedInv
  <2>6. \A s \in st.group.sensors : enabled[s] /\ s \notin Hit(st, bad) => s \in Sensors(new)
    <3>1. Rest(st, bad) \in SUBSET Sensor
      BY <2>1, WholeFacts DEF Rest
    <3>2. UNION Clusters(Rest(st, bad)) = Rest(st, bad)
      BY <3>1, ClustersPartition
    <3>3. ASSUME NEW k \in Clusters(Rest(st, bad)) PROVE \E g \in new : g.sensors = k
      <4>1. [by |-> c, speed |-> st.group.speed, sensors |-> k] \in new
        BY DEF NewGroups
      <4> QED BY <4>1
    <3>4. \A s \in st.group.sensors : enabled[s] /\ s \notin Hit(st, bad) => s \in Rest(st, bad)
      BY DEF Rest
    <3> HIDE DEF new
    <3> QED BY <3>2, <3>3, <3>4 DEF Sensors
  <2> HIDE DEF new
  <2> SUFFICES ASSUME NEW s \in DOMAIN enabled', enabled'[s]
               PROVE  s \in Sensors(groups') \union onceRead'
    BY DEF Covered
  <2>7. s \in DOMAIN enabled /\ enabled[s] /\ s \notin Hit(st, bad)
    BY <2>2
  <2>8. s \in Sensors(Replaced(groups, st.group, new)) \union onceRead
    <3>1. CASE s \in onceRead
      BY <3>1
    <3>2. CASE s \notin onceRead
      <4>1. PICK g \in groups : s \in g.sensors
        BY <2>7, <3>2 DEF Covered, Sensors
      <4>2. CASE g = st.group
        BY <2>6, <2>7, <4>1, <4>2 DEF Replaced, Sensors
      <4>3. CASE g # st.group
        BY <4>1, <4>3 DEF Replaced, Sensors
      <4> QED BY <4>2, <4>3
    <3> QED BY <3>1, <3>2
  <2> QED BY <2>1, <2>5, <2>8 DEF Sensors
<1> QED BY <1>1, <1>3, <1>4, <1>5

LEMMA Inductive == RecoveryInv /\ [Next]_vars => RecoveryInv'
<1> SUFFICES ASSUME RecoveryInv, [Next]_vars PROVE RecoveryInv'
  OBVIOUS
<1>1. CASE UNCHANGED vars
  BY <1>1 DEF vars, RecoveryInv, TypesInv, MarkedInv, StandbyFollows, NoFalseAlarm, Accepts,
     Disjoint, Covered
<1>2. CASE Next
  <2>1. TypesInv'
    BY <1>2, TypesKept DEF RecoveryInv
  <2>2. MarkedInv'
    BY <1>2, MarkedKept DEF RecoveryInv
  <2>3. StandbyFollows'
    BY <1>2, StandbyKept DEF RecoveryInv
  <2>4. NoFalseAlarm'
    BY <1>2, NoFalseAlarmKept DEF RecoveryInv
  <2>5. Disjoint(groups)'
    BY <1>2, DisjointKept DEF RecoveryInv, Disjoint
  <2>6. Covered'
    BY <1>2, CoveredKept DEF RecoveryInv
  <2> QED BY <2>1, <2>2, <2>3, <2>4, <2>5, <2>6 DEF RecoveryInv
<1> QED BY <1>1, <1>2

LEMMA RecoveryInvariant == Spec => []RecoveryInv
  BY Initial, Inductive, PTL DEF Spec

-----------------------------------------------------------------------------
(* Theorems.                                                               *)

\* Every group that is polled fills exactly the block that is read for it, and
\* bisection stays within the block of its group, however often groups are split.
THEOREM BlocksFilled == Spec => []RecoveryTypeOK
<1>1. RecoveryInv => RecoveryTypeOK
  <2> SUFFICES ASSUME TypesInv PROVE RecoveryTypeOK
    BY DEF RecoveryInv
  <2>1. \A g \in groups \union standby : g.sensors # {} /\ Registers(g.sensors) = Block(g)
    BY WholeFacts DEF TypesInv
  <2>2. ASSUME NEW c \in Cycles, cycle[c].pc \in Probing
        PROVE  /\ cycle[c].n \in Nat \ {0} /\ cycle[c].depth \in 0..MaxDepth
               /\ cycle[c].lo .. cycle[c].lo + cycle[c].n - 1 \subseteq Block(cycle[c].group)
    BY <2>2, ProbingFacts, RecoveryAssumption
  <2>3. \A c \in Cycles : cycle[c].pc \in {"idle", "waiting", "read"} \union Probing
    BY ProbingFacts DEF CycleRec
  <2> QED BY <2>1, <2>2, <2>3 DEF RecoveryTypeOK, TypesInv
<1> QED BY <1>1, RecoveryInvariant, PTL

\* Without faults on the wire a sensor is disabled only for a register of its own
\* that the inverter rejects, however the cycles take turns.
THEOREM OnlyBadSensorsDisabled == Spec => []NoFalseAlarm
<1>1. RecoveryInv => NoFalseAlarm
  BY DEF RecoveryInv
<1> QED BY <1>1, RecoveryInvariant, PTL

\* The list of the standby protocol is edited along with the active one and has
\* nothing more in it than ONCE groups that were read.
THEOREM StandbyEditedAlong == Spec => []StandbyFollows
<1>1. RecoveryInv => StandbyFollows
  BY DEF RecoveryInv
<1> QED BY <1>1, RecoveryInvariant, PTL

\* A sensor that is still enabled is read with exactly one group, or was to be
\* read once and has been, whatever any number of polling objects replace.
THEOREM EnabledStayRead == Spec => []EnabledCovered
<1>1. RecoveryInv => EnabledCovered
  <2> SUFFICES ASSUME Disjoint(groups), Covered, NEW s \in DOMAIN enabled, enabled[s]
               PROVE  LET with == {g \in groups : s \in g.sensors}
                      IN Cardinality(with) = 1 \/ (with = {} /\ s \in onceRead)
    BY DEF RecoveryInv, EnabledCovered
  <2> DEFINE with == {g \in groups : s \in g.sensors}
  <2>1. CASE with = {}
    BY <2>1 DEF Covered, Sensors
  <2>2. CASE with # {}
    <3>1. PICK g \in groups : s \in g.sensors
      BY <2>2
    <3>2. with = {g}
      BY <3>1 DEF Disjoint
    <3>3. Cardinality({g}) = 1
      BY FS_Singleton
    <3> HIDE DEF with
    <3> QED BY <3>2, <3>3 DEF with
  <2> QED BY <2>1, <2>2
<1> QED BY <1>1, RecoveryInvariant, PTL
=============================================================================
