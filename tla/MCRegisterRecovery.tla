-------------------------- MODULE MCRegisterRecovery --------------------------
(***************************************************************************)
(* Scenarios for model checking register recovery: a small group beside a  *)
(* ONCE group, with cycles of two polling objects, and every block of the  *)
(* register tables alone with one or two bad registers.                    *)
(***************************************************************************)
EXTENDS RegisterRecovery, TLC

CONSTANTS a1, a2, b1, PollA, PollB

Tables == INSTANCE RegisterTables

MCPollerOf == [c \in Cycles |-> IF c = b1 THEN PollB ELSE PollA]

SensorAt(lo, n) == [lo |-> lo, n |-> n]
Group(speed, sensors) == [by |-> Setup, speed |-> speed, sensors |-> sensors]

Small == {Group("normal", {SensorAt(10, 1), SensorAt(11, 2), SensorAt(13, 1)}),
          Group("once", {SensorAt(20, 1), SensorAt(21, 1)})}

\* Cycles of one polling object, and of a stopped one and its successor.
SmallScenarios ==
  [groups : {Small}, rejected : {R \in SUBSET {10, 12, 20} : Cardinality(R) <= 2},
   cycles : {{a1, a2}, {a1, b1}}, faults : {1}]

\* Two bad registers in blocks of at most MaxPairs registers, else one.
MaxPairs == 8
TableScenarios ==
  UNION {LET g == Group("normal", Tables!SensorsOf(b))
             pairs == IF Count(g) <= MaxPairs THEN Block(g) ELSE {Start(g)}
         IN {[groups |-> {g}, rejected |-> {x, y}, cycles |-> {a1}, faults |-> 0] :
               x \in Block(g), y \in pairs} :
           b \in Tables!HybridBlocks \union Tables!StringBlocks}

MCScenarios == SmallScenarios \union TableScenarios
=============================================================================
