------------------------------ MODULE MCReadings ------------------------------
(***************************************************************************)
(* One inverter whose state of charge jumps to both edges and whose blocks *)
(* go missing, and two inverters that share the drift counter and read     *)
(* nothing a derived sensor is made of.                                    *)
(***************************************************************************)
EXTENDS Readings

CONSTANTS i1, i2

MCScenarios ==
  {[inverters |-> {i1}, blocks |-> {"soc", "clock", "first", "second"},
    values |-> {0, 40, 100}, edges |-> {0, 100}],
   [inverters |-> {i1, i2}, blocks |-> {"soc", "clock"}, values |-> {40}, edges |-> {}]}
=============================================================================
