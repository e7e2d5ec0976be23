------------------------- MODULE MCTurbineControl -------------------------
(* Small instances of TurbineControl. *)
EXTENDS TurbineControl, TLC

Config(library, actuator, checkpoint, pitchOn, torqueOn, pitch) ==
    [library |-> library, actuator |-> actuator, checkpoint |-> checkpoint,
     pitchOn |-> pitchOn, torqueOn |-> torqueOn, pitch |-> pitch,
     controllerPitch |-> 0, controllerYaw |-> 0]

MCInputs == { Config(TRUE, "position", FALSE, TRUE, TRUE, 1),
              Config(TRUE, "position", FALSE, FALSE, FALSE, 0),
              Config(TRUE, "velocity", FALSE, TRUE, TRUE, 1),
              Config(TRUE, "position", TRUE, TRUE, TRUE, 1),
              Config(TRUE, "velocity", TRUE, TRUE, TRUE, 1),
              Config(FALSE, "position", FALSE, TRUE, TRUE, 0) }

\* A file whose numbers ran together: out of range, and different per blade.
MCCheckpoints ==
    {[filtered |-> 3, integral |-> -1, torque |-> 9, time |-> 3, pitchTime |-> 0,
      torqueTime |-> 2, pitch |-> [b \in Blades |-> IF b = 1 THEN 7 ELSE 0],
      curve |-> [slope15 |-> 0, slope25 |-> -2, sync |-> 1, trans |-> 0]]}

MCSpeedFloor == -1

MCSymmetry == Permutations(Turbines)
=============================================================================
