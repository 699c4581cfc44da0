--------------------------- MODULE GroupBRefinement ---------------------------
(***************************************************************************)
(* The protected firmware implements the atomic controller.  A section     *)
(* with two accesses takes effect at the first of them: while the task is  *)
(* between the two, the abstract variable already has what the second      *)
(* access will give it, because the mutex keeps everybody else out.        *)
(***************************************************************************)
EXTENDS GroupB

Between(t, p) == place[t] = p /\ stage[t] \in {"sample", "second"}

CommittedReading == IF Between(SENSOR, "sensor_data") THEN held ELSE sensor_data

CommittedView ==
  [t \in Readers |->
     IF Between(t, "sensor_data")
     THEN [temperature |-> view[t].temperature,
           humidity |-> sensor_data.humidity]
     ELSE view[t]]

CommittedActuators ==
  IF Between(CONTROL, "actuators")
  THEN [pump_on |-> PumpOutput, fan_duty |-> FanOutput]
  ELSE actuators

CommittedLog ==
  IF Between(LOGGER, "actuators")
  THEN [log EXCEPT !.fan_duty = actuators.fan_duty]
  ELSE log

Atomic == INSTANCE AtomicController WITH
  Controller <- CONTROL, Alarmer <- ALARM,
  sensor_data <- CommittedReading, actuators <- CommittedActuators,
  view <- CommittedView, log <- CommittedLog

(* Group B is the atomic controller: whatever the interleaving of its      *)
(* loads and stores, each *_task_safe function behaves as if it read or    *)
(* wrote each shared variable whole.                                       *)
ImplementsAtomic == Atomic!Spec
=============================================================================
