-------------------------------- MODULE GroupA --------------------------------
(***************************************************************************)
(* The vulnerable firmware: the same loads and stores with nothing around  *)
(* them.  The globals are volatile, so the compiler keeps each access and  *)
(* their order; any other thread may run between two of them.              *)
(***************************************************************************)
EXTENDS Firmware

ASSUME GroupAAssumption == ~DUT_GROUP_B

(* Between two accesses of one shared variable.                            *)
Access(t, p, s, next) == At(t, p, s) /\ Stay(t, next)

sensor_task ==
  \/ Access(SENSOR, "sensor_data", "first", "sample") /\ StoreTemperature
  \/ Access(SENSOR, "sensor_data", "sample", "second") /\ SampleHumidity
  \/ At(SENSOR, "sensor_data", "second") /\ StoreHumidity /\ EndIteration(SENSOR)

control_task ==
  \/ Access(CONTROL, "sensor_data", "first", "second") /\ LoadTemperature(CONTROL)
  \/ /\ At(CONTROL, "sensor_data", "second")
     /\ LoadHumidity(CONTROL)
     /\ Goto(CONTROL, "target_temp")
  \/ At(CONTROL, "target_temp", "first") /\ LoadTarget /\ Goto(CONTROL, "report")
  \/ ReportControlInputs
  \/ Access(CONTROL, "actuators", "first", "second") /\ StorePump
  \/ At(CONTROL, "actuators", "second") /\ StoreFan /\ Goto(CONTROL, "pwm")
  \/ PwmSet
  \/ GpioWritePump

alarm_task ==
  \/ Access(ALARM, "sensor_data", "first", "second") /\ LoadTemperature(ALARM)
  \/ /\ At(ALARM, "sensor_data", "second")
     /\ LoadHumidity(ALARM)
     /\ Goto(ALARM, "alarm_state")
  \/ At(ALARM, "alarm_state", "first") /\ StoreAlarm /\ Goto(ALARM, "gpio_led")
  \/ GpioWriteLed

logger_task ==
  \/ Access(LOGGER, "sensor_data", "first", "second") /\ LoadTemperature(LOGGER)
  \/ /\ At(LOGGER, "sensor_data", "second")
     /\ LoadHumidity(LOGGER)
     /\ Goto(LOGGER, "actuators")
  \/ Access(LOGGER, "actuators", "first", "second") /\ LogPump
  \/ At(LOGGER, "actuators", "second") /\ LogFan /\ Goto(LOGGER, "alarm_state")
  \/ At(LOGGER, "alarm_state", "first") /\ LogAlarm /\ Goto(LOGGER, "log_write")
  \/ LogWrite

(* Mutant: the value that came with the reset is stored.                *)
CommandTargetAsSent == command.value

(* CMD_RESET goes back to the default, whatever value came with it.        *)
CommandTarget ==
  IF command.type = "RESET" THEN TEMP_TARGET_DEFAULT ELSE command.value

comm_task ==
  \/ UartRx
  \/ /\ At(COMM, "target_temp", "first")
     /\ StoreTarget(CommandTarget)
     /\ IF command.type = "RESET" THEN Goto(COMM, "system_enabled")
                                  ELSE EndIteration(COMM)
  \/ At(COMM, "system_enabled", "first") /\ StoreEnabled /\ EndIteration(COMM)

Thread(t) ==
  \/ t = SENSOR /\ sensor_task
  \/ t = CONTROL /\ control_task
  \/ t = ALARM /\ alarm_task
  \/ t = LOGGER /\ logger_task
  \/ t = COMM /\ comm_task
  \/ Finish(t)
=============================================================================
