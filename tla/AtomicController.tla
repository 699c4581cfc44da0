--------------------------- MODULE AtomicController ---------------------------
(***************************************************************************)
(* What the protected build promises: a controller with no locks at all,   *)
(* in which every task reads or writes a whole shared variable at once.    *)
(***************************************************************************)
EXTENDS Climate

CONSTANTS
  Readings,     \* the pairs a sensor reading may give
  Readers,      \* the tasks that take snapshots of sensor_data
  Controller,   \* the reader that drives the actuators
  Alarmer       \* the reader that raises the alarm

VARIABLES sensor_data, target_temp, actuators, alarm_state, system_enabled,
          view, setpoint, log

vars == <<sensor_data, target_temp, actuators, alarm_state, system_enabled,
          view, setpoint, log>>

Init ==
  /\ sensor_data = [temperature |-> 0, humidity |-> 0]
  /\ target_temp = TEMP_TARGET_DEFAULT
  /\ actuators = [pump_on |-> FALSE, fan_duty |-> 0]
  /\ alarm_state = ALARM_NORMAL
  /\ system_enabled = TRUE
  /\ view = [t \in Readers |-> [temperature |-> 0, humidity |-> 0]]
  /\ setpoint = TEMP_TARGET_DEFAULT
  /\ log = [pump_on |-> FALSE, fan_duty |-> 0, alarm_level |-> ALARM_NORMAL]

(* sensor_task publishes one reading.                                      *)
Measure ==
  /\ sensor_data' \in Readings
  /\ UNCHANGED <<target_temp, actuators, alarm_state, system_enabled,
                 view, setpoint, log>>

(* A reader takes the current pair.                                        *)
Snapshot(t) ==
  /\ view' = [view EXCEPT ![t] = sensor_data]
  /\ UNCHANGED <<sensor_data, target_temp, actuators, alarm_state,
                 system_enabled, setpoint, log>>

TakeSetpoint ==
  /\ setpoint' = target_temp
  /\ UNCHANGED <<sensor_data, target_temp, actuators, alarm_state,
                 system_enabled, view, log>>

(* Both actuators move at once, to what one snapshot and one setpoint ask. *)
Actuate ==
  /\ actuators' =
       [pump_on |-> ShouldPumpOn(view[Controller].humidity),
        fan_duty |-> CalculatedFanDuty(view[Controller].temperature, setpoint)]
  /\ UNCHANGED <<sensor_data, target_temp, alarm_state, system_enabled,
                 view, setpoint, log>>

Raise ==
  /\ alarm_state' = NewAlarmState(view[Alarmer].temperature,
                                  view[Alarmer].humidity)
  /\ UNCHANGED <<sensor_data, target_temp, actuators, system_enabled,
                 view, setpoint, log>>

Command ==
  /\ \/ target_temp' \in Int /\ UNCHANGED system_enabled
     \/ system_enabled' \in BOOLEAN /\ UNCHANGED target_temp
  /\ UNCHANGED <<sensor_data, actuators, alarm_state, view, setpoint, log>>

(* The logged pump and fan were the actuators' state at one instant.       *)
LogActuators ==
  /\ log' = [log EXCEPT !.pump_on = actuators.pump_on,
                        !.fan_duty = actuators.fan_duty]
  /\ UNCHANGED <<sensor_data, target_temp, actuators, alarm_state,
                 system_enabled, view, setpoint>>

LogAlarm ==
  /\ log' = [log EXCEPT !.alarm_level = alarm_state]
  /\ UNCHANGED <<sensor_data, target_temp, actuators, alarm_state,
                 system_enabled, view, setpoint>>

Next == \/ Measure \/ TakeSetpoint \/ Actuate \/ Raise \/ Command
        \/ LogActuators \/ LogAlarm
        \/ \E t \in Readers : Snapshot(t)

Spec == Init /\ [][Next]_vars
=============================================================================
