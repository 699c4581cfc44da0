------------------------------ MODULE ClimateMC ------------------------------
(***************************************************************************)
(* The control law on a room whose temperature drifts by one eighth of a   *)
(* degree at a time, with humidities on both sides of every limit.         *)
(***************************************************************************)
EXTENDS Climate

CONSTANTS Coldest, Hottest, Setpoints   \* whole degrees

ASSUME ClimateAssumption ==
  Coldest \in Int /\ Hottest \in Int /\ Setpoints \subseteq Int

Around(limit) == {limit - 1, limit, limit + 1}
Humidities == Around(HUMIDITY_MIN_LIMIT) \cup Around(HUMIDITY_MAX_LIMIT)

VARIABLES temperature, humidity, target
climateVars == <<temperature, humidity, target>>

ClimateInit ==
  /\ temperature = Coldest * Eighths
  /\ humidity \in Humidities
  /\ target \in {s * Eighths : s \in Setpoints}

Drift ==
  /\ temperature' \in {temperature - 1, temperature + 1}
  /\ temperature' \in Coldest * Eighths .. Hottest * Eighths
  /\ UNCHANGED <<humidity, target>>

ClimateSpec == ClimateInit /\ [][Drift]_climateVars

(* The scoreboard's reference model, written separately in C++, computes   *)
(* the outputs the firmware computes ("Mirrors control_task.c exactly").   *)
ReferenceModelAgrees ==
  /\ ExpectedFanDuty(temperature, target) = CalculatedFanDuty(temperature, target)
  /\ ExpectedPumpState(humidity) <=> ShouldPumpOn(humidity)
  /\ ExpectedAlarmLed(temperature, humidity) <=> AlarmLedActive(temperature, humidity)

(* Two tasks decide separately on the same humidity limit: control_task    *)
(* never waters air that alarm_task calls normal.                          *)
PumpIsAlarmed ==
  ShouldPumpOn(humidity) => AlarmLedActive(temperature, humidity)

(* A drift of one eighth moves the fan by at most one per cent, except     *)
(* where it crosses an edge of the tolerance band.                         *)
InBand(t) == t - target \in -FAN_TEMP_TOLERANCE .. FAN_TEMP_TOLERANCE
FanMovesSmoothly ==
  [][InBand(temperature) /\ InBand(temperature') =>
       CalculatedFanDuty(temperature', target)
         - CalculatedFanDuty(temperature, target) \in -1 .. 1]_climateVars
=============================================================================
