------------------------------- MODULE Climate -------------------------------
(***************************************************************************)
(* The control law of the controller and the scoreboard's copy of it.      *)
(* A temperature or a humidity is an integer number of eighths of a degree *)
(* (of a percent): every eighth is exact in binary floating point, so the  *)
(* comparisons and the product of the code are exact on these inputs.      *)
(***************************************************************************)
EXTENDS Integers

Eighths == 8

TEMP_TARGET_DEFAULT == 25 * Eighths
TEMP_ALARM_LIMIT == 35 * Eighths
TEMP_CRITICAL_LIMIT == 40 * Eighths
HUMIDITY_MIN_LIMIT == 30 * Eighths
HUMIDITY_MAX_LIMIT == 70 * Eighths
FAN_TEMP_TOLERANCE == 2 * Eighths
FAN_SPEED_MIN == 0
FAN_SPEED_MAX == 100

ALARM_NORMAL == 0
ALARM_WARNING == 1
ALARM_CRITICAL == 2
AlarmLevels == {ALARM_NORMAL, ALARM_WARNING, ALARM_CRITICAL}

Magnitude(e) == IF e < 0 THEN -e ELSE e
Truncate(duty) == IF duty > FAN_SPEED_MAX THEN FAN_SPEED_MAX ELSE duty

(* Mutant: the error is truncated to whole degrees first.               *)
CalculatedFanDutyWhole(temperature, target) ==
  LET error == temperature - target IN
  IF error > FAN_TEMP_TOLERANCE THEN FAN_SPEED_MAX
  ELSE IF error < -FAN_TEMP_TOLERANCE THEN FAN_SPEED_MIN
  ELSE Truncate((Magnitude(error) \div Eighths) * 5)

(***************************************************************************)
(* control_task: full speed above the band, off below it and, inside it,   *)
(* (uint8_t)(fabsf(error) * 5), the product truncated to an integer.       *)
(***************************************************************************)
CalculatedFanDuty(temperature, target) ==
  LET error == temperature - target IN
  IF error > FAN_TEMP_TOLERANCE THEN FAN_SPEED_MAX
  ELSE IF error < -FAN_TEMP_TOLERANCE THEN FAN_SPEED_MIN
  ELSE Truncate((Magnitude(error) * 5) \div Eighths)

(* Mutant: the wrong limit.                                             *)
ShouldPumpOnBelowMax(humidity) == humidity < HUMIDITY_MAX_LIMIT

ShouldPumpOn(humidity) == humidity < HUMIDITY_MIN_LIMIT

(***************************************************************************)
(* alarm_task: the level it stores and the LED it drives.                  *)
(***************************************************************************)
NewAlarmState(temperature, humidity) ==
  IF temperature >= TEMP_CRITICAL_LIMIT THEN ALARM_CRITICAL
  ELSE IF \/ temperature >= TEMP_ALARM_LIMIT
          \/ humidity >= HUMIDITY_MAX_LIMIT
          \/ humidity <= HUMIDITY_MIN_LIMIT
  THEN ALARM_WARNING
  ELSE ALARM_NORMAL

AlarmLedActive(temperature, humidity) ==
  NewAlarmState(temperature, humidity) # ALARM_NORMAL

(***************************************************************************)
(* The reference model of the scoreboard, written separately in C++.       *)
(***************************************************************************)
(* Mutant: the edge of the band belongs to full speed.                  *)
ExpectedFanDutyAtEdge(temperature, target) ==
  LET error == temperature - target IN
  IF error >= FAN_TEMP_TOLERANCE THEN FAN_SPEED_MAX
  ELSE IF error < -FAN_TEMP_TOLERANCE THEN FAN_SPEED_MIN
  ELSE Truncate((Magnitude(error) * 5) \div Eighths)

ExpectedFanDuty(temperature, target) ==
  LET error == temperature - target IN
  IF error > FAN_TEMP_TOLERANCE THEN FAN_SPEED_MAX
  ELSE IF error < -FAN_TEMP_TOLERANCE THEN FAN_SPEED_MIN
  ELSE Truncate((Magnitude(error) * 5) \div Eighths)

ExpectedPumpState(humidity) == humidity < HUMIDITY_MIN_LIMIT

ExpectedAlarmLed(temperature, humidity) ==
  \/ temperature >= TEMP_CRITICAL_LIMIT
  \/ temperature >= TEMP_ALARM_LIMIT
  \/ humidity >= HUMIDITY_MAX_LIMIT
  \/ humidity <= HUMIDITY_MIN_LIMIT
=============================================================================
