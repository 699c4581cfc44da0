------------------------------- MODULE Firmware -------------------------------
(***************************************************************************)
(* What the two builds of the firmware share: the five globals, the locals *)
(* of the five tasks, the statements that access them, the HAL calls, and  *)
(* the life of a task thread.  GroupA runs the statements bare, GroupB     *)
(* runs them inside critical sections.                                     *)
(*                                                                         *)
(* A task is at a place - the shared variable it accesses, or a HAL call - *)
(* and in a stage of it.  The tasks are named by their priorities, as the  *)
(* event queue and the holder table name them.                             *)
(***************************************************************************)
EXTENDS Climate, HalBridge

CONSTANTS
  DUT_GROUP_B,  \* the build: TRUE for the mutex-protected firmware
  Tasks,        \* the tasks that are started, a subset of AllTasks
  Loops,        \* LOOPS_PER_TASK
  Readings,     \* the (temperature, humidity) pairs the ADC may return
  Targets       \* the setpoints the UART stub of hal.c may inject

LOGGER == 0
COMM == 1
CONTROL == 2
SENSOR == 3
ALARM == 4
AllTasks == LOGGER .. ALARM
Readers == {LOGGER, CONTROL, ALARM}  \* the tasks that read sensor_data

Places == Shared \cup {"unspawned", "uart", "report", "pwm", "gpio_pump",
                       "gpio_led", "log_write", "done", "exit", "returned",
                       "failed"}
Stages == {"holder", "lock", "mark", "report", "first", "sample", "second",
           "unmark", "unlock", "call", "check", "type", "value", "event",
           "push", "consume"}

ASSUME FirmwareAssumption ==
  /\ DUT_GROUP_B \in BOOLEAN
  /\ Tasks \subseteq AllTasks
  /\ Loops \in Nat \ {0}
  /\ Readings \subseteq Pairs
  /\ Targets \subseteq Int

VARIABLES
  place, stage, iter,   \* where each task is, and its loop counter
  sensor_data, target_temp, actuators, alarm_state, system_enabled,
  view,                 \* each reader's current_temp and current_humidity
  held,                 \* last_temp and last_humidity of the ADC callback
  setpoint,             \* control_task's target_temperature
  command,              \* comm_task's command
  event_type,           \* ev.command_type in the UART callback
  log                   \* logger_task's record of actuators and alarm

where == <<place, stage, iter>>
globals == <<sensor_data, target_temp, actuators, alarm_state, system_enabled>>
locals == <<view, held, setpoint, command, event_type, log>>
firmwareVars == <<where, globals, locals, bridgeVars>>

WhereTypeOK ==
  /\ place \in [AllTasks -> Places]
  /\ stage \in [AllTasks -> Stages]
  /\ iter \in [AllTasks -> 0 .. Loops]

DataTypeOK ==
  /\ sensor_data \in Pairs
  /\ target_temp \in Int
  /\ actuators \in [pump_on : BOOLEAN, fan_duty : 0 .. FAN_SPEED_MAX]
  /\ alarm_state \in AlarmLevels
  /\ system_enabled \in BOOLEAN
  /\ view \in [Readers -> Pairs]
  /\ held \in Pairs
  /\ setpoint \in Int
  /\ command \in Commands
  /\ event_type \in CommandTypes
  /\ log \in [pump_on : BOOLEAN, fan_duty : 0 .. FAN_SPEED_MAX,
              alarm_level : AlarmLevels]

FirmwareTypeOK == WhereTypeOK /\ DataTypeOK /\ BridgeTypeOK

(***************************************************************************)
(* shared_data_reset runs before any thread exists.  The locals hold       *)
(* whatever the stack holds; no task reads one before it writes it.        *)
(***************************************************************************)
FirmwareInit ==
  /\ place = [t \in AllTasks |-> IF t \in Tasks THEN "unspawned" ELSE "returned"]
  /\ stage = [t \in AllTasks |-> "call"]
  /\ iter = [t \in AllTasks |-> 0]
  /\ sensor_data = NoPair
  /\ target_temp = TEMP_TARGET_DEFAULT
  /\ actuators = [pump_on |-> FALSE, fan_duty |-> 0]
  /\ alarm_state = ALARM_NORMAL
  /\ system_enabled = TRUE
  /\ view = [t \in Readers |-> NoPair]
  /\ held = NoPair
  /\ setpoint = TEMP_TARGET_DEFAULT
  /\ command = [type |-> "NONE", value |-> 0]
  /\ event_type = "NONE"
  /\ log = [pump_on |-> FALSE, fan_duty |-> 0, alarm_level |-> ALARM_NORMAL]
  /\ BridgeInit

-----------------------------------------------------------------------------
(***************************************************************************)
(* Control flow.  A task enters a shared variable at its first access, or  *)
(* in Group B by looking at the holder table before it locks.              *)
(***************************************************************************)
Entry(p) == IF p \notin Shared THEN "call"
            ELSE IF DUT_GROUP_B THEN "holder" ELSE "first"

(* The first place of an iteration.                                        *)
Start(t) == IF t = COMM THEN "uart" ELSE "sensor_data"

At(t, p, s) == t \in Tasks /\ place[t] = p /\ stage[t] = s

Stay(t, s) == stage' = [stage EXCEPT ![t] = s] /\ UNCHANGED <<place, iter>>

Goto(t, p) ==
  /\ place' = [place EXCEPT ![t] = p]
  /\ stage' = [stage EXCEPT ![t] = Entry(p)]
  /\ UNCHANGED iter

(* Mutant: one iteration too many.                                      *)
EndIterationTooLate(t) ==
  LET p == IF iter[t] + 1 <= Loops THEN Start(t) ELSE "done" IN
  /\ iter' = [iter EXCEPT ![t] = @ + 1]
  /\ place' = [place EXCEPT ![t] = p]
  /\ stage' = [stage EXCEPT ![t] = Entry(p)]

(* Mutant: one iteration too few.                                       *)
EndIterationTooEarly(t) ==
  LET p == IF iter[t] + 2 < Loops THEN Start(t) ELSE "done" IN
  /\ iter' = [iter EXCEPT ![t] = @ + 1]
  /\ place' = [place EXCEPT ![t] = p]
  /\ stage' = [stage EXCEPT ![t] = Entry(p)]

(* The for statement: i++, and round again or out of the function.         *)
EndIteration(t) ==
  LET p == IF iter[t] + 1 < Loops THEN Start(t) ELSE "done" IN
  /\ iter' = [iter EXCEPT ![t] = @ + 1]
  /\ place' = [place EXCEPT ![t] = p]
  /\ stage' = [stage EXCEPT ![t] = Entry(p)]

-----------------------------------------------------------------------------
(***************************************************************************)
(* Statements on the shared variables.  Each is one load or one store.     *)
(***************************************************************************)

(* sensor_data.temperature = hal_adc_read(ADC_CH_TEMP): the callback takes *)
(* a pair and holds it for the humidity read.                              *)
StoreTemperature ==
  /\ held' \in Readings
  /\ sensor_data' = [sensor_data EXCEPT !.temperature = held'.temperature]
  /\ UNCHANGED <<target_temp, actuators, alarm_state, system_enabled,
                 view, setpoint, command, event_type, log, bridgeVars>>

(* hal_adc_read(ADC_CH_HUMIDITY) pushes the held pair before it returns.   *)
SampleHumidity ==
  /\ Push(PairEvent("SENSOR", SENSOR, held))
  /\ UNCHANGED <<globals, locals, active, mailbox>>

StoreHumidity ==
  /\ sensor_data' = [sensor_data EXCEPT !.humidity = held.humidity]
  /\ UNCHANGED <<target_temp, actuators, alarm_state, system_enabled,
                 locals, bridgeVars>>

LoadTemperature(t) ==
  /\ view' = [view EXCEPT ![t].temperature = sensor_data.temperature]
  /\ UNCHANGED <<globals, held, setpoint, command, event_type, log, bridgeVars>>

LoadHumidity(t) ==
  /\ view' = [view EXCEPT ![t].humidity = sensor_data.humidity]
  /\ UNCHANGED <<globals, held, setpoint, command, event_type, log, bridgeVars>>

LoadTarget ==
  /\ setpoint' = target_temp
  /\ UNCHANGED <<globals, view, held, command, event_type, log, bridgeVars>>

StoreTarget(value) ==
  /\ target_temp' = value
  /\ UNCHANGED <<sensor_data, actuators, alarm_state, system_enabled,
                 locals, bridgeVars>>

StoreEnabled ==
  /\ system_enabled' = (command.type # "DISABLE")
  /\ UNCHANGED <<sensor_data, target_temp, actuators, alarm_state,
                 locals, bridgeVars>>

(* The outputs of an iteration are functions of what it has read.          *)
FanOutput == CalculatedFanDuty(view[CONTROL].temperature, setpoint)
PumpOutput == ShouldPumpOn(view[CONTROL].humidity)
AlarmOutput == NewAlarmState(view[ALARM].temperature, view[ALARM].humidity)

(* Mutant: the output follows the shared reading, not the local copy.   *)
StorePumpFromShared ==
  /\ actuators' = [actuators EXCEPT !.pump_on = ShouldPumpOn(sensor_data.humidity)]
  /\ UNCHANGED <<sensor_data, target_temp, alarm_state, system_enabled,
                 locals, bridgeVars>>

StorePump ==
  /\ actuators' = [actuators EXCEPT !.pump_on = PumpOutput]
  /\ UNCHANGED <<sensor_data, target_temp, alarm_state, system_enabled,
                 locals, bridgeVars>>

StoreFan ==
  /\ actuators' = [actuators EXCEPT !.fan_duty = FanOutput]
  /\ UNCHANGED <<sensor_data, target_temp, alarm_state, system_enabled,
                 locals, bridgeVars>>

StoreAlarm ==
  /\ alarm_state' = AlarmOutput
  /\ UNCHANGED <<sensor_data, target_temp, actuators, system_enabled,
                 locals, bridgeVars>>

LogPump ==
  /\ log' = [log EXCEPT !.pump_on = actuators.pump_on]
  /\ UNCHANGED <<globals, view, held, setpoint, command, event_type, bridgeVars>>

LogFan ==
  /\ log' = [log EXCEPT !.fan_duty = actuators.fan_duty]
  /\ UNCHANGED <<globals, view, held, setpoint, command, event_type, bridgeVars>>

LogAlarm ==
  /\ log' = [log EXCEPT !.alarm_level = alarm_state]
  /\ UNCHANGED <<globals, view, held, setpoint, command, event_type, bridgeVars>>

-----------------------------------------------------------------------------
(***************************************************************************)
(* HAL calls outside the shared variables.                                 *)
(***************************************************************************)
Call(event) ==
  /\ Push(event)
  /\ UNCHANGED <<globals, locals, active, mailbox>>

Bit(b) == IF b THEN 1 ELSE 0

ReportControlInputs ==
  At(CONTROL, "report", "call") /\ Goto(CONTROL, "actuators")
    /\ Call(PairEvent("CONTROL_IN", CONTROL, view[CONTROL]))

(* Mutant: the fan is only driven when it runs.                         *)
PwmSetWhenOn ==
  /\ At(CONTROL, "pwm", "call") /\ Goto(CONTROL, "gpio_pump")
  /\ IF FanOutput > 0
     THEN Call(ValueEvent("PWM", CONTROL, "FAN", FanOutput))
     ELSE UNCHANGED <<globals, locals, bridgeVars>>

PwmSet ==
  At(CONTROL, "pwm", "call") /\ Goto(CONTROL, "gpio_pump")
    /\ Call(ValueEvent("PWM", CONTROL, "FAN", FanOutput))

GpioWritePump ==
  At(CONTROL, "gpio_pump", "call") /\ EndIteration(CONTROL)
    /\ Call(ValueEvent("GPIO", CONTROL, "PUMP", Bit(PumpOutput)))

GpioWriteLed ==
  At(ALARM, "gpio_led", "call") /\ EndIteration(ALARM)
    /\ Call(ValueEvent("GPIO", ALARM, "LED",
              Bit(AlarmLedActive(view[ALARM].temperature, view[ALARM].humidity))))

(* Every hundredth record is written out; the callback signals life.       *)
LogWrite ==
  /\ At(LOGGER, "log_write", "call")
  /\ EndIteration(LOGGER)
  /\ IF iter[LOGGER] % 100 = 0
     THEN Call(SignalEvent("LOG", LOGGER))
     ELSE UNCHANGED <<globals, locals, bridgeVars>>

-----------------------------------------------------------------------------
(***************************************************************************)
(* hal_uart_rx.  The stub of hal.c makes up a command or none; the bridge  *)
(* callback reads the driver's two globals, one unordered load at a time,  *)
(* once for the firmware and once more for the event, then clears the type.*)
(***************************************************************************)
StubCommands == [type : {"TARGET"}, value : Targets]
                  \cup [type : {"ENABLE", "DISABLE", "RESET"}, value : {0}]

(* Where the switch of comm_task goes first.                               *)
Dispatch(type) ==
  IF type \in {"TARGET", "RESET"} THEN Goto(COMM, "target_temp")
  ELSE IF type \in {"ENABLE", "DISABLE"} THEN Goto(COMM, "system_enabled")
  ELSE EndIteration(COMM)

UartStub ==
  /\ "COMM" \notin Registered
  /\ At(COMM, "uart", "call")
  /\ UNCHANGED <<globals, view, held, setpoint, event_type, log, bridgeVars>>
  /\ \/ EndIteration(COMM) /\ UNCHANGED command
     \/ command' \in StubCommands /\ Dispatch(command'.type)

(* Every 64th poll signals life; poll_count is the loop counter.           *)
UartPoll ==
  /\ "COMM" \in Registered
  /\ At(COMM, "uart", "call")
  /\ Stay(COMM, "check")
  /\ IF iter[COMM] % 64 = 0
     THEN Call(SignalEvent("HEARTBEAT", COMM))
     ELSE UNCHANGED <<globals, locals, bridgeVars>>

UartCheck ==
  /\ At(COMM, "uart", "check")
  /\ IF dvr_command_type = "NONE" THEN EndIteration(COMM) ELSE Stay(COMM, "type")
  /\ UNCHANGED <<globals, locals, bridgeVars>>

UartCopyType ==
  /\ At(COMM, "uart", "type")
  /\ Stay(COMM, "value")
  /\ command' = [command EXCEPT !.type = dvr_command_type]
  /\ UNCHANGED <<globals, view, held, setpoint, event_type, log, bridgeVars>>

(* Mutant: the mailbox is cleared before the event is made.             *)
UartCopyValueAndClear ==
  /\ At(COMM, "uart", "value")
  /\ Stay(COMM, "event")
  /\ command' = [command EXCEPT !.value = dvr_command_value]
  /\ dvr_command_type' = "NONE"
  /\ UNCHANGED <<globals, view, held, setpoint, event_type, log, queue, active,
                 dvr_command_value, injected>>

UartCopyValue ==
  /\ At(COMM, "uart", "value")
  /\ Stay(COMM, "event")
  /\ command' = [command EXCEPT !.value = dvr_command_value]
  /\ UNCHANGED <<globals, view, held, setpoint, event_type, log, bridgeVars>>

UartEventType ==
  /\ At(COMM, "uart", "event")
  /\ Stay(COMM, "push")
  /\ event_type' = dvr_command_type
  /\ UNCHANGED <<globals, view, held, setpoint, command, log, bridgeVars>>

UartEvent ==
  /\ At(COMM, "uart", "push")
  /\ Stay(COMM, "consume")
  /\ Call(ValueEvent("COMM", COMM, event_type, dvr_command_value))

(* Mutant: the mailbox is never cleared.                                *)
UartKeep ==
  /\ At(COMM, "uart", "consume")
  /\ Dispatch(command.type)
  /\ UNCHANGED <<globals, locals, bridgeVars>>

UartConsume ==
  /\ At(COMM, "uart", "consume")
  /\ dvr_command_type' = "NONE"
  /\ Dispatch(command.type)
  /\ UNCHANGED <<globals, locals, queue, active, dvr_command_value, injected>>

UartRx == UartStub \/ UartPoll \/ UartCheck \/ UartCopyType \/ UartCopyValue
            \/ UartEventType \/ UartEvent \/ UartConsume

-----------------------------------------------------------------------------
(***************************************************************************)
(* The life of a thread.  The threads are created highest priority first,  *)
(* active is counted up before each creation; a thread whose task function *)
(* has returned pushes TASK_DONE, then counts active down.                 *)
(***************************************************************************)
Creation(t, p) ==
  /\ t \in Tasks
  /\ place[t] = "unspawned"
  /\ \A u \in Tasks : u > t => place[u] # "unspawned"
  /\ active' = active + 1
  /\ Goto(t, p)
  /\ UNCHANGED <<globals, locals, queue, mailbox>>

Spawn(t) == Creation(t, Start(t))

(* Mutant: a thread that was not created is not counted.                *)
SpawnFailsUncounted(t) ==
  /\ t \in Tasks
  /\ place[t] = "unspawned"
  /\ \A u \in Tasks : u > t => place[u] # "unspawned"
  /\ Goto(t, "failed")
  /\ UNCHANGED <<globals, locals, bridgeVars>>

(* run_phase ignores the result of pthread_create: the thread that does    *)
(* not exist has been counted, and its pthread_t stays unset.              *)
SpawnFails(t) == Creation(t, "failed")

SignalDone(t) ==
  At(t, "done", "call") /\ Goto(t, "exit") /\ Call(SignalEvent("TASK_DONE", t))

Exit(t) ==
  /\ At(t, "exit", "call")
  /\ active' = active - 1
  /\ Goto(t, "returned")
  /\ UNCHANGED <<globals, locals, queue, mailbox>>

(* Mutant: the thread counts itself out before its TASK_DONE.           *)
FinishBackwards(t) ==
  \/ /\ At(t, "done", "call") /\ Goto(t, "exit")
     /\ active' = active - 1
     /\ UNCHANGED <<globals, locals, queue, mailbox>>
  \/ /\ At(t, "exit", "call") /\ Goto(t, "returned")
     /\ Call(SignalEvent("TASK_DONE", t))

Finish(t) == SignalDone(t) \/ Exit(t)

Failed == {t \in AllTasks : place[t] = "failed"}
Unspawned == {t \in AllTasks : place[t] = "unspawned"}
AllReturned == \A t \in AllTasks : place[t] = "returned"
=============================================================================
