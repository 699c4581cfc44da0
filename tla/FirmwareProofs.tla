---------------------------- MODULE FirmwareProofs ----------------------------
(***************************************************************************)
(* Lemmas about the statements the two builds share: each keeps the types  *)
(* of the globals, of the locals and of the bridge's variables.            *)
(***************************************************************************)
EXTENDS Firmware, TLAPS

(* The control law stays within the actuator's range.                      *)
LEMMA FanDutyRange ==
  ASSUME NEW temperature \in Int, NEW target \in Int
  PROVE  CalculatedFanDuty(temperature, target) \in 0 .. FAN_SPEED_MAX
<1> DEFINE error == temperature - target
<1>1. CASE error > FAN_TEMP_TOLERANCE \/ error < -FAN_TEMP_TOLERANCE
  BY <1>1 DEF CalculatedFanDuty, FAN_SPEED_MAX, FAN_SPEED_MIN
<1>2. CASE ~(error > FAN_TEMP_TOLERANCE \/ error < -FAN_TEMP_TOLERANCE)
  <2>1. error \in Int /\ Magnitude(error) \in 0 .. 16
    BY <1>2 DEF Magnitude, FAN_TEMP_TOLERANCE, Eighths
  <2>2. (Magnitude(error) * 5) \div Eighths \in 0 .. 10
    BY <2>1 DEF Eighths
  <2> HIDE DEF error
  <2> QED
    BY <1>2, <2>2 DEF error, CalculatedFanDuty, Truncate, FAN_SPEED_MAX
<1> QED
  BY <1>1, <1>2

LEMMA AlarmLevelRange ==
  ASSUME NEW temperature \in Int, NEW humidity \in Int
  PROVE  NewAlarmState(temperature, humidity) \in AlarmLevels
BY DEF NewAlarmState, AlarmLevels

LEMMA PushKeepsType ==
  ASSUME BridgeTypeOK, NEW event \in Events, Push(event)
  PROVE  queue' \in Seq(Events)
BY DEF BridgeTypeOK, Push

LEMMA PairEventType ==
  ASSUME NEW type \in EventTypes, NEW task \in Int, NEW pair \in Pairs
  PROVE  PairEvent(type, task, pair) \in Events
BY DEF PairEvent, Events, Subjects, CommandTypes

LEMMA ValueEventType ==
  ASSUME NEW type \in EventTypes, NEW task \in Int, NEW of \in Subjects,
         NEW value \in Int
  PROVE  ValueEvent(type, task, of, value) \in Events
BY DEF ValueEvent, Events, Pairs, NoPair

LEMMA SignalEventType ==
  ASSUME NEW type \in EventTypes, NEW task \in Int
  PROVE  SignalEvent(type, task) \in Events
<1>1. "NONE" \in Subjects /\ 0 \in Int
  BY DEF Subjects, CommandTypes
<1> QED
  BY <1>1, ValueEventType DEF SignalEvent

-----------------------------------------------------------------------------
(***************************************************************************)
(* Control flow.  A task that is inside its task function has iterations   *)
(* left, so that the loop counter stays within its bound.                  *)
(***************************************************************************)
LoopsLeft ==
  \A t \in AllTasks :
    place[t] \notin {"done", "exit", "returned"} => iter[t] < Loops

WhereInv == WhereTypeOK /\ LoopsLeft

LEMMA GotoKeepsWhere ==
  ASSUME WhereInv, NEW t \in Tasks, NEW p \in Places, Goto(t, p),
         place[t] \notin {"done", "exit", "returned"}
  PROVE  WhereInv'
BY FirmwareAssumption DEF WhereInv, WhereTypeOK, LoopsLeft, Goto, Entry, Stages

(* The way out: done, exit, returned.                                      *)
LEMMA LeaveKeepsWhere ==
  ASSUME WhereInv, NEW t \in Tasks, NEW p \in {"exit", "returned"}, Goto(t, p)
  PROVE  WhereInv'
BY FirmwareAssumption
   DEF WhereInv, WhereTypeOK, LoopsLeft, Goto, Entry, Stages, Places, Shared

LEMMA StayKeepsWhere ==
  ASSUME WhereInv, NEW t \in Tasks, NEW s \in Stages, Stay(t, s)
  PROVE  WhereInv'
BY FirmwareAssumption DEF WhereInv, WhereTypeOK, LoopsLeft, Stay

LEMMA EndIterationKeepsWhere ==
  ASSUME WhereInv, NEW t \in Tasks, EndIteration(t),
         place[t] \notin {"done", "exit", "returned"}
  PROVE  WhereInv'
<1> DEFINE p == IF iter[t] + 1 < Loops THEN Start(t) ELSE "done"
<1>1. /\ t \in AllTasks /\ iter[t] \in 0 .. Loops /\ iter[t] < Loops
      /\ Loops \in Nat
  BY FirmwareAssumption DEF WhereInv, WhereTypeOK, LoopsLeft
<1>2. p \in Places /\ Entry(p) \in Stages
  BY DEF Start, Places, Shared, Entry, Stages
<1>3. WhereTypeOK'
  BY <1>1, <1>2 DEF EndIteration, WhereInv, WhereTypeOK
<1>4. LoopsLeft'
  BY <1>1 DEF EndIteration, WhereInv, WhereTypeOK, LoopsLeft, Start
<1> QED
  BY <1>3, <1>4 DEF WhereInv

-----------------------------------------------------------------------------
(***************************************************************************)
(* Data.  The statements of the task functions, and the events they push.  *)
(***************************************************************************)
DataInv == DataTypeOK /\ BridgeTypeOK

LEMMA SensorStatements ==
  ASSUME DataInv, StoreTemperature \/ SampleHumidity \/ StoreHumidity
  PROVE  DataInv'
<1> USE DEF DataInv, DataTypeOK, BridgeTypeOK, bridgeVars, locals, globals,
            mailbox
<1>1. CASE StoreTemperature
  BY <1>1, FirmwareAssumption DEF StoreTemperature, Pairs
<1>2. CASE SampleHumidity
  <2>1. PairEvent("SENSOR", SENSOR, held) \in Events
    BY PairEventType DEF SENSOR, EventTypes
  <2> QED
    BY <1>2, <2>1, PushKeepsType DEF SampleHumidity
<1>3. CASE StoreHumidity
  BY <1>3 DEF StoreHumidity, Pairs
<1> QED
  BY <1>1, <1>2, <1>3

LEMMA Loads ==
  ASSUME DataInv, NEW t \in Readers,
         LoadTemperature(t) \/ LoadHumidity(t) \/ LoadTarget
           \/ LogPump \/ LogFan \/ LogAlarm
  PROVE  DataInv'
<1> USE DEF DataInv, DataTypeOK, BridgeTypeOK, bridgeVars, globals
<1>1. CASE LoadTemperature(t) \/ LoadHumidity(t) \/ LoadTarget
  BY <1>1 DEF LoadTemperature, LoadHumidity, LoadTarget, Pairs
<1>2. CASE LogPump \/ LogFan \/ LogAlarm
  BY <1>2 DEF LogPump, LogFan, LogAlarm
<1> QED
  BY <1>1, <1>2

LEMMA Outputs ==
  ASSUME DataInv
  PROVE  /\ FanOutput \in 0 .. FAN_SPEED_MAX
         /\ PumpOutput \in BOOLEAN
         /\ AlarmOutput \in AlarmLevels
<1>1. \A t \in Readers :
        view[t].temperature \in Int /\ view[t].humidity \in Int
  BY DEF DataInv, DataTypeOK, Pairs
<1>2. CONTROL \in Readers /\ ALARM \in Readers /\ setpoint \in Int
  BY DEF Readers, DataInv, DataTypeOK
<1>3. FanOutput \in 0 .. FAN_SPEED_MAX
  BY <1>1, <1>2, FanDutyRange DEF FanOutput
<1>4. AlarmOutput \in AlarmLevels
  BY <1>1, <1>2, AlarmLevelRange DEF AlarmOutput
<1>5. PumpOutput \in BOOLEAN
  BY DEF PumpOutput, ShouldPumpOn
<1> QED
  BY <1>3, <1>4, <1>5

LEMMA Stores ==
  ASSUME DataInv, NEW value \in Int,
         StoreTarget(value) \/ StoreEnabled \/ StorePump \/ StoreFan \/ StoreAlarm
  PROVE  DataInv'
BY Outputs DEF StoreTarget, StoreEnabled, StorePump, StoreFan, StoreAlarm,
   DataInv, DataTypeOK, BridgeTypeOK, bridgeVars, locals

LEMMA Calls ==
  ASSUME DataInv, NEW event \in Events, Call(event)
  PROVE  DataInv'
BY PushKeepsType DEF Call, DataInv, DataTypeOK, BridgeTypeOK, globals, locals,
   mailbox

LEMMA DataStutter ==
  ASSUME DataInv, UNCHANGED <<globals, locals, bridgeVars>>
  PROVE  DataInv'
BY DEF DataInv, DataTypeOK, BridgeTypeOK, globals, locals, bridgeVars

(* The HAL calls of the tasks, with the move that follows each.            *)
LEMMA HalCalls ==
  ASSUME DataInv,
         ReportControlInputs \/ PwmSet \/ GpioWritePump \/ GpioWriteLed \/ LogWrite
  PROVE  DataInv'
<1>1. view[CONTROL] \in Pairs /\ FanOutput \in Int /\ FanOutput \in Int
  BY Outputs DEF DataInv, DataTypeOK, Readers, FAN_SPEED_MAX
<1>2. \A b : Bit(b) \in Int
  BY DEF Bit
<1>3. /\ {"CONTROL_IN", "PWM", "GPIO", "LOG"} \subseteq EventTypes
      /\ {"FAN", "PUMP", "LED"} \subseteq Subjects
      /\ CONTROL \in Int /\ ALARM \in Int /\ LOGGER \in Int
  BY DEF EventTypes, Subjects, CONTROL, ALARM, LOGGER
<1>4. CASE ReportControlInputs
  BY <1>1, <1>3, <1>4, PairEventType, Calls DEF ReportControlInputs
<1>5. CASE PwmSet
  BY <1>1, <1>3, <1>5, ValueEventType, Calls DEF PwmSet
<1>6. CASE GpioWritePump
  BY <1>2, <1>3, <1>6, ValueEventType, Calls DEF GpioWritePump
<1>7. CASE GpioWriteLed
  BY <1>2, <1>3, <1>7, ValueEventType, Calls DEF GpioWriteLed
<1>8. CASE LogWrite
  BY <1>3, <1>8, SignalEventType, Calls, DataStutter DEF LogWrite
<1> QED
  BY <1>4, <1>5, <1>6, <1>7, <1>8

LEMMA StubCommandsType == StubCommands \subseteq Commands
<1>1. ASSUME NEW c \in [type : {"TARGET"}, value : Targets]
      PROVE  c \in Commands
  BY FirmwareAssumption DEF Commands, CommandTypes
<1>2. ASSUME NEW c \in [type : {"ENABLE", "DISABLE", "RESET"}, value : {0}]
      PROVE  c \in Commands
  BY DEF Commands, CommandTypes
<1> QED
  BY <1>1, <1>2 DEF StubCommands

LEMMA UartKeepsType ==
  ASSUME DataInv, UartRx
  PROVE  DataInv'
<1> USE DEF DataInv, DataTypeOK, BridgeTypeOK, globals, locals, mailbox
<1>1. CASE UartStub
  <2>2. command' = command \/ command' \in StubCommands
    BY <1>1 DEF UartStub
  <2>3. command' \in Commands
    BY <2>2, StubCommandsType
  <2> QED
    BY <1>1, <2>3 DEF UartStub, bridgeVars
<1>2. CASE UartPoll
  <2>1. SignalEvent("HEARTBEAT", COMM) \in Events
    BY SignalEventType DEF COMM, EventTypes
  <2> QED
    BY <1>2, <2>1, Calls, DataStutter DEF UartPoll
<1>3. CASE UartCheck \/ UartCopyType \/ UartCopyValue \/ UartEventType
  BY <1>3 DEF UartCheck, UartCopyType, UartCopyValue, UartEventType, Commands,
     bridgeVars
<1>4. CASE UartEvent
  <2>1. ValueEvent("COMM", COMM, event_type, dvr_command_value) \in Events
    <3>1. "COMM" \in EventTypes /\ COMM \in Int /\ event_type \in Subjects
      BY DEF COMM, EventTypes, Subjects
    <3> QED
      BY <3>1, ValueEventType
  <2> QED
    BY <1>4, <2>1, Calls DEF UartEvent
<1>5. CASE UartConsume
  BY <1>5 DEF UartConsume, CommandTypes
<1> QED
  BY <1>1, <1>2, <1>3, <1>4, <1>5 DEF UartRx

LEMMA LifeKeepsType ==
  ASSUME DataInv, NEW t \in Tasks,
         Spawn(t) \/ SpawnFails(t) \/ Finish(t)
  PROVE  DataInv'
<1>1. SignalEvent("TASK_DONE", t) \in Events
  BY SignalEventType, FirmwareAssumption DEF AllTasks, LOGGER, ALARM, EventTypes
<1> QED
  BY <1>1, Calls DEF Spawn, SpawnFails, Creation, Finish, SignalDone, Exit, DataInv, DataTypeOK,
     BridgeTypeOK, globals, locals, mailbox

LEMMA DriverKeepsType ==
  ASSUME DataInv, CommDriver, UNCHANGED <<globals, locals>>
  PROVE  DataInv'
<1>1. Script \in Seq(Commands) /\ Len(Script) \in Nat
  BY BridgeAssumption
<1>2. injected \in 0 .. Len(Script)
  BY DEF DataInv, BridgeTypeOK
<1>3. CASE InjectType
  <2>1. Script[injected + 1] \in Commands /\ injected + 1 \in 0 .. Len(Script)
    BY <1>1, <1>2, <1>3 DEF InjectType
  <2> QED
    BY <1>3, <2>1 DEF InjectType, Commands, DataInv, DataTypeOK, BridgeTypeOK,
       globals, locals
<1>4. CASE InjectValue
  <2>1. injected > 0
    BY <1>2, <1>4 DEF InjectValue, ValueWritten
  <2>2. Script[injected] \in Commands
    BY <1>1, <1>2, <2>1
  <2> QED
    BY <1>4, <2>2 DEF InjectValue, Commands, DataInv, DataTypeOK, BridgeTypeOK,
       globals, locals
<1> QED
  BY <1>3, <1>4 DEF CommDriver
=============================================================================
