---------------------------- MODULE SystemAProofs ----------------------------
(***************************************************************************)
(* The vulnerable firmware under the testbench: its races never disturb    *)
(* the hand-off of its events, and the torn reads they cause are the only  *)
(* thing the scoreboard's coherence check counts.  Then, with the clock    *)
(* and the two checkers that keep time: they are told what their own       *)
(* specifications assume, and the watchdog hears of every task.            *)
(***************************************************************************)
EXTENDS Supervised, ChannelProofs

-----------------------------------------------------------------------------
(***************************************************************************)
(* Types.                                                                  *)
(***************************************************************************)
LEMMA ThreadKeepsType ==
  ASSUME DataInv, NEW t \in Tasks, Thread(t)
  PROVE  DataInv'
<1>1. SENSOR = 3 /\ CONTROL = 2 /\ ALARM = 4 /\ LOGGER = 0
      /\ Readers = {LOGGER, CONTROL, ALARM}
  BY DEF SENSOR, CONTROL, ALARM, LOGGER, Readers
<1>2. CASE t = SENSOR /\ sensor_task
  BY <1>2, SensorStatements DEF sensor_task
<1>3. CASE t = CONTROL /\ control_task
  BY <1>1, <1>3, Loads, Stores, HalCalls DEF control_task
<1>4. CASE t = ALARM /\ alarm_task
  BY <1>1, <1>4, Loads, Stores, HalCalls DEF alarm_task
<1>5. CASE t = LOGGER /\ logger_task
  BY <1>1, <1>5, Loads, HalCalls DEF logger_task
<1>6. CASE t = COMM /\ comm_task
  <2>1. CommandTarget \in Int
    BY DEF CommandTarget, DataInv, DataTypeOK, Commands, TEMP_TARGET_DEFAULT, Eighths
  <2> QED
    BY <1>6, <2>1, Stores, UartKeepsType DEF comm_task
<1>7. CASE Finish(t)
  BY <1>7, LifeKeepsType
<1> QED
  BY <1>2, <1>3, <1>4, <1>5, <1>6, <1>7 DEF Thread

LEMMA ThreadKeepsWhere ==
  ASSUME WhereInv, NEW t \in Tasks, Thread(t)
  PROVE  WhereInv'
<1> USE GotoKeepsWhere, StayKeepsWhere, EndIterationKeepsWhere
    DEF Access, At, Stages, Places, Shared
<1>1. CASE t = SENSOR /\ sensor_task
  BY <1>1 DEF sensor_task
<1>2. CASE t = CONTROL /\ control_task
  BY <1>2 DEF control_task, ReportControlInputs, PwmSet, GpioWritePump
<1>3. CASE t = ALARM /\ alarm_task
  BY <1>3 DEF alarm_task, GpioWriteLed
<1>4. CASE t = LOGGER /\ logger_task
  BY <1>4 DEF logger_task, LogWrite
<1>5. CASE t = COMM /\ comm_task
  <2>1. CASE UartRx
    BY <1>5, <2>1 DEF UartRx, UartStub, UartPoll, UartCheck, UartCopyType,
       UartCopyValue, UartEventType, UartEvent, UartConsume, Dispatch
  <2> QED
    BY <1>5, <2>1 DEF comm_task
<1>6. CASE Finish(t)
  BY <1>6, LeaveKeepsWhere DEF Finish, SignalDone, Exit
<1> QED
  BY <1>1, <1>2, <1>3, <1>4, <1>5, <1>6 DEF Thread

(* A step of a thread is a step of a writer of the channel.                *)
LEMMA AccessSpeaks ==
  ASSUME WhereTypeOK, NEW t \in Tasks, NEW m \in Shared, place[t] = m,
         (\E s : Stay(t, s)) \/ Keeps(t), UNCHANGED bridgeVars
  PROVE  Speaks(t)
BY SharedIsRunning, StayKeeps DEF Speaks, Keeps, bridgeVars

LEMMA ThreadIsChannelStep ==
  ASSUME WhereTypeOK, NEW t \in Tasks, Thread(t)
  PROVE  ChannelStep(t)
<1> USE StayKeeps, GotoKeeps, EndIterationKeeps, AccessSpeaks DEF Access, At
<1>0. /\ Shared \subseteq Running /\ {"pwm", "gpio_pump", "gpio_led", "uart",
         "report", "log_write"} \subseteq Running \ {"done"}
      /\ {"sensor_data", "target_temp", "actuators", "alarm_state",
          "system_enabled"} \subseteq Shared /\ Shared \subseteq Running \ {"done"}
  BY DEF Running, Places, Shared
<1>1. CASE t = SENSOR /\ sensor_task
  <2>1. CASE Access(SENSOR, "sensor_data", "sample", "second") /\ SampleHumidity
    <3>1. /\ PairEvent("SENSOR", SENSOR, held).task_id = t
          /\ PairEvent("SENSOR", SENSOR, held).type # "TASK_DONE"
      BY <1>1 DEF PairEvent
    <3> QED
      BY <1>0, <1>1, <2>1, <3>1 DEF SampleHumidity, Speaks, Keeps, ChannelStep
  <2>2. CASE ~(Access(SENSOR, "sensor_data", "sample", "second") /\ SampleHumidity)
    <3>1. Speaks(t)
      BY <1>0, <1>1, <2>2 DEF sensor_task, StoreTemperature, StoreHumidity
    <3> QED
      BY <3>1 DEF ChannelStep
  <2> QED
    BY <2>1, <2>2
<1>2. CASE t = CONTROL /\ control_task
  <2>1. CASE ReportControlInputs
    <3>1. /\ PairEvent("CONTROL_IN", CONTROL, view[CONTROL]).task_id = t
          /\ PairEvent("CONTROL_IN", CONTROL, view[CONTROL]).type # "TASK_DONE"
      BY <1>2 DEF PairEvent
    <3> QED
      BY <1>0, <1>2, <2>1, <3>1, CallSpeaks DEF ReportControlInputs, ChannelStep
  <2>2. CASE PwmSet \/ GpioWritePump
    <3>1. \A of, value : /\ ValueEvent("PWM", CONTROL, of, value).task_id = t
                         /\ ValueEvent("PWM", CONTROL, of, value).type # "TASK_DONE"
                         /\ ValueEvent("GPIO", CONTROL, of, value).task_id = t
                         /\ ValueEvent("GPIO", CONTROL, of, value).type # "TASK_DONE"
      BY <1>2 DEF ValueEvent
    <3> QED
      BY <1>0, <1>2, <2>2, <3>1, CallSpeaks DEF PwmSet, GpioWritePump, ChannelStep
  <2>3. CASE ~(ReportControlInputs \/ PwmSet \/ GpioWritePump)
    <3>1. Speaks(t)
      BY <1>0, <1>2, <2>3
         DEF control_task, LoadTemperature, LoadHumidity, LoadTarget, StorePump,
             StoreFan
    <3> QED
      BY <3>1 DEF ChannelStep
  <2> QED
    BY <2>1, <2>2, <2>3
<1>3. CASE t = ALARM /\ alarm_task
  <2>1. CASE GpioWriteLed
    <3>1. \A of, value : /\ ValueEvent("GPIO", ALARM, of, value).task_id = t
                         /\ ValueEvent("GPIO", ALARM, of, value).type # "TASK_DONE"
      BY <1>3 DEF ValueEvent
    <3> QED
      BY <1>0, <1>3, <2>1, <3>1, CallSpeaks DEF GpioWriteLed, ChannelStep
  <2>2. CASE ~GpioWriteLed
    <3>1. Speaks(t)
      BY <1>0, <1>3, <2>2 DEF alarm_task, LoadTemperature, LoadHumidity, StoreAlarm
    <3> QED
      BY <3>1 DEF ChannelStep
  <2> QED
    BY <2>1, <2>2
<1>4. CASE t = LOGGER /\ logger_task
  <2>1. CASE LogWrite
    <3>1. /\ SignalEvent("LOG", LOGGER).task_id = t
          /\ SignalEvent("LOG", LOGGER).type # "TASK_DONE"
      BY <1>4 DEF SignalEvent, ValueEvent
    <3> QED
      BY <1>0, <1>4, <2>1, <3>1, CallSpeaks
         DEF LogWrite, ChannelStep, Speaks, Keeps, bridgeVars
  <2>2. CASE ~LogWrite
    <3>1. Speaks(t)
      BY <1>0, <1>4, <2>2
         DEF logger_task, LoadTemperature, LoadHumidity, LogPump, LogFan, LogAlarm
    <3> QED
      BY <3>1 DEF ChannelStep
  <2> QED
    BY <2>1, <2>2
<1>5. CASE t = COMM /\ comm_task
  <2>1. CASE UartRx
    BY <1>5, <2>1, UartSpeaks DEF ChannelStep
  <2>2. CASE ~UartRx
    <3>1. Speaks(t)
      BY <1>0, <1>5, <2>2 DEF comm_task, StoreTarget, StoreEnabled
    <3> QED
      BY <3>1 DEF ChannelStep
  <2> QED
    BY <2>1, <2>2
<1>6. CASE Finish(t)
  BY <1>6 DEF Finish, ChannelStep
<1> QED
  BY <1>1, <1>2, <1>3, <1>4, <1>5, <1>6 DEF Thread

-----------------------------------------------------------------------------
(***************************************************************************)
(* The firmware's invariant and the bridge's, together.                    *)
(***************************************************************************)
RunInv == WhereInv /\ DataInv /\ ChannelInv

LEMMA RunInvTypes == RunInv => ChannelTypes /\ ChannelInv /\ FirmwareTypeOK
BY DEF RunInv, WhereInv, DataInv, ChannelTypes, FirmwareTypeOK

LEMMA RunInvInit == SystemAInit => RunInv
<1> SUFFICES ASSUME SystemAInit
             PROVE  RunInv
  OBVIOUS
<1>1. WhereInv
  BY FirmwareAssumption DEF SystemAInit, FirmwareInit, WhereInv, WhereTypeOK,
     LoopsLeft, Places, Stages, AllTasks
<1>2. DataTypeOK
  BY DEF SystemAInit, FirmwareInit, DataTypeOK, NoPair, Pairs,
     TEMP_TARGET_DEFAULT, Eighths, AlarmLevels, FAN_SPEED_MAX, Commands,
     CommandTypes
<1>3. Len(Script) \in Nat
  BY BridgeAssumption
<1>4. BridgeTypeOK
  BY <1>3 DEF SystemAInit, FirmwareInit, BridgeInit, BridgeTypeOK, CommandTypes
<1> QED
  BY <1>1, <1>2, <1>4, ChannelInvInit DEF SystemAInit, RunInv, DataInv

LEMMA SystemKeepsTypes ==
  ASSUME RunInv, [SystemANext]_systemAVars
  PROVE  WhereInv' /\ DataInv'
<1>1. ASSUME NEW t \in Tasks, Dut(t)
      PROVE  WhereInv' /\ DataInv'
  BY <1>1, ThreadKeepsWhere, ThreadKeepsType DEF Dut, RunInv
<1>2. ASSUME NEW t \in Tasks, Spawn(t) \/ SpawnFails(t)
      PROVE  WhereInv' /\ DataInv'
  <2>1. WhereInv'
    BY <1>2, GotoKeepsWhere DEF RunInv, Spawn, SpawnFails, Creation, Start, Places, Shared
  <2> QED
    BY <1>2, <2>1, LifeKeepsType DEF RunInv
<1>3. CASE (StartPolling \/ Poller) /\ UNCHANGED <<where, globals, locals>>
  <2>1. WhereInv'
    BY <1>3 DEF RunInv, WhereInv, WhereTypeOK, LoopsLeft, where
  <2>2. BridgeTypeOK'
    BY <1>3, PollerKeepsBridge DEF RunInv, DataInv
  <2> QED
    BY <1>3, <2>1, <2>2 DEF RunInv, DataInv, DataTypeOK, globals, locals
<1>4. CASE Driver
  <2>1. WhereInv'
    BY <1>4 DEF Driver, RunInv, WhereInv, WhereTypeOK, LoopsLeft, where
  <2> QED
    BY <1>4, <2>1, DriverKeepsType DEF Driver, RunInv
<1>5. CASE UNCHANGED systemAVars
  <2>1. UNCHANGED <<where, globals, locals, bridgeVars>>
    BY <1>5 DEF systemAVars, firmwareVars
  <2>2. WhereInv'
    BY <2>1 DEF RunInv, WhereInv, WhereTypeOK, LoopsLeft, where
  <2> QED
    BY <2>1, <2>2, DataStutter DEF RunInv
<1> QED
  BY <1>1, <1>2, <1>3, <1>4, <1>5
     DEF SystemANext, Bridge, RunPhase, CreateThreads, Joined

(* What the driver, and a step that does nothing, leave alone.             *)
LEMMA QuietSteps ==
  ASSUME Driver \/ UNCHANGED systemAVars
  PROVE  UNCHANGED <<where, queue, active, batch, poller>>
BY DEF Driver, CommDriver, InjectType, InjectValue, systemAVars, firmwareVars,
   bridgeVars, dutBridgeVars

LEMMA RunInvNext ==
  ASSUME RunInv, [SystemANext]_systemAVars
  PROVE  RunInv'
<1>1. WhereInv' /\ DataInv' /\ ChannelTypes'
  BY SystemKeepsTypes DEF WhereInv, DataInv, ChannelTypes
<1>2. ASSUME NEW t \in Tasks, Dut(t)
      PROVE  RunInv'
  BY <1>1, <1>2, RunInvTypes, ThreadIsChannelStep, ThreadKeepsChannel
     DEF Dut, ChannelTypes, RunInv
<1>3. CASE Bridge
  BY <1>1, <1>3, RunInvTypes, CreationKeepsChannel, PollerKeepsChannel
     DEF Bridge, RunPhase, RunInv
<1>4. CASE Driver \/ UNCHANGED systemAVars
  BY <1>1, <1>4, RunInvTypes, QuietSteps, IdleKeepsChannel DEF RunInv
<1> QED
  BY <1>2, <1>3, <1>4 DEF SystemANext, Joined

(***************************************************************************)
(* The races of the vulnerable build leave every variable within its type: *)
(* a torn pair is still a pair, the fan duty stays in 0 .. 100.            *)
(***************************************************************************)
THEOREM FirmwareTyped == SystemASpec => []FirmwareTypeOK
<1>1. RunInv => FirmwareTypeOK
  BY RunInvTypes
<1> QED
  BY <1>1, RunInvInit, RunInvNext, PTL DEF SystemASpec

(***************************************************************************)
(* The vulnerable firmware's events all arrive before the threads are      *)
(* joined, whatever its races do and whatever creation fails.              *)
(***************************************************************************)
THEOREM EverythingIsDelivered == SystemASpec => []NothingLeftBehind
<1>1. RunInv => NothingLeftBehind
  BY RunInvTypes, ChannelInvImplies
<1> QED
  BY <1>1, RunInvInit, RunInvNext, PTL DEF SystemASpec

(***************************************************************************)
(* The vulnerable firmware under the bridge implements the event channel.  *)
(***************************************************************************)
THEOREM ChannelIsImplemented == SystemASpec => ImplementsChannel
<1>1. SystemAInit => Channel!Init
  BY ChannelInit DEF SystemAInit
<1>2. ASSUME RunInv, RunInv', [SystemANext]_systemAVars
      PROVE  [Channel!Next]_(Channel!vars)
  <2>1. ASSUME NEW t \in Tasks, Dut(t)
        PROVE  [Channel!Next]_(Channel!vars)
    <3>1. ChannelTypes'
      BY <1>2 DEF RunInv, WhereInv, DataInv, ChannelTypes
    <3> QED
      BY <1>2, <2>1, <3>1, RunInvTypes, ThreadIsChannelStep, ThreadIsChannelNext
         DEF Dut, ChannelTypes
  <2>2. CASE Bridge
    BY <1>2, <2>2, RunInvTypes, CreationIsStutter, PollerIsChannelNext
       DEF Bridge, RunPhase
  <2>3. CASE Driver \/ UNCHANGED systemAVars
    BY <2>3, QuietSteps, IdleIsStutter
  <2> QED
    BY <1>2, <2>1, <2>2, <2>3 DEF SystemANext, Joined
<1> QED
  BY <1>1, <1>2, RunInvInit, RunInvNext, PTL
     DEF SystemASpec, ImplementsChannel, Channel!Spec

-----------------------------------------------------------------------------
(***************************************************************************)
(* No false alarm.  What control_task reports need not be one reading, but *)
(* the humidity in it belongs to a reading that was pushed before it was   *)
(* stored.  When no two readings share a humidity, a pair that is a        *)
(* reading is that one, and the scoreboard knows it.                       *)
(***************************************************************************)
Scope == Readings \cup {NoPair}

HumidityKnown(h) == \E p \in Scope : p.humidity = h /\ Known(p)

(* sensor_task has pushed its reading and not yet stored the humidity.     *)
Sampled == place[SENSOR] = "sensor_data" /\ stage[SENSOR] = "second"

(* control_task has read the pair and not yet reported it.                 *)
Consuming == place[CONTROL] \in {"target_temp", "report"}

TornInv ==
  /\ InOrder(Stream, seen_pairs, Scope)
  /\ held \in Scope
  /\ HumidityKnown(sensor_data.humidity)
  /\ Sampled => Known(held)
  /\ Consuming => HumidityKnown(view[CONTROL].humidity)

(* A step that says nothing about humidities.                              *)
Neutral ==
  /\ sensor_data'.humidity = sensor_data.humidity
  /\ held' = held
  /\ view'[CONTROL].humidity = view[CONTROL].humidity
  /\ Sampled' => Sampled
  /\ Consuming' => Consuming
  /\ \/ queue' = queue
     \/ \E e : e.type \notin {"SENSOR", "CONTROL_IN"} /\ Push(e)

TornStep ==
  \/ Neutral
  \/ Access(SENSOR, "sensor_data", "first", "sample") /\ StoreTemperature
  \/ Access(SENSOR, "sensor_data", "sample", "second") /\ SampleHumidity
  \/ /\ At(SENSOR, "sensor_data", "second")
     /\ StoreHumidity
     /\ EndIteration(SENSOR)
  \/ /\ At(CONTROL, "sensor_data", "second")
     /\ LoadHumidity(CONTROL)
     /\ Goto(CONTROL, "target_temp")
  \/ ReportControlInputs

(* A thread moves nobody but itself.                                       *)
Moves(t) ==
  \A u \in AllTasks : u # t => place'[u] = place[u] /\ stage'[u] = stage[u]

LEMMA StepMoves ==
  ASSUME WhereTypeOK, NEW t \in Tasks,
         (\E p : Goto(t, p)) \/ EndIteration(t) \/ (\E s : Stay(t, s))
  PROVE  Moves(t)
BY FirmwareAssumption DEF WhereTypeOK, Moves, Goto, EndIteration, Stay

LEMMA TaskNumbers ==
  /\ {LOGGER, COMM, CONTROL, SENSOR, ALARM} \subseteq AllTasks
  /\ LOGGER # SENSOR /\ LOGGER # CONTROL /\ COMM # SENSOR /\ COMM # CONTROL
  /\ ALARM # SENSOR /\ ALARM # CONTROL /\ SENSOR # CONTROL
  /\ {LOGGER, ALARM, CONTROL} = Readers
BY DEF AllTasks, LOGGER, COMM, CONTROL, SENSOR, ALARM, Readers

LEMMA OthersMove ==
  ASSUME RunInv, NEW t \in Tasks, t # SENSOR, t # CONTROL, Thread(t)
  PROVE  Moves(t)
<1> USE StepMoves DEF Access, RunInv, WhereInv
<1>1. CASE t = ALARM /\ alarm_task
  BY <1>1 DEF alarm_task, GpioWriteLed
<1>2. CASE t = LOGGER /\ logger_task
  BY <1>2 DEF logger_task, LogWrite
<1>3. CASE t = COMM /\ comm_task
  BY <1>3 DEF comm_task, UartRx, UartStub, UartPoll, UartCheck, UartCopyType,
     UartCopyValue, UartEventType, UartEvent, UartConsume, Dispatch
<1>4. CASE Finish(t)
  BY <1>4 DEF Finish, SignalDone, Exit
<1> QED
  BY <1>1, <1>2, <1>3, <1>4 DEF Thread

(* What a thread other than these two leaves alone, and what it pushes.    *)
LEMMA OthersLeaveHumidity ==
  ASSUME RunInv, NEW t \in Tasks, t # SENSOR, t # CONTROL, Thread(t)
  PROVE  /\ UNCHANGED <<sensor_data, held, view[CONTROL]>>
         /\ \/ queue' = queue
            \/ \E e : e.type \notin {"SENSOR", "CONTROL_IN"} /\ Push(e)
<1>0. view \in [Readers -> Pairs]
  BY DEF RunInv, DataInv, DataTypeOK
<1>1. CASE t = ALARM /\ alarm_task
  <2>1. UNCHANGED <<sensor_data, held, view[CONTROL]>>
    BY <1>0, <1>1, TaskNumbers DEF alarm_task, LoadTemperature, LoadHumidity,
       StoreAlarm, GpioWriteLed, Call, globals, locals
  <2>2. \/ queue' = queue
        \/ \E e : e.type \notin {"SENSOR", "CONTROL_IN"} /\ Push(e)
    BY <1>1 DEF alarm_task, LoadTemperature, LoadHumidity,
       StoreAlarm, GpioWriteLed, Call, bridgeVars, ValueEvent
  <2> QED
    BY <2>1, <2>2
<1>2. CASE t = LOGGER /\ logger_task
  <2>1. UNCHANGED <<sensor_data, held, view[CONTROL]>>
    BY <1>0, <1>2, TaskNumbers DEF logger_task, LoadTemperature, LoadHumidity,
       LogPump, LogFan, LogAlarm, LogWrite, Call, globals, locals
  <2>2. \/ queue' = queue
        \/ \E e : e.type \notin {"SENSOR", "CONTROL_IN"} /\ Push(e)
    BY <1>2 DEF logger_task, LoadTemperature, LoadHumidity,
       LogPump, LogFan, LogAlarm, LogWrite, Call, bridgeVars, SignalEvent, ValueEvent
  <2> QED
    BY <2>1, <2>2
<1>3. CASE t = COMM /\ comm_task
  <2>1. UNCHANGED <<sensor_data, held, view>>
    BY <1>3 DEF comm_task, StoreTarget, StoreEnabled, UartRx, UartStub, UartPoll,
       UartCheck, UartCopyType, UartCopyValue, UartEventType, UartEvent,
       UartConsume, Call, globals, locals
  <2>2. \/ queue' = queue
        \/ \E e : e.type \notin {"SENSOR", "CONTROL_IN"} /\ Push(e)
    BY <1>3 DEF comm_task, StoreTarget, StoreEnabled, UartRx, UartStub, UartPoll,
       UartCheck, UartCopyType, UartCopyValue, UartEventType, UartEvent,
       UartConsume, Call, bridgeVars, SignalEvent, ValueEvent
  <2> QED
    BY <2>1, <2>2
<1>4. CASE Finish(t)
  BY <1>4 DEF Finish, SignalDone, Exit, Call, globals, locals, SignalEvent,
     ValueEvent
<1> QED
  BY <1>1, <1>2, <1>3, <1>4 DEF Thread

LEMMA OthersAreNeutral ==
  ASSUME RunInv, NEW t \in Tasks, t # SENSOR, t # CONTROL, Thread(t)
  PROVE  Neutral
<1>1. Moves(t)
  BY OthersMove
<1>2. (Sampled' => Sampled) /\ (Consuming' => Consuming)
  BY <1>1, TaskNumbers DEF Moves, Sampled, Consuming
<1> QED
  BY <1>2, OthersLeaveHumidity DEF Neutral

LEMMA SensorIsTornStep ==
  ASSUME RunInv, SENSOR \in Tasks, Thread(SENSOR)
  PROVE  TornStep
<1>1. CASE sensor_task
  BY <1>1 DEF sensor_task, TornStep
<1>2. CASE Finish(SENSOR)
  <2>1. UNCHANGED <<sensor_data, held, view>>
    BY <1>2 DEF Finish, SignalDone, Exit, Call, globals, locals
  <2>2. \/ queue' = queue
        \/ \E e : e.type \notin {"SENSOR", "CONTROL_IN"} /\ Push(e)
    BY <1>2 DEF Finish, SignalDone, Exit, Call, SignalEvent, ValueEvent
  <2>3. /\ place'[SENSOR] \in {"exit", "returned"}
        /\ place'[CONTROL] = place[CONTROL]
    BY <1>2, TaskNumbers DEF Finish, SignalDone, Exit, Goto, RunInv, WhereInv,
       WhereTypeOK
  <2> QED
    BY <2>1, <2>2, <2>3 DEF TornStep, Neutral, Sampled, Consuming
<1> QED
  BY <1>1, <1>2, TaskNumbers DEF Thread, SENSOR, ALARM, LOGGER, COMM, CONTROL

LEMMA ControlIsTornStep ==
  ASSUME RunInv, CONTROL \in Tasks, Thread(CONTROL)
  PROVE  TornStep
<1>0. /\ place \in [AllTasks -> Places] /\ stage \in [AllTasks -> Stages]
      /\ view \in [Readers -> Pairs]
  BY DEF RunInv, WhereInv, WhereTypeOK, DataInv, DataTypeOK
<1>1. ASSUME ReportControlInputs \/ (/\ At(CONTROL, "sensor_data", "second")
                                     /\ LoadHumidity(CONTROL)
                                     /\ Goto(CONTROL, "target_temp"))
      PROVE  TornStep
  BY <1>1 DEF TornStep
<1>2. CASE Access(CONTROL, "sensor_data", "first", "second") /\ LoadTemperature(CONTROL)
  <2>1. view'[CONTROL].humidity = view[CONTROL].humidity
    BY <1>0, <1>2, TaskNumbers DEF LoadTemperature, Pairs
  <2>2. (Sampled' => Sampled) /\ (Consuming' => Consuming)
    BY <1>0, <1>2, TaskNumbers DEF Access, Stay, Sampled, Consuming
  <2> QED
    BY <1>2, <2>1, <2>2 DEF TornStep, Neutral, LoadTemperature, globals, bridgeVars
<1>3. CASE \/ At(CONTROL, "target_temp", "first") /\ LoadTarget /\ Goto(CONTROL, "report")
           \/ Access(CONTROL, "actuators", "first", "second") /\ StorePump
           \/ At(CONTROL, "actuators", "second") /\ StoreFan /\ Goto(CONTROL, "pwm")
  <2>1. UNCHANGED <<sensor_data, held, view, queue>>
    BY <1>3 DEF LoadTarget, StorePump, StoreFan, globals, locals, bridgeVars
  <2>2. (Sampled' => Sampled) /\ (Consuming' => Consuming)
    BY <1>0, <1>3, TaskNumbers DEF Access, At, Stay, Goto, Sampled, Consuming
  <2> QED
    BY <2>1, <2>2 DEF TornStep, Neutral
<1>4. CASE PwmSet \/ GpioWritePump \/ Finish(CONTROL)
  <2>1. UNCHANGED <<sensor_data, held, view>>
    BY <1>4 DEF PwmSet, GpioWritePump, Finish, SignalDone, Exit, Call, globals, locals
  <2>2. \/ queue' = queue
        \/ \E e : e.type \notin {"SENSOR", "CONTROL_IN"} /\ Push(e)
    BY <1>4 DEF PwmSet, GpioWritePump, Finish, SignalDone, Exit, Call,
       SignalEvent, ValueEvent
  <2>3. Moves(CONTROL)
    BY <1>4, StepMoves DEF PwmSet, GpioWritePump, Finish, SignalDone, Exit, RunInv,
       WhereInv
  <2>4. place'[CONTROL] \notin {"target_temp", "report"}
    BY <1>0, <1>4, TaskNumbers
       DEF PwmSet, GpioWritePump, Finish, SignalDone, Exit, Goto, EndIteration, Start
  <2> QED
    BY <2>1, <2>2, <2>3, <2>4, TaskNumbers
       DEF TornStep, Neutral, Moves, Sampled, Consuming
<1> QED
  BY <1>1, <1>2, <1>3, <1>4 DEF Thread, control_task, SENSOR, ALARM, LOGGER, COMM,
     CONTROL

LEMMA ThreadIsTornStep ==
  ASSUME RunInv, NEW t \in Tasks, Thread(t)
  PROVE  TornStep
BY OthersAreNeutral, SensorIsTornStep, ControlIsTornStep DEF TornStep

(* A pushed event that is neither of the two kinds, and the two kinds.     *)
LEMMA PushKeepsTorn ==
  ASSUME RunInv, TornInv, queue' \in Seq(Events), UNCHANGED <<batch, seen_pairs>>,
         NEW e, Push(e),
         e.type = "CONTROL_IN" /\ e.pair \in Scope => Known(e.pair)
  PROVE  /\ InOrder(Stream', seen_pairs', Scope)
         /\ \A pair : Known(pair) => Known(pair)'
         /\ e.type = "SENSOR" /\ "SENSOR" \in Registered
              => KnownAt(Stream', seen_pairs', e.pair, Len(Stream'))
BY PushedEvent DEF RunInv, ChannelInv, DataInv, BridgeTypeOK, TornInv, Known

LEMMA NeutralKeepsTorn ==
  ASSUME RunInv, TornInv, queue' \in Seq(Events), Neutral, UNCHANGED dutBridgeVars
  PROVE  TornInv'
<1>1. UNCHANGED <<batch, seen_pairs>>
  BY DEF dutBridgeVars, scoreboardVars
<1>2. /\ InOrder(Stream', seen_pairs', Scope)
      /\ \A pair : Known(pair) => Known(pair)'
  <2>1. CASE queue' = queue
    BY <1>1, <2>1 DEF Stream, Known, TornInv
  <2>2. ASSUME NEW e, e.type \notin {"SENSOR", "CONTROL_IN"}, Push(e)
        PROVE  /\ InOrder(Stream', seen_pairs', Scope)
               /\ \A pair : Known(pair) => Known(pair)'
    BY <1>1, <2>2, PushKeepsTorn
  <2> QED
    BY <2>1, <2>2 DEF Neutral
<1> HIDE DEF Known
<1> QED
  BY <1>2 DEF TornInv, Neutral, HumidityKnown

(* The reading is known from its push on, and stored after it.             *)
LEMMA ThreadKeepsTorn ==
  ASSUME "SENSOR" \in Registered,
         \A p, q \in Scope : p.humidity = q.humidity => p = q,
         RunInv, TornInv, queue' \in Seq(Events), TornStep, UNCHANGED dutBridgeVars
  PROVE  TornInv'
<1>0. /\ place \in [AllTasks -> Places] /\ stage \in [AllTasks -> Stages]
      /\ sensor_data \in Pairs /\ held \in Pairs /\ view \in [Readers -> Pairs]
      /\ UNCHANGED <<batch, seen_pairs>>
  BY DEF RunInv, WhereInv, WhereTypeOK, DataInv, DataTypeOK, dutBridgeVars,
     scoreboardVars
<1>1. ASSUME UNCHANGED queue
      PROVE  Stream' = Stream /\ \A pair : Known(pair)' <=> Known(pair)
  BY <1>0, <1>1 DEF Stream, Known
<1>2. CASE Neutral
  BY <1>2, NeutralKeepsTorn
<1>3. CASE Access(SENSOR, "sensor_data", "first", "sample") /\ StoreTemperature
  <2>1. /\ held' \in Scope /\ sensor_data'.humidity = sensor_data.humidity
        /\ UNCHANGED <<view, queue>>
    BY <1>0, <1>3 DEF StoreTemperature, Scope, Pairs, bridgeVars
  <2>2. ~Sampled' /\ (Consuming' => Consuming)
    BY <1>0, <1>3, TaskNumbers DEF Access, Stay, Sampled, Consuming
  <2> HIDE DEF Known
  <2> QED
    BY <1>0, <1>1, <2>1, <2>2 DEF TornInv, HumidityKnown
<1>4. CASE Access(SENSOR, "sensor_data", "sample", "second") /\ SampleHumidity
  <2> DEFINE e == PairEvent("SENSOR", SENSOR, held)
  <2>1. Push(e) /\ UNCHANGED <<held, view, sensor_data>>
    BY <1>4 DEF SampleHumidity, globals, locals
  <2>2. e.type = "SENSOR" /\ e.pair = held
    BY DEF PairEvent
  <2>3. Consuming' => Consuming
    BY <1>0, <1>4, TaskNumbers DEF Access, Stay, Consuming
  <2> HIDE DEF e, Known
  <2>4. /\ InOrder(Stream', seen_pairs', Scope)
        /\ \A pair : Known(pair) => Known(pair)'
        /\ Known(held)'
    <3>1. KnownAt(Stream', seen_pairs', e.pair, Len(Stream'))
      BY <1>0, <2>1, <2>2, PushKeepsTorn
    <3>2. Known(held)'
      BY <2>1, <2>2, <3>1 DEF Known
    <3> QED
      BY <1>0, <2>1, <2>2, <3>2, PushKeepsTorn
  <2> QED
    BY <2>1, <2>3, <2>4 DEF TornInv, HumidityKnown
<1>5. CASE /\ At(SENSOR, "sensor_data", "second")
           /\ StoreHumidity
           /\ EndIteration(SENSOR)
  <2>1. /\ sensor_data'.humidity = held.humidity
        /\ UNCHANGED <<held, view, queue>>
    BY <1>0, <1>5 DEF StoreHumidity, Pairs, locals, bridgeVars
  <2>2. Sampled /\ Known(held)
    BY <1>5 DEF At, Sampled, TornInv
  <2>3. ~Sampled' /\ (Consuming' => Consuming)
    BY <1>0, <1>5, TaskNumbers, GroupAAssumption
       DEF EndIteration, Start, Entry, Sampled, Consuming, Shared
  <2> HIDE DEF Known
  <2> QED
    BY <1>0, <1>1, <2>1, <2>2, <2>3 DEF TornInv, HumidityKnown
<1>6. CASE /\ At(CONTROL, "sensor_data", "second")
           /\ LoadHumidity(CONTROL)
           /\ Goto(CONTROL, "target_temp")
  <2>1. /\ view'[CONTROL].humidity = sensor_data.humidity
        /\ UNCHANGED <<held, sensor_data, queue>>
    BY <1>0, <1>6, TaskNumbers DEF LoadHumidity, Pairs, globals, bridgeVars
  <2>2. Sampled' => Sampled
    BY <1>0, <1>6, TaskNumbers DEF Goto, Sampled
  <2> HIDE DEF Known
  <2> QED
    BY <1>0, <1>1, <2>1, <2>2 DEF TornInv, HumidityKnown
<1>7. CASE ReportControlInputs
  <2> DEFINE e == PairEvent("CONTROL_IN", CONTROL, view[CONTROL])
  <2>1. Push(e) /\ UNCHANGED <<held, view, sensor_data>>
    BY <1>7 DEF ReportControlInputs, Call, globals, locals
  <2>2. e.type = "CONTROL_IN" /\ e.pair = view[CONTROL]
    BY DEF PairEvent
  <2>3. Consuming /\ ~Consuming' /\ (Sampled' => Sampled)
    BY <1>0, <1>7, TaskNumbers DEF ReportControlInputs, At, Goto, Sampled, Consuming
  <2> HIDE DEF e, Known
  <2>4. view[CONTROL] \in Scope => Known(view[CONTROL])
    BY <2>3 DEF TornInv, HumidityKnown
  <2>5. /\ InOrder(Stream', seen_pairs', Scope)
        /\ \A pair : Known(pair) => Known(pair)'
    BY <1>0, <2>1, <2>2, <2>4, PushKeepsTorn
  <2> QED
    BY <2>1, <2>3, <2>5 DEF TornInv, HumidityKnown
<1> QED
  BY <1>2, <1>3, <1>4, <1>5, <1>6, <1>7 DEF TornStep

(***************************************************************************)
(* The steps of the testbench.                                             *)
(***************************************************************************)
LEMMA DeliverKeepsTorn ==
  ASSUME RunInv, TornInv, Deliver, UNCHANGED <<where, globals, locals>>
  PROVE  /\ TornInv'
         /\ torn_reads' # torn_reads => Head(batch).pair \notin Scope
<1>1. /\ batch \in Seq(Events) /\ queue \in Seq(Events) /\ batch # <<>>
      /\ InOrder(Stream, seen_pairs, Scope)
  BY DEF Deliver, RunInv, ChannelInv, DataInv, BridgeTypeOK, TornInv
<1>2. /\ UNCHANGED <<queue, where, sensor_data, held, view>>
      /\ batch' = Tail(batch) /\ WriteEvent(Head(batch))
  BY DEF Deliver, bridgeVars, globals, locals
<1>3. /\ Stream \in Seq(Events) /\ Stream # <<>>
      /\ Head(Stream) = Head(batch)
      /\ Stream' = Tail(Stream)
  BY <1>1, <1>2, StreamOf DEF Stream
<1>4. /\ seen_pairs \subseteq seen_pairs'
      /\ Head(Stream).type = "SENSOR" => Head(Stream).pair \in seen_pairs'
      /\ torn_reads' = torn_reads
           \/ /\ Head(Stream).type = "CONTROL_IN"
              /\ Head(Stream).pair \notin seen_pairs
  BY <1>2, <1>3, WriteSeen
<1> HIDE DEF Stream
<1>5. /\ \A pair : Known(pair)
           => KnownAt(Stream', seen_pairs', pair, Len(Stream'))
      /\ InOrder(Stream', seen_pairs', Scope)
      /\ torn_reads' # torn_reads => Head(Stream).pair \notin Scope
  BY <1>1, <1>3, <1>4, DeliveredEvent DEF Known
<1>6. \A pair : Known(pair) => Known(pair)'
  BY <1>5 DEF Known
<1>7. (Sampled' <=> Sampled) /\ (Consuming' <=> Consuming)
  BY <1>2 DEF where, Sampled, Consuming
<1> HIDE DEF Known
<1>8. TornInv'
  BY <1>2, <1>5, <1>6, <1>7 DEF TornInv, HumidityKnown
<1> QED
  BY <1>3, <1>5, <1>8

LEMMA SwapKeepsTorn ==
  ASSUME RunInv, TornInv, DrainSwap, UNCHANGED <<where, globals, locals>>
  PROVE  TornInv'
<1>1. batch = <<>> /\ queue \in Seq(Events)
  BY DEF DrainSwap, RunInv, ChannelInv, DataInv, BridgeTypeOK
<1>2. /\ batch' = queue /\ queue' = <<>>
      /\ UNCHANGED <<where, sensor_data, held, view, seen_pairs>>
  BY DEF DrainSwap, globals, locals, scoreboardVars
<1>3. Stream' = Stream
  BY <1>1, <1>2, StreamOf DEF Stream
<1>4. \A pair : Known(pair) <=> Known(pair)'
  BY <1>2, <1>3 DEF Known
<1>5. (Sampled' <=> Sampled) /\ (Consuming' <=> Consuming)
  BY <1>2 DEF where, Sampled, Consuming
<1> HIDE DEF Known
<1> QED
  BY <1>2, <1>3, <1>4, <1>5 DEF TornInv, HumidityKnown

LEMMA IdleKeepsTorn ==
  ASSUME TornInv,
         UNCHANGED <<where, sensor_data, held, view, queue, batch, seen_pairs>>
  PROVE  TornInv'
<1>1. /\ Stream' = Stream /\ (Sampled' <=> Sampled) /\ (Consuming' <=> Consuming)
      /\ \A pair : Known(pair) <=> Known(pair)'
  BY DEF where, Stream, Known, Sampled, Consuming
<1> HIDE DEF Known
<1> QED
  BY <1>1 DEF TornInv, HumidityKnown

LEMMA TornInvInit == SystemAInit => TornInv
<1> SUFFICES ASSUME SystemAInit
             PROVE  TornInv
  OBVIOUS
<1>1. /\ queue = <<>> /\ batch = <<>> /\ sensor_data = NoPair /\ held = NoPair
      /\ place[SENSOR] \in {"unspawned", "returned"}
      /\ place[CONTROL] \in {"unspawned", "returned"}
      /\ NoPair \in seen_pairs
  BY TaskNumbers DEF SystemAInit, FirmwareInit, BridgeInit, DutBridgeInit,
     ScoreboardInit, NoPair
<1>2. <<>> \in Seq(Events) /\ Len(<<>>) = 0 /\ <<>> \o <<>> = <<>>
  BY StreamOf
<1>3. InOrder(Stream, seen_pairs, Scope)
  BY <1>1, <1>2 DEF InOrder, Stream
<1>4. Known(NoPair) /\ NoPair \in Scope
  BY <1>1 DEF Known, KnownAt, Scope
<1> HIDE DEF Known
<1> QED
  BY <1>1, <1>3, <1>4 DEF TornInv, HumidityKnown, Sampled, Consuming

LEMMA TornInvNext ==
  ASSUME "SENSOR" \in Registered,
         \A p, q \in Scope : p.humidity = q.humidity => p = q,
         RunInv, RunInv', TornInv, [SystemANext]_systemAVars
  PROVE  /\ TornInv'
         /\ torn_reads' # torn_reads => Head(batch).pair \notin Scope
<1> DEFINE Goal == /\ TornInv'
                   /\ torn_reads' # torn_reads => Head(batch).pair \notin Scope
<1>0. queue' \in Seq(Events)
  BY DEF RunInv, DataInv, BridgeTypeOK
<1>1. ASSUME NEW t \in Tasks, Dut(t)
      PROVE  Goal
  BY <1>0, <1>1, ThreadIsTornStep, ThreadKeepsTorn
     DEF Dut, dutBridgeVars, scoreboardVars
<1>2. ASSUME NEW t \in Tasks, Spawn(t) \/ SpawnFails(t), UNCHANGED dutBridgeVars
      PROVE  Goal
  <2>1. /\ UNCHANGED <<sensor_data, held, view, queue>>
    BY <1>2 DEF Spawn, SpawnFails, Creation, globals, locals
  <2>2. place'[t] \notin {"target_temp", "report"} /\ stage'[t] # "second"
    BY <1>2, FirmwareAssumption, GroupAAssumption DEF Spawn, SpawnFails, Creation,
       Goto, Entry, Start, Shared, RunInv, WhereInv, WhereTypeOK
  <2>3. Moves(t)
    BY <1>2, StepMoves DEF Spawn, SpawnFails, Creation, RunInv, WhereInv
  <2>4. Neutral
    BY <2>1, <2>2, <2>3, TaskNumbers DEF Neutral, Moves, Sampled, Consuming
  <2> QED
    BY <1>0, <1>2, <2>4, NeutralKeepsTorn DEF dutBridgeVars, scoreboardVars
<1>3. CASE (StartPolling \/ Poller) /\ UNCHANGED <<where, globals, locals>>
  <2>1. CASE Deliver
    BY <1>3, <2>1, DeliverKeepsTorn
  <2>2. CASE DrainSwap
    BY <1>3, <2>2, SwapKeepsTorn DEF DrainSwap, scoreboardVars
  <2>3. CASE StartPolling \/ CheckActive \/ EndDrain
    BY <1>3, <2>3, IdleKeepsTorn DEF StartPolling, CheckActive, EndDrain,
       bridgeVars, scoreboardVars, globals, locals
  <2> QED
    BY <1>3, <2>1, <2>2, <2>3 DEF Poller
<1>4. CASE Driver \/ UNCHANGED systemAVars
  <2>1. UNCHANGED <<where, sensor_data, held, view, queue, batch, seen_pairs,
                    torn_reads>>
    BY <1>4 DEF Driver, CommDriver, InjectType, InjectValue, systemAVars,
       firmwareVars, globals, locals, bridgeVars, dutBridgeVars, scoreboardVars
  <2> QED
    BY <2>1, IdleKeepsTorn
<1> QED
  BY <1>1, <1>2, <1>3, <1>4 DEF SystemANext, Bridge, RunPhase, CreateThreads, Joined

(***************************************************************************)
(* For any tasks, loops, script, window and warm-up: when no two readings  *)
(* (and not the reset state) share a humidity, the scoreboard counts a     *)
(* torn read of the vulnerable build only for a pair that no reading gave. *)
(***************************************************************************)
THEOREM NoFalseTornRead ==
  ASSUME "SENSOR" \in Registered,
         \A p, q \in Readings \cup {NoPair} : p.humidity = q.humidity => p = q
  PROVE  SystemASpec => OnlyTornReadsCounted
<1>1. SystemAInit => TornInv
  BY TornInvInit
<1>2. RunInv /\ RunInv' /\ TornInv /\ [SystemANext]_systemAVars =>
        /\ TornInv'
        /\ torn_reads' # torn_reads => Head(batch).pair \notin Scope
  BY TornInvNext DEF Scope
<1>3. RunInv /\ RunInv' /\ TornInv /\ [SystemANext]_systemAVars =>
        [torn_reads' # torn_reads =>
           Head(batch).pair \notin Readings \cup {NoPair}]_systemAVars
  BY <1>2 DEF Scope
<1> QED
  BY <1>1, <1>2, <1>3, RunInvInit, RunInvNext, PTL
     DEF SystemASpec, OnlyTornReadsCounted

-----------------------------------------------------------------------------
(***************************************************************************)
(* None is missed: the scoreboard knows nothing but readings.              *)
(***************************************************************************)
OnlyReadingsKnown == held \in Scope /\ \A pair : Known(pair) => pair \in Scope

LEMMA PushKeepsReadings ==
  ASSUME RunInv, OnlyReadingsKnown, queue' \in Seq(Events),
         UNCHANGED <<batch, seen_pairs>>, NEW e, Push(e),
         e.type = "SENSOR" => e.pair \in Scope
  PROVE  \A pair : Known(pair)' => pair \in Scope
<1>1. queue \in Seq(Events) /\ batch \in Seq(Events)
  BY DEF RunInv, ChannelInv, DataInv, BridgeTypeOK
<1>2. CASE e.type \notin Registered
  <2>1. queue' = queue
    BY <1>2 DEF Push
  <2> QED
    BY <2>1 DEF Known, Stream, OnlyReadingsKnown
<1>3. CASE e.type \in Registered
  <2>1. e \in Events /\ queue' = Append(queue, e)
    BY <1>1, <1>3, PushedIsEvent
  <2>2. Stream \in Seq(Events) /\ Stream' = Append(Stream, e)
    BY <1>1, <2>1, StreamOf DEF Stream
  <2> HIDE DEF Stream
  <2> QED
    BY <2>1, <2>2, AppendedKnown DEF Known, OnlyReadingsKnown
<1> QED
  BY <1>2, <1>3

LEMMA ThreadKeepsReadings ==
  ASSUME RunInv, OnlyReadingsKnown, queue' \in Seq(Events), TornStep,
         UNCHANGED dutBridgeVars
  PROVE  OnlyReadingsKnown'
<1>0. UNCHANGED <<batch, seen_pairs>>
  BY DEF dutBridgeVars, scoreboardVars
<1>1. ASSUME queue' = queue, held' \in Scope
      PROVE  OnlyReadingsKnown'
  BY <1>0, <1>1 DEF OnlyReadingsKnown, Known, Stream
<1>2. ASSUME NEW e, Push(e), held' = held, e.type = "SENSOR" => e.pair \in Scope
      PROVE  OnlyReadingsKnown'
  <2>1. \A pair : Known(pair)' => pair \in Scope
    BY <1>0, <1>2, PushKeepsReadings
  <2> HIDE DEF Known
  <2> QED
    BY <1>2, <2>1 DEF OnlyReadingsKnown
<1>3. CASE Neutral
  BY <1>1, <1>2, <1>3 DEF Neutral, OnlyReadingsKnown
<1>4. CASE StoreTemperature
  BY <1>1, <1>4 DEF StoreTemperature, bridgeVars, Scope
<1>5. CASE StoreHumidity \/ LoadHumidity(CONTROL)
  BY <1>1, <1>5 DEF StoreHumidity, LoadHumidity, bridgeVars, locals,
     OnlyReadingsKnown
<1>6. CASE SampleHumidity
  <2>1. PairEvent("SENSOR", SENSOR, held).pair \in Scope
    BY DEF PairEvent, OnlyReadingsKnown
  <2> QED
    BY <1>2, <1>6, <2>1 DEF SampleHumidity, locals
<1>7. CASE ReportControlInputs
  <2>1. PairEvent("CONTROL_IN", CONTROL, view[CONTROL]).type # "SENSOR"
    BY DEF PairEvent
  <2> QED
    BY <1>2, <1>7, <2>1 DEF ReportControlInputs, Call, locals
<1> QED
  BY <1>3, <1>4, <1>5, <1>6, <1>7 DEF TornStep

(* A delivery is the only step that shortens a batch.                      *)
LEMMA TailIsDelivery ==
  ASSUME RunInv, batch # <<>>, batch' = Tail(batch), [SystemANext]_systemAVars
  PROVE  Deliver
<1>1. batch' # batch
  <2> DEFINE n == Len(batch)  rest == Len(Tail(batch))
  <2>1. n \in Nat /\ rest = n - 1
    BY HeadTailProperties, LenProperties DEF RunInv, ChannelInv
  <2> HIDE DEF n, rest
  <2>2. rest # n
    BY <2>1
  <2> USE DEF n, rest
  <2>3. Tail(batch) # batch
    BY <2>2, Zenon
  <2> QED
    BY <2>3
<1>2. ~DrainSwap
  BY DEF DrainSwap, RunInv, ChannelInv
<1> QED
  BY <1>1, <1>2 DEF SystemANext, Bridge, RunPhase, CreateThreads, StartPolling,
     Poller, CheckActive, EndDrain, Driver, Joined, Dut, systemAVars, dutBridgeVars

LEMMA ReadingsNext ==
  ASSUME RunInv, RunInv', OnlyReadingsKnown, [SystemANext]_systemAVars
  PROVE  OnlyReadingsKnown'
<1>0. queue' \in Seq(Events) /\ queue \in Seq(Events) /\ batch \in Seq(Events)
  BY DEF RunInv, DataInv, BridgeTypeOK, ChannelInv
<1>1. ASSUME NEW t \in Tasks, Dut(t)
      PROVE  OnlyReadingsKnown'
  BY <1>0, <1>1, ThreadIsTornStep, ThreadKeepsReadings DEF Dut
<1>2. ASSUME UNCHANGED <<held, queue, batch, seen_pairs>>
      PROVE  OnlyReadingsKnown'
  BY <1>2 DEF OnlyReadingsKnown, Known, Stream
<1>3. ASSUME NEW t \in Tasks, Spawn(t) \/ SpawnFails(t), UNCHANGED dutBridgeVars
      PROVE  OnlyReadingsKnown'
  BY <1>2, <1>3 DEF Spawn, SpawnFails, Creation, locals, dutBridgeVars, scoreboardVars
<1>4. CASE (StartPolling \/ Poller) /\ UNCHANGED <<where, globals, locals>>
  <2>1. CASE Deliver
    <3>1. batch # <<>> /\ batch' = Tail(batch) /\ queue' = queue /\ held' = held
          /\ WriteEvent(Head(batch))
      BY <1>4, <2>1 DEF Deliver, bridgeVars, locals
    <3>2. /\ Stream \in Seq(Events) /\ Stream # <<>>
          /\ Head(Stream) = Head(batch) /\ Stream' = Tail(Stream)
      BY <1>0, <3>1, StreamOf DEF Stream
    <3>3. \A p \in seen_pairs' : p \in seen_pairs
            \/ (Head(Stream).type = "SENSOR" /\ p = Head(Stream).pair)
      BY <3>1, <3>2, WriteSeen
    <3> HIDE DEF Stream
    <3>4. \A pair : Known(pair)' => Known(pair)
      BY <3>2, <3>3, DeliveredKnown DEF Known
    <3> HIDE DEF Known
    <3> QED
      BY <3>1, <3>4 DEF OnlyReadingsKnown
  <2>2. CASE DrainSwap
    <3>1. batch = <<>> /\ batch' = queue /\ queue' = <<>>
          /\ UNCHANGED <<held, seen_pairs>>
      BY <1>4, <2>2 DEF DrainSwap, RunInv, ChannelInv, locals, scoreboardVars
    <3>2. Stream' = Stream
      BY <1>0, <3>1, StreamOf DEF Stream
    <3> QED
      BY <3>1, <3>2 DEF OnlyReadingsKnown, Known
  <2>3. CASE StartPolling \/ CheckActive \/ EndDrain
    BY <1>2, <1>4, <2>3 DEF StartPolling, CheckActive, EndDrain, bridgeVars,
       scoreboardVars, locals
  <2> QED
    BY <1>4, <2>1, <2>2, <2>3 DEF Poller
<1>5. CASE Driver \/ UNCHANGED systemAVars
  BY <1>2, <1>5 DEF Driver, CommDriver, InjectType, InjectValue, systemAVars,
     firmwareVars, locals, bridgeVars, dutBridgeVars, scoreboardVars
<1> QED
  BY <1>1, <1>3, <1>4, <1>5 DEF SystemANext, Bridge, RunPhase, CreateThreads, Joined

LEMMA MissedNone ==
  ASSUME OnlyReadingsKnown, Deliver, batch # <<>>,
         Head(batch).type = "CONTROL_IN", Head(batch).pair \notin Scope,
         coherence_warmup_seen = kCoherenceWarmup
  PROVE  torn_reads' = torn_reads + 1
<1>1. Head(batch).pair \notin seen_pairs
  BY DEF OnlyReadingsKnown, Known, KnownAt
<1>2. WriteControlInput(Head(batch).pair)
  BY Zenon DEF Deliver, WriteEvent
<1>3. ~(coherence_warmup_seen < kCoherenceWarmup)
  BY ScoreboardAssumption
<1> QED
  BY <1>1, <1>2, <1>3 DEF WriteControlInput

(***************************************************************************)
(* For any tasks, readings, loops, script and window: after the warm-up a  *)
(* control input of a pair that no reading gave is always counted.         *)
(***************************************************************************)
THEOREM NoTornReadMissed == SystemASpec => EveryTornReadCounted
<1>1. SystemAInit => OnlyReadingsKnown
  <2> SUFFICES ASSUME SystemAInit
               PROVE  OnlyReadingsKnown
    OBVIOUS
  <2>1. /\ batch \o queue = <<>> /\ held = NoPair /\ seen_pairs = {NoPair}
    BY StreamOf DEF SystemAInit, FirmwareInit, BridgeInit, DutBridgeInit,
       ScoreboardInit, NoPair
  <2>2. Len(<<>>) = 0
    OBVIOUS
  <2> QED
    BY <2>1, <2>2 DEF OnlyReadingsKnown, Known, KnownAt, Stream, Scope
<1>2. RunInv /\ RunInv' /\ OnlyReadingsKnown /\ [SystemANext]_systemAVars
        => OnlyReadingsKnown'
  BY ReadingsNext
<1>3. RunInv /\ OnlyReadingsKnown /\ [SystemANext]_systemAVars =>
        [/\ batch # <<>> /\ batch' = Tail(batch)
         /\ Head(batch).type = "CONTROL_IN"
         /\ Head(batch).pair \notin Readings \cup {NoPair}
         /\ coherence_warmup_seen = kCoherenceWarmup
         => torn_reads' = torn_reads + 1]_systemAVars
  BY TailIsDelivery, MissedNone DEF Scope
<1> QED
  BY <1>1, <1>2, <1>3, RunInvInit, RunInvNext, PTL
     DEF SystemASpec, EveryTornReadCounted

-----------------------------------------------------------------------------
(***************************************************************************)
(* The types of the testbench: what a thread pushes is an output that its  *)
(* actuator can have, or an event with no output in it.                    *)
(***************************************************************************)
LEMMA ThreadUtters ==
  ASSUME DataInv, NEW t \in Tasks, Thread(t)
  PROVE  Utters
<1>1. CASE t = SENSOR /\ sensor_task
  BY <1>1, BridgeIsQuiet, OnlyOutputsHaveRange
     DEF sensor_task, StoreTemperature, SampleHumidity, StoreHumidity, Utters
<1>2. CASE t = CONTROL /\ control_task
  BY <1>2, BridgeIsQuiet, HalCallsUtter
     DEF control_task, LoadTemperature, LoadHumidity, LoadTarget, StorePump, StoreFan
<1>3. CASE t = ALARM /\ alarm_task
  BY <1>3, BridgeIsQuiet, HalCallsUtter
     DEF alarm_task, LoadTemperature, LoadHumidity, StoreAlarm
<1>4. CASE t = LOGGER /\ logger_task
  BY <1>4, BridgeIsQuiet, HalCallsUtter
     DEF logger_task, LoadTemperature, LoadHumidity, LogPump, LogFan, LogAlarm
<1>5. CASE t = COMM /\ comm_task
  BY <1>5, BridgeIsQuiet, UartUtters DEF comm_task, StoreTarget, StoreEnabled
<1>6. CASE Finish(t)
  BY <1>6, LifeUtters
<1> QED
  BY <1>1, <1>2, <1>3, <1>4, <1>5, <1>6 DEF Thread

LEMMA BoardInvNext ==
  ASSUME RunInv, BoardInv, [SystemANext]_systemAVars
  PROVE  BoardInv'
<1>0. ChannelInv /\ DataInv /\ queue \in Seq(Events) /\ queue' \in Seq(Events)
  <2>1. RunInv'
    BY RunInvNext
  <2>2. DataInv /\ BridgeTypeOK /\ BridgeTypeOK' /\ ChannelInv
    BY <2>1 DEF RunInv, DataInv
  <2> QED
    BY <2>2 DEF BridgeTypeOK
<1>1. ASSUME NEW t \in Tasks, Dut(t)
      PROVE  BoardInv'
  BY <1>0, <1>1, ThreadUtters, UtteranceKeepsBoard DEF Dut
<1>2. ASSUME NEW t \in Tasks, Spawn(t) \/ SpawnFails(t), UNCHANGED dutBridgeVars
      PROVE  BoardInv'
  BY <1>0, <1>2, LifeUtters, UtteranceKeepsBoard
<1>3. CASE StartPolling \/ Poller
  BY <1>0, <1>3, PollerKeepsBoard
<1>4. CASE Driver \/ UNCHANGED systemAVars
  <2>1. UNCHANGED <<queue, batch, scoreboardVars>>
    BY <1>4 DEF Driver, CommDriver, InjectType, InjectValue, systemAVars, firmwareVars,
       bridgeVars, dutBridgeVars
  <2> QED
    BY <2>1, IdleKeepsBoard
<1> QED
  BY <1>1, <1>2, <1>3, <1>4 DEF SystemANext, Bridge, RunPhase, CreateThreads, Joined

(***************************************************************************)
(* For every set of callbacks, of tasks and of readings, any script, any   *)
(* number of loops: the testbench's variables have their types - what is   *)
(* drained are events, the duties and pins judged are in range, and at     *)
(* most one output waits for its other half - whatever the races do.       *)
(***************************************************************************)
THEOREM TestbenchTyped == SystemASpec => []DutBridgeTypeOK
<1>1. SystemAInit => RunInv /\ BoardInv
  BY RunInvInit, BoardInvInit DEF SystemAInit
<1>2. RunInv /\ BoardInv /\ [SystemANext]_systemAVars => RunInv' /\ BoardInv'
  BY RunInvNext, BoardInvNext
<1>3. RunInv /\ BoardInv => DutBridgeTypeOK
  BY BoardInvImplies DEF RunInv
<1> QED
  BY <1>1, <1>2, <1>3, PTL DEF SystemASpec

-----------------------------------------------------------------------------
(***************************************************************************)
(* The setpoint is tracked, but for the race on the mailbox.               *)
(***************************************************************************)
LEMMA CommTracks ==
  ASSUME "COMM" \in Registered, RunInv, CommandHeard, COMM \in Tasks, comm_task
  PROVE  TrackStep
<1>0. WhereTypeOK /\ DataTypeOK
  BY DEF RunInv, WhereInv, DataInv
<1>1. COMM \in AllTasks /\ place \in [AllTasks -> Places] /\ stage \in [AllTasks -> Stages]
  BY <1>0, TaskNumbers DEF WhereTypeOK
<1>2. CASE UartRx
  BY <1>0, <1>2, UartTracks
<1>3. CASE /\ At(COMM, "target_temp", "first")
           /\ StoreTarget(CommandTarget)
           /\ IF command.type = "RESET" THEN Goto(COMM, "system_enabled")
                                        ELSE EndIteration(COMM)
  <2>1. Owing /\ Setpoint(command.type, command.value) = CommandTarget
    BY <1>3 DEF At, Owing, Setpoint, CommandTarget
  <2>2. ~Owing'
    BY <1>1, <1>3 DEF Goto, EndIteration, Entry, Start, Shared, Owing
  <2>3. Due' = Due
    BY <1>3, <2>1, <2>2 DEF StoreTarget, Due
  <2> QED
    BY <1>3, <2>3 DEF StoreTarget, bridgeVars, TrackStep
<1>4. CASE At(COMM, "system_enabled", "first") /\ StoreEnabled /\ EndIteration(COMM)
  <2>1. Due' = Due
    BY <1>0, <1>4, NothingOwed DEF At, Owing, StoreEnabled
  <2> QED
    BY <1>4, <2>1 DEF StoreEnabled, bridgeVars, TrackStep
<1> QED
  BY <1>2, <1>3, <1>4 DEF comm_task

LEMMA OthersTrack ==
  ASSUME RunInv, NEW t \in Tasks, t # COMM, Thread(t), ~Finish(t)
  PROVE  TrackStep
<1>0. /\ \A type, task, pair : PairEvent(type, task, pair).type = type
      /\ \A type, task, of, v : ValueEvent(type, task, of, v).type = type
      /\ \A type, task : SignalEvent(type, task).type = type
  BY DEF PairEvent, ValueEvent, SignalEvent
<1>1. Moves(t)
  BY StepMoves DEF RunInv, WhereInv, Thread, sensor_task, control_task, alarm_task,
     logger_task, Access, ReportControlInputs, PwmSet, GpioWritePump, GpioWriteLed, LogWrite
<1>2. UNCHANGED <<place[COMM], stage[COMM]>>
  BY <1>1, TaskNumbers DEF Moves
<1>3. /\ UNCHANGED <<command, target_temp>>
      /\ UNCHANGED queue \/ \E e : Push(e) /\ e.type # "COMM"
  <2>1. CASE sensor_task
    BY <1>0, <2>1 DEF sensor_task, StoreTemperature, SampleHumidity, StoreHumidity, globals,
       locals, bridgeVars
  <2>2. CASE control_task
    BY <1>0, <2>2 DEF control_task, LoadTemperature, LoadHumidity, LoadTarget, StorePump,
       StoreFan, ReportControlInputs, PwmSet, GpioWritePump, Call, globals, locals, bridgeVars
  <2>3. CASE alarm_task
    BY <1>0, <2>3 DEF alarm_task, LoadTemperature, LoadHumidity, StoreAlarm, GpioWriteLed,
       Call, globals, locals, bridgeVars
  <2>4. CASE logger_task
    BY <1>0, <2>4 DEF logger_task, LoadTemperature, LoadHumidity, LogPump, LogFan, LogAlarm,
       LogWrite, Call, globals, locals, bridgeVars
  <2> QED
    BY <2>1, <2>2, <2>3, <2>4 DEF Thread
<1> QED
  BY <1>2, <1>3, ElsewhereTracks

LEMMA TrackInvNext ==
  ASSUME "COMM" \in Registered, RunInv, TrackInv, [SystemANext]_systemAVars,
         [CommandHeard]_systemAVars
  PROVE  TrackInv'
<1>0. /\ WhereTypeOK /\ ChannelInv /\ batch \in Seq(Events)
      /\ queue \in Seq(Events) /\ queue' \in Seq(Events)
  <2>1. RunInv'
    BY RunInvNext
  <2> QED
    BY <2>1 DEF RunInv, WhereInv, DataInv, BridgeTypeOK, ChannelInv
<1>1. ASSUME UNCHANGED systemAVars
      PROVE  TrackInv'
  BY <1>1, IdleTracks DEF systemAVars, firmwareVars, dutBridgeVars, scoreboardVars, globals,
     locals, bridgeVars
<1>2. ASSUME NEW t \in Tasks, Dut(t), CommandHeard
      PROVE  TrackInv'
  <2>1. TrackStep
    <3>1. CASE Finish(t)
      BY <1>0, <3>1, LifeTracks
    <3>2. CASE ~Finish(t) /\ t = COMM
      BY <1>2, <3>2, CommTracks, TaskNumbers DEF Dut, Thread, COMM, LOGGER, ALARM, SENSOR,
         CONTROL
    <3>3. CASE ~Finish(t) /\ t # COMM
      BY <1>2, <3>3, OthersTrack DEF Dut
    <3> QED
      BY <3>1, <3>2, <3>3
  <2> QED
    BY <1>0, <1>2, <2>1, TrackStepTracks DEF Dut
<1>3. ASSUME NEW t \in Tasks, Spawn(t) \/ SpawnFails(t), UNCHANGED dutBridgeVars
      PROVE  TrackInv'
  BY <1>0, <1>3, LifeTracks, TrackStepTracks
<1>4. CASE (StartPolling \/ Poller) /\ UNCHANGED <<where, globals, locals>>
  BY <1>0, <1>4, BridgeTracks
<1>5. CASE Driver
  BY <1>5, IdleTracks DEF Driver, CommDriver, InjectType, InjectValue, dutBridgeVars,
     scoreboardVars, globals, locals
<1> QED
  BY <1>1, <1>2, <1>3, <1>4, <1>5 DEF SystemANext, Bridge, RunPhase, CreateThreads, Joined

(***************************************************************************)
(* For every script, any tasks, loops and readings: as long as the event   *)
(* that reports a command tells the command that comm_task was given, the  *)
(* scoreboard ends with the setpoint of the vulnerable firmware.  Nothing  *)
(* else, neither the order of the events nor a lost command, can part the  *)
(* two; the driver's stores between the callback's loads can.              *)
(***************************************************************************)
THEOREM OnlyTheRaceLosesTrack ==
  ASSUME "COMM" \in Registered
  PROVE  SystemASpec /\ [][CommandHeard]_systemAVars => []SetpointTracked
<1>1. SystemAInit => RunInv /\ TrackInv
  BY RunInvInit, TrackInvInit DEF SystemAInit
<1>2. RunInv /\ TrackInv /\ [SystemANext]_systemAVars /\ [CommandHeard]_systemAVars
        => RunInv' /\ TrackInv'
  BY RunInvNext, TrackInvNext
<1>3. RunInv /\ TrackInv => SetpointTracked
  BY TrackedAtTheEnd DEF RunInv, SetpointTracked
<1> QED
  BY <1>1, <1>2, <1>3, PTL DEF SystemASpec

(***************************************************************************)
(* In particular, for every script: as long as the mailbox holds, when the *)
(* event is about to be pushed, what the callback took from it before, the *)
(* setpoint is followed through targets and back at resets.                *)
(***************************************************************************)
THEOREM SetpointIsFollowed ==
  ASSUME "COMM" \in Registered
  PROVE  SystemASpec => SetpointFollowed
<1>1. ReportsWhatItTook => [CommandHeard]_systemAVars
  BY DEF ReportsWhatItTook, CommandHeard
<1>2. SystemASpec /\ [][CommandHeard]_systemAVars => []SetpointTracked
  BY OnlyTheRaceLosesTrack
<1> QED
  BY <1>1, <1>2, PTL DEF SetpointFollowed

-----------------------------------------------------------------------------
(***************************************************************************)
(* The supervised firmware is the firmware under the testbench.            *)
(***************************************************************************)
LEMMA SupervisedStep ==
  ASSUME [SupervisedNext]_supervisedVars
  PROVE  [SystemANext]_systemAVars
<1>1. CASE FirmwareStep
  BY <1>1 DEF FirmwareStep, SystemANext, Bridge, RunPhase
<1>2. CASE CheckAndPublish \/ Drain \/ DeliverToAll \/ EndPoll
  BY <1>2 DEF CheckAndPublish, Drain, DeliverToAll, EndPoll, SystemANext, Bridge,
     RunPhase, Poller
<1>3. CASE SilenceProbe \/ AfterTheRun \/ UNCHANGED supervisedVars
  BY <1>3 DEF SilenceProbe, AfterTheRun, supervisedVars
<1> QED
  BY <1>1, <1>2, <1>3 DEF SupervisedNext

(***************************************************************************)
(* Which events are on their way: none of a task that has been marked      *)
(* finished, none behind the TASK_DONE of its task, and the TASK_DONE of   *)
(* every task that has signalled it and has not been marked.               *)
(***************************************************************************)
Gone == {t \in Tasks : place[t] \in {"exit", "returned"}}

IsFarewell(e) == e.type = "TASK_DONE"

Orderly(s, marked, gone) ==
  /\ \A k \in 1 .. Len(s) : s[k].task_id \in Tasks \ marked
  /\ \A k \in 1 .. Len(s) : IsFarewell(s[k]) =>
       /\ s[k].task_id \in gone
       /\ \A j \in 1 .. Len(s) : j > k => s[j].task_id # s[k].task_id
  /\ marked \subseteq gone
  /\ \A t \in gone : t \in marked
       \/ \E k \in 1 .. Len(s) : IsFarewell(s[k]) /\ s[k].task_id = t

LEMMA OrderlyAppend ==
  ASSUME NEW s \in Seq(Events), NEW e \in Events, NEW marked, NEW gone,
         Orderly(s, marked, gone), e.task_id \in Tasks \ gone
  PROVE  /\ ~IsFarewell(e) => Orderly(Append(s, e), marked, gone)
         /\ IsFarewell(e) => Orderly(Append(s, e), marked, gone \cup {e.task_id})
<1> DEFINE a == Append(s, e)  n == Len(s)
<1>1. /\ n \in Nat /\ Len(a) = n + 1 /\ a[n + 1] = e
      /\ \A k \in 1 .. n : a[k] = s[k]
  BY AppendProperties, LenProperties
<1>2. /\ \A k \in 1 .. n : s[k].task_id \in Tasks \ marked
      /\ \A k \in 1 .. n : IsFarewell(s[k]) =>
           /\ s[k].task_id \in gone
           /\ \A j \in 1 .. n : j > k => s[j].task_id # s[k].task_id
      /\ marked \subseteq gone
      /\ \A t \in gone : t \in marked
           \/ \E k \in 1 .. n : IsFarewell(s[k]) /\ s[k].task_id = t
  BY DEF Orderly
<1> HIDE DEF a, n
<1>3. \A k \in 1 .. Len(a) : a[k].task_id \in Tasks \ marked
  BY <1>1, <1>2
<1>4. ASSUME NEW k \in 1 .. n, IsFarewell(a[k])
      PROVE  /\ a[k].task_id \in gone
             /\ \A j \in 1 .. Len(a) : j > k => a[j].task_id # a[k].task_id
  BY <1>1, <1>2, <1>4
<1>5. \A t \in gone : t \in marked
         \/ \E k \in 1 .. Len(a) : IsFarewell(a[k]) /\ a[k].task_id = t
  BY <1>1, <1>2
<1>6. ASSUME NEW k \in 1 .. Len(a), IsFarewell(a[k]), IsFarewell(e)
      PROVE  /\ a[k].task_id \in gone \cup {e.task_id}
             /\ \A j \in 1 .. Len(a) : j > k => a[j].task_id # a[k].task_id
  BY <1>1, <1>4, <1>6
<1>7. ~IsFarewell(e) => Orderly(a, marked, gone)
  <2> SUFFICES ASSUME ~IsFarewell(e)
               PROVE  Orderly(a, marked, gone)
    OBVIOUS
  <2>1. \A k \in 1 .. Len(a) : IsFarewell(a[k]) => k \in 1 .. n
    BY <1>1
  <2> QED
    BY <1>2, <1>3, <1>4, <1>5, <2>1 DEF Orderly
<1>8. IsFarewell(e) => Orderly(a, marked, gone \cup {e.task_id})
  <2> SUFFICES ASSUME IsFarewell(e)
               PROVE  Orderly(a, marked, gone \cup {e.task_id})
    OBVIOUS
  <2>1. n + 1 \in 1 .. Len(a)
    BY <1>1
  <2>2. \A t \in gone \cup {e.task_id} : t \in marked
         \/ \E k \in 1 .. Len(a) : IsFarewell(a[k]) /\ a[k].task_id = t
    BY <1>1, <1>5, <2>1
  <2> QED
    BY <1>2, <1>3, <1>6, <2>2 DEF Orderly
<1> QED
  BY <1>7, <1>8 DEF a

LEMMA OrderlyTail ==
  ASSUME NEW s \in Seq(Events), s # <<>>, NEW marked, NEW gone,
         Orderly(s, marked, gone)
  PROVE  /\ Head(s).task_id \in Tasks \ marked
         /\ ~IsFarewell(Head(s)) => Orderly(Tail(s), marked, gone)
         /\ IsFarewell(Head(s)) =>
              Orderly(Tail(s), marked \cup {Head(s).task_id}, gone)
<1> DEFINE r == Tail(s)  n == Len(s)  m == Len(r)  e == Head(s)
<1>1. /\ n \in Nat /\ n >= 1 /\ m = n - 1 /\ e = s[1]
      /\ \A k \in 1 .. m : r[k] = s[k + 1]
  BY HeadTailProperties, LenProperties, EmptySeq
<1>2. /\ \A k \in 1 .. n : s[k].task_id \in Tasks \ marked
      /\ \A k \in 1 .. n : IsFarewell(s[k]) =>
           /\ s[k].task_id \in gone
           /\ \A j \in 1 .. n : j > k => s[j].task_id # s[k].task_id
      /\ marked \subseteq gone
      /\ \A t \in gone : t \in marked
           \/ \E k \in 1 .. n : IsFarewell(s[k]) /\ s[k].task_id = t
  BY DEF Orderly
<1> HIDE DEF r, n, e, m
<1>3. \A k \in 1 .. m : k + 1 \in 1 .. n /\ 1 \in 1 .. n /\ k + 1 > 1
  BY <1>1
<1>4. e.task_id \in Tasks \ marked
  BY <1>1, <1>2
<1>5. \A k \in 1 .. m : IsFarewell(r[k]) =>
           /\ r[k].task_id \in gone
           /\ \A j \in 1 .. m : j > k => r[j].task_id # r[k].task_id
  BY <1>1, <1>2, <1>3
<1>6. ASSUME NEW t \in gone, t \notin marked, IsFarewell(e) => t # e.task_id
      PROVE  \E k \in 1 .. m : IsFarewell(r[k]) /\ r[k].task_id = t
  <2>1. PICK k \in 1 .. n : IsFarewell(s[k]) /\ s[k].task_id = t
    BY <1>2, <1>6
  <2>2. k # 1
    BY <1>1, <1>6, <2>1
  <2>3. k - 1 \in 1 .. m /\ r[k - 1] = s[k]
    BY <1>1, <2>2
  <2> QED
    BY <2>1, <2>3
<1>7. ASSUME ~IsFarewell(e)
      PROVE  Orderly(r, marked, gone)
  <2>1. \A k \in 1 .. m : r[k].task_id \in Tasks \ marked
    BY <1>1, <1>2, <1>3
  <2> QED
    BY <1>2, <1>5, <1>6, <1>7, <2>1 DEF Orderly, m
<1>8. ASSUME IsFarewell(e)
      PROVE  Orderly(r, marked \cup {e.task_id}, gone)
  <2>1. \A k \in 1 .. m : r[k].task_id \in Tasks \ (marked \cup {e.task_id})
    BY <1>1, <1>2, <1>3, <1>8
  <2>2. marked \cup {e.task_id} \subseteq gone
    BY <1>1, <1>2, <1>8
  <2> QED
    BY <1>5, <1>6, <1>8, <2>1, <2>2 DEF Orderly, m
<1> QED
  BY <1>4, <1>7, <1>8 DEF r, e

LEMMA OrderlyEmpty ==
  ASSUME NEW s, Len(s) = 0, NEW marked, NEW gone, Orderly(s, marked, gone)
  PROVE  marked = gone
<1>1. 1 .. Len(s) = {}
  OBVIOUS
<1> QED
  BY <1>1 DEF Orderly

-----------------------------------------------------------------------------
(* The report comes after run_phase.                                       *)
FeedInv ==
  /\ Orderly(Stream, finished_tasks, Gone)
  /\ verdict # "running" => poller = "joined"

LEMMA FeedInvInit == SupervisedInit => FeedInv
<1> SUFFICES ASSUME SupervisedInit
             PROVE  FeedInv
  OBVIOUS
<1>1. Stream = <<>> /\ Len(Stream) = 0
  BY StreamOf DEF SupervisedInit, SystemAInit, FirmwareInit, BridgeInit, DutBridgeInit,
     Stream
<1>2. Gone = {}
  BY FirmwareAssumption DEF SupervisedInit, SystemAInit, FirmwareInit, Gone
<1> HIDE DEF Stream, Gone
<1>3. finished_tasks = {} /\ verdict = "running"
  BY DEF SupervisedInit, DetectorInit
<1> QED
  BY <1>1, <1>2, <1>3 DEF FeedInv, Orderly

(* A thread's step sends what is in order.                                 *)
LEMMA ThreadKeepsOrder ==
  ASSUME RunInv, RunInv', "TASK_DONE" \in Registered, NEW t \in Tasks, Dut(t),
         Orderly(Stream, finished_tasks, Gone), UNCHANGED finished_tasks
  PROVE  Orderly(Stream', finished_tasks', Gone')
<1>1. /\ t \in AllTasks /\ Tasks \subseteq AllTasks
      /\ place \in [AllTasks -> Places] /\ batch' = batch
      /\ batch \in Seq(Events) /\ queue \in Seq(Events) /\ queue' \in Seq(Events)
  BY FirmwareAssumption DEF RunInv, WhereInv, WhereTypeOK, DataInv, BridgeTypeOK,
     ChannelInv, Dut, dutBridgeVars
<1>2. ChannelStep(t)
  BY ThreadIsChannelStep DEF RunInv, WhereInv, Dut
<1>3. ASSUME NEW e, Push(e), e.type \in Registered
      PROVE  e \in Events /\ Stream' = Append(Stream, e) /\ Stream \in Seq(Events)
  <2>1. e \in Events /\ queue' = Append(queue, e)
    BY <1>1, <1>3, PushedIsEvent
  <2> QED
    BY <1>1, <2>1, StreamOf DEF Stream
<1>4. ASSUME queue' = queue
      PROVE  Stream' = Stream
  BY <1>1, <1>4 DEF Stream
<1>5. CASE Speaks(t)
  <2>1. PICK p \in Running : place' = [place EXCEPT ![t] = p]
    BY <1>5 DEF Speaks
  <2>2. Gone' = Gone /\ t \notin Gone
    BY <1>1, <1>5, <2>1 DEF Gone, Speaks, Running
  <2>3. ASSUME NEW e, e.task_id = t, e.type # "TASK_DONE", Push(e)
        PROVE  Orderly(Stream', finished_tasks, Gone)
    <3>1. CASE e.type \notin Registered
      BY <1>4, <2>3, <3>1 DEF Push
    <3>2. CASE e.type \in Registered
      <4>1. e \in Events /\ Stream' = Append(Stream, e) /\ Stream \in Seq(Events)
        BY <1>3, <2>3, <3>2
      <4> HIDE DEF Stream, Gone
      <4> QED
        BY <2>2, <2>3, <4>1, OrderlyAppend DEF IsFarewell
    <3> QED
      BY <3>1, <3>2
  <2>4. Orderly(Stream', finished_tasks, Gone)
    BY <1>4, <1>5, <2>3 DEF Speaks
  <2> HIDE DEF Stream, Gone
  <2> QED
    BY <2>2, <2>4
<1>6. CASE SignalDone(t)
  <2> DEFINE e == SignalEvent("TASK_DONE", t)
  <2>1. /\ place[t] = "done" /\ place' = [place EXCEPT ![t] = "exit"]
        /\ Push(e) /\ e.type = "TASK_DONE" /\ e.task_id = t
    BY <1>6 DEF SignalDone, At, Goto, Call, SignalEvent, ValueEvent
  <2> HIDE DEF e
  <2>2. Gone' = Gone \cup {t} /\ t \notin Gone
    BY <1>1, <2>1 DEF Gone
  <2>3. e \in Events /\ Stream' = Append(Stream, e) /\ Stream \in Seq(Events)
    BY <1>3, <2>1
  <2> HIDE DEF Stream, Gone
  <2> QED
    BY <2>1, <2>2, <2>3, OrderlyAppend DEF IsFarewell
<1>7. CASE Exit(t)
  <2>1. /\ place[t] = "exit" /\ place' = [place EXCEPT ![t] = "returned"]
        /\ queue' = queue
    BY <1>7 DEF Exit, At, Goto
  <2>2. Gone' = Gone
    BY <1>1, <2>1 DEF Gone
  <2>3. Stream' = Stream
    BY <1>4, <2>1
  <2> HIDE DEF Stream, Gone
  <2> QED
    BY <2>2, <2>3
<1> QED
  BY <1>2, <1>5, <1>6, <1>7 DEF ChannelStep

(* What TellCheckers does to the set of finished tasks.                    *)
LEMMA ToldWhat ==
  ASSUME NEW event, NEW stamp, TellCheckers(event, stamp)
  PROVE  /\ finished_tasks' = IF IsFarewell(event)
                              THEN finished_tasks \cup {event.task_id}
                              ELSE finished_tasks
         /\ verdict' = verdict
         /\ \/ Observe(event.task_id)
            \/ ObserveControlInput(event.task_id)
            \/ MarkFinished(event.task_id)
            \/ UNCHANGED detectorVars
<1>1. \/ Observe(event.task_id) /\ ~IsFarewell(event)
      \/ ObserveControlInput(event.task_id) /\ ~IsFarewell(event)
      \/ MarkFinished(event.task_id) /\ IsFarewell(event)
      \/ UNCHANGED detectorVars /\ ~IsFarewell(event)
  BY DEF TellCheckers, IsFarewell
<1> QED
  BY <1>1 DEF Observe, ObserveControlInput, MarkFinished, Heard, detectorVars

LEMMA DeliverKeepsOrder ==
  ASSUME RunInv, Orderly(Stream, finished_tasks, Gone), DeliverToAll
  PROVE  /\ Orderly(Stream', finished_tasks', Gone')
         /\ Head(batch).task_id \in Tasks \ finished_tasks
<1>1. /\ batch # <<>> /\ batch' = Tail(batch) /\ queue' = queue
      /\ batch \in Seq(Events) /\ queue \in Seq(Events) /\ place' = place
  BY DEF DeliverToAll, Deliver, bridgeVars, where, RunInv, ChannelInv, DataInv,
     BridgeTypeOK
<1>2. /\ Stream \in Seq(Events) /\ Stream # <<>> /\ Head(Stream) = Head(batch)
      /\ Stream' = Tail(Stream)
  BY <1>1, StreamOf DEF Stream
<1>3. Gone' = Gone
  BY <1>1 DEF Gone
<1>4. finished_tasks' = IF IsFarewell(Head(batch))
                        THEN finished_tasks \cup {Head(batch).task_id}
                        ELSE finished_tasks
  BY ToldWhat DEF DeliverToAll
<1> HIDE DEF Stream, Gone
<1> QED
  BY <1>2, <1>3, <1>4, OrderlyTail

LEMMA FeedInvNext ==
  ASSUME RunInv, RunInv', "TASK_DONE" \in Registered, FeedInv,
         [SupervisedNext]_supervisedVars
  PROVE  FeedInv'
<1> DEFINE Same == UNCHANGED <<Stream, finished_tasks, Gone>>
<1>0. Same => Orderly(Stream', finished_tasks', Gone')
  <2> HIDE DEF Stream, Gone
  <2> QED
    BY DEF FeedInv
<1>1. ASSUME FirmwareStep
      PROVE  FeedInv'
  <2>1. UNCHANGED <<finished_tasks, verdict>>
    BY <1>1 DEF FirmwareStep, detectorOwn
  <2>2. ASSUME NEW t \in Tasks, Dut(t)
        PROVE  FeedInv'
    <3>1. Orderly(Stream', finished_tasks', Gone')
      BY <2>1, <2>2, ThreadKeepsOrder DEF FeedInv
    <3>2. poller' = poller
      BY <2>2 DEF Dut, dutBridgeVars
    <3> HIDE DEF Stream, Gone
    <3> QED
      BY <2>1, <3>1, <3>2 DEF FeedInv
  <2>3. CASE CreateThreads
    <3>1. queue' = queue /\ batch' = batch /\ poller = "spawn"
      BY <2>3 DEF CreateThreads, StartPolling, Spawn, SpawnFails, Creation,
         dutBridgeVars, bridgeVars
    <3>2. Gone' = Gone
      <4>1. CASE place' = place
        BY <4>1 DEF Gone
      <4>2. ASSUME NEW t \in Tasks, Spawn(t) \/ SpawnFails(t)
            PROVE  Gone' = Gone
        <5>1. PICK p \in Places \ {"exit", "returned"} :
                place[t] = "unspawned" /\ place' = [place EXCEPT ![t] = p]
          BY <4>2 DEF Spawn, SpawnFails, Creation, Goto, Start, Places, Shared
        <5>2. place \in [AllTasks -> Places] /\ Tasks \subseteq AllTasks
          BY FirmwareAssumption DEF RunInv, WhereInv, WhereTypeOK
        <5> QED
          BY <5>1, <5>2 DEF Gone
      <4> QED
        BY <2>3, <4>1, <4>2 DEF CreateThreads, where
    <3>3. Stream' = Stream
      BY <3>1 DEF Stream
    <3>4. verdict' = "running"
      BY <2>1, <3>1 DEF FeedInv
    <3> HIDE DEF Stream, Gone
    <3> QED
      BY <1>0, <2>1, <3>2, <3>3, <3>4 DEF FeedInv
  <2> QED
    BY <1>1, <2>2, <2>3 DEF FirmwareStep
<1>2. ASSUME CheckAndPublish \/ EndPoll \/ SilenceProbe \/ AfterTheRun
                \/ UNCHANGED supervisedVars
      PROVE  FeedInv'
  <2>1. UNCHANGED <<queue, batch, place, finished_tasks>>
    BY <1>2 DEF CheckAndPublish, CheckActive, EndPoll, EndDrain, SilenceProbe,
       AfterTheRun, supervisedVars, systemAVars, firmwareVars, dutBridgeVars,
       bridgeVars, where, detectorOwn, detectorVars, NextPeriod, Probe, Report
  <2>2. verdict' # "running" => poller' = "joined"
    BY <1>2 DEF CheckAndPublish, CheckActive, EndPoll, EndDrain, SilenceProbe,
       AfterTheRun, supervisedVars, systemAVars, firmwareVars, dutBridgeVars,
       detectorOwn, detectorVars, NextPeriod, Probe, Report, FeedInv
  <2>3. Stream' = Stream /\ Gone' = Gone
    BY <2>1 DEF Stream, Gone
  <2> HIDE DEF Stream, Gone
  <2> QED
    BY <1>0, <2>1, <2>2, <2>3 DEF FeedInv
<1>3. ASSUME Drain
      PROVE  FeedInv'
  <2>1. queue \in Seq(Events) /\ batch = <<>>
    BY <1>3 DEF RunInv, DataInv, BridgeTypeOK, ChannelInv, Drain, DrainSwap
  <2>2. Stream' = Stream
    BY <1>3, <2>1, StreamOf DEF Stream, Drain, DrainSwap
  <2>3. Gone' = Gone
    BY <1>3 DEF Gone, Drain, where
  <2>4. UNCHANGED <<finished_tasks, verdict>> /\ poller # "joined"
    BY <1>3 DEF Drain, DrainSwap, detectorOwn
  <2> HIDE DEF Stream, Gone
  <2> QED
    BY <1>0, <2>2, <2>3, <2>4 DEF FeedInv
<1>4. ASSUME DeliverToAll
      PROVE  FeedInv'
  <2>1. Orderly(Stream', finished_tasks', Gone')
    BY <1>4, DeliverKeepsOrder DEF FeedInv
  <2>2. verdict' = verdict /\ poller # "joined"
    BY <1>4, ToldWhat DEF DeliverToAll, Deliver
  <2> HIDE DEF Stream, Gone
  <2> QED
    BY <2>1, <2>2 DEF FeedInv
<1> QED
  BY <1>1, <1>2, <1>3, <1>4 DEF SupervisedNext

(***************************************************************************)
(* The testbench's steps are steps of the watchdog as it is meant to be    *)
(* used.                                                                   *)
(***************************************************************************)
LEMMA SupervisedFeedsDetector ==
  ASSUME RunInv, FeedInv, "TASK_DONE" \in Registered,
         [SupervisedNext]_supervisedVars
  PROVE  [DetectorNext]_detectorVars
<1>1. CASE FirmwareStep \/ CheckAndPublish \/ Drain \/ UNCHANGED supervisedVars
  BY <1>1 DEF FirmwareStep, CheckAndPublish, Drain, supervisedVars, detectorOwn,
     detectorVars
<1>2. CASE DeliverToAll
  <2>1. Head(batch).task_id \in Monitored \ finished_tasks
    BY <1>2, DeliverKeepsOrder, SupervisedAssumption DEF FeedInv
  <2>2. verdict = "running"
    BY <1>2 DEF DeliverToAll, Deliver, FeedInv
  <2>3. \/ Observe(Head(batch).task_id)
        \/ ObserveControlInput(Head(batch).task_id)
        \/ MarkFinished(Head(batch).task_id)
        \/ UNCHANGED detectorVars
    BY <1>2, ToldWhat DEF DeliverToAll
  <2> QED
    BY <2>1, <2>2, <2>3 DEF DetectorNext
<1>3. CASE EndPoll \/ SilenceProbe
  BY <1>3 DEF EndPoll, SilenceProbe, DetectorNext
<1>4. CASE AfterTheRun
  <2>1. CASE Report
    <3>1. queue = <<>> /\ batch = <<>> /\ AllReturned
      BY <1>4 DEF AfterTheRun, RunInv, ChannelInv
    <3>2. Len(Stream) = 0
      BY <3>1, StreamOf DEF Stream
    <3>3. Gone = Tasks
      BY <3>1, FirmwareAssumption DEF Gone, AllReturned
    <3> HIDE DEF Stream, Gone
    <3>4. finished_tasks = Gone
      BY <3>2, OrderlyEmpty DEF FeedInv
    <3> QED
      BY <2>1, <3>3, <3>4, SupervisedAssumption DEF DetectorNext
  <2> QED
    BY <1>4, <2>1 DEF AfterTheRun, DetectorNext
<1> QED
  BY <1>1, <1>2, <1>3, <1>4 DEF SupervisedNext

(***************************************************************************)
(* For any tasks, iterations, readings, timeout and period: no event of a  *)
(* task is delivered after its TASK_DONE, and there is no report before    *)
(* the TASK_DONE of all, so that the watchdog is used as its specification *)
(* assumes.                                                                *)
(***************************************************************************)
THEOREM WatchdogIsFed ==
  ASSUME "TASK_DONE" \in Registered
  PROVE  SupervisedSpec => FeedsDetector
<1>1. SupervisedInit => DetectorInit
  BY DEF SupervisedInit
<1>2. ASSUME RunInv, [SupervisedNext]_supervisedVars
      PROVE  RunInv'
  BY <1>2, SupervisedStep, RunInvNext
<1>3. SupervisedInit => RunInv
  BY RunInvInit DEF SupervisedInit
<1>4. RunInv /\ RunInv' /\ FeedInv /\ [SupervisedNext]_supervisedVars => FeedInv'
  BY FeedInvNext
<1>5. RunInv /\ FeedInv /\ [SupervisedNext]_supervisedVars
        => [DetectorNext]_detectorVars
  BY SupervisedFeedsDetector
<1> QED
  BY <1>1, <1>2, <1>3, <1>4, <1>5, FeedInvInit, PTL
     DEF SupervisedSpec, FeedsDetector, DetectorSpec

-----------------------------------------------------------------------------
(***************************************************************************)
(* The timing checker.  A delivered temperature is one of a reading.       *)
(***************************************************************************)
AtSample == place[SENSOR] = "sensor_data" /\ stage[SENSOR] = "sample"

ReadOnly(s) == \A k \in 1 .. Len(s) : s[k].type = "SENSOR" => s[k].pair \in Readings

ReadInv == (AtSample => held \in Readings) /\ ReadOnly(Stream)

(* What a thread's step may do to a reading on its way.                    *)
ReadStep ==
  \/ held' \in Readings /\ queue' = queue
  \/ AtSample /\ ~AtSample' /\ SampleHumidity
  \/ /\ AtSample' => AtSample
     /\ held' = held
     /\ \/ queue' = queue
        \/ \E e : e.type # "SENSOR" /\ Push(e)

LEMMA ThreadIsReadStep ==
  ASSUME RunInv, NEW t \in Tasks, Thread(t)
  PROVE  ReadStep
<1>0. /\ place \in [AllTasks -> Places] /\ stage \in [AllTasks -> Stages]
      /\ t \in AllTasks /\ SENSOR \in AllTasks
  BY FirmwareAssumption DEF RunInv, WhereInv, WhereTypeOK, AllTasks, SENSOR, LOGGER,
     ALARM
<1>1. CASE t = SENSOR /\ sensor_task
  <2>1. CASE Access(SENSOR, "sensor_data", "first", "sample") /\ StoreTemperature
    BY <2>1 DEF StoreTemperature, ReadStep, bridgeVars
  <2>2. CASE Access(SENSOR, "sensor_data", "sample", "second") /\ SampleHumidity
    BY <1>0, <2>2 DEF Access, At, Stay, ReadStep, AtSample
  <2>3. CASE /\ At(SENSOR, "sensor_data", "second")
             /\ StoreHumidity
             /\ EndIteration(SENSOR)
    <3>1. \A p : Entry(p) # "sample"
      BY DEF Entry
    <3> QED
      BY <1>0, <2>3, <3>1 DEF EndIteration, ReadStep, AtSample, StoreHumidity, locals,
         bridgeVars
  <2> QED
    BY <1>1, <2>1, <2>2, <2>3 DEF sensor_task
<1>2. CASE t = CONTROL /\ control_task
  <2>1. Moves(t)
    BY <1>2, StepMoves DEF Access, RunInv, WhereInv, control_task, ReportControlInputs,
       PwmSet, GpioWritePump
  <2>2. (AtSample' => AtSample) /\ held' = held
    BY <1>0, <1>2, <2>1, TaskNumbers DEF Moves, AtSample, control_task, LoadTemperature,
       LoadHumidity, LoadTarget, ReportControlInputs, StorePump, StoreFan, PwmSet,
       GpioWritePump, Call, locals
  <2>3. \/ queue' = queue
        \/ \E e : e.type # "SENSOR" /\ Push(e)
    BY <1>2 DEF control_task, LoadTemperature, LoadHumidity, LoadTarget,
       ReportControlInputs, StorePump, StoreFan, PwmSet, GpioWritePump, Call,
       PairEvent, ValueEvent, bridgeVars
  <2> QED
    BY <2>2, <2>3 DEF ReadStep
<1>3. CASE t # SENSOR /\ t # CONTROL
  <2>1. AtSample' => AtSample
    BY <1>0, <1>3, OthersMove DEF Moves, AtSample
  <2> QED
    BY <1>3, <2>1, OthersLeaveHumidity DEF ReadStep
<1>4. CASE Finish(t)
  <2>1. AtSample' => AtSample
    BY <1>0, <1>4 DEF Finish, SignalDone, Exit, Goto, AtSample
  <2> QED
    BY <1>4, <2>1 DEF Finish, SignalDone, Exit, Call, locals, ReadStep, SignalEvent,
       ValueEvent
<1> QED
  BY <1>1, <1>2, <1>3, <1>4, TaskNumbers DEF Thread, SENSOR, ALARM, LOGGER, COMM, CONTROL

LEMMA ReadOnlyEnds ==
  ASSUME NEW s \in Seq(Events), ReadOnly(s)
  PROVE  /\ \A e \in Events : (e.type = "SENSOR" => e.pair \in Readings)
              => ReadOnly(Append(s, e))
         /\ s # <<>> => /\ ReadOnly(Tail(s))
                        /\ Head(s).type = "SENSOR" => Head(s).pair \in Readings
<1> DEFINE n == Len(s)
<1>1. n \in Nat /\ \A k \in 1 .. n : s[k].type = "SENSOR" => s[k].pair \in Readings
  BY LenProperties DEF ReadOnly
<1>2. ASSUME NEW e \in Events, e.type = "SENSOR" => e.pair \in Readings
      PROVE  ReadOnly(Append(s, e))
  <2> DEFINE a == Append(s, e)
  <2>1. Len(a) = n + 1 /\ a[n + 1] = e /\ \A k \in 1 .. n : a[k] = s[k]
    BY AppendProperties
  <2> HIDE DEF a, n
  <2>2. ReadOnly(a)
    BY <1>1, <1>2, <2>1 DEF ReadOnly
  <2> QED
    BY <2>2 DEF a
<1>3. ASSUME s # <<>>
      PROVE  /\ ReadOnly(Tail(s))
             /\ Head(s).type = "SENSOR" => Head(s).pair \in Readings
  <2> DEFINE r == Tail(s)
  <2>1. n >= 1 /\ Head(s) = s[1] /\ Len(r) = n - 1 /\ \A k \in 1 .. n - 1 : r[k] = s[k + 1]
    BY <1>3, HeadTailProperties, LenProperties, EmptySeq
  <2> HIDE DEF r, n
  <2>2. ReadOnly(r)
    BY <1>1, <2>1 DEF ReadOnly
  <2> QED
    BY <1>1, <2>1, <2>2 DEF r
<1> QED
  BY <1>2, <1>3

LEMMA ReadInvNext ==
  ASSUME RunInv, RunInv', ReadInv, [SystemANext]_systemAVars
  PROVE  ReadInv'
<1>0. /\ queue' \in Seq(Events) /\ queue \in Seq(Events) /\ batch \in Seq(Events)
      /\ Stream \in Seq(Events)
  BY StreamOf DEF RunInv, DataInv, BridgeTypeOK, ChannelInv, Stream
<1>1. ASSUME NEW t \in Tasks, Dut(t)
      PROVE  ReadInv'
  <2>0. ReadStep /\ batch' = batch
    BY <1>1, ThreadIsReadStep DEF Dut, dutBridgeVars
  <2>1. ASSUME queue' = queue
        PROVE  Stream' = Stream
    BY <2>0, <2>1 DEF Stream
  <2>2. ASSUME NEW e, Push(e), e.type = "SENSOR" => e.pair \in Readings
        PROVE  ReadOnly(Stream')
    <3>1. CASE e.type \notin Registered
      BY <2>1, <2>2, <3>1 DEF Push, ReadInv
    <3>2. CASE e.type \in Registered
      <4>1. e \in Events /\ queue' = Append(queue, e)
        BY <1>0, <2>2, <3>2, PushedIsEvent
      <4>2. Stream' = Append(Stream, e)
        BY <1>0, <2>0, <4>1, StreamOf DEF Stream
      <4> HIDE DEF Stream
      <4> QED
        BY <1>0, <2>2, <4>1, <4>2, ReadOnlyEnds DEF ReadInv
    <3> QED
      BY <3>1, <3>2
  <2>3. CASE held' \in Readings /\ queue' = queue
    BY <2>1, <2>3 DEF ReadInv
  <2>4. CASE AtSample /\ ~AtSample' /\ SampleHumidity
    <3>1. PairEvent("SENSOR", SENSOR, held).pair \in Readings
      BY <2>4 DEF ReadInv, PairEvent
    <3>2. ReadOnly(Stream')
      BY <2>2, <2>4, <3>1 DEF SampleHumidity
    <3> QED
      BY <2>4, <3>2 DEF ReadInv
  <2>5. CASE /\ AtSample' => AtSample
             /\ held' = held
             /\ \/ queue' = queue
                \/ \E e : e.type # "SENSOR" /\ Push(e)
    <3>1. ReadOnly(Stream')
      BY <2>1, <2>2, <2>5 DEF ReadInv
    <3> QED
      BY <2>5, <3>1 DEF ReadInv
  <2> QED
    BY <2>0, <2>3, <2>4, <2>5 DEF ReadStep
<1>2. ASSUME UNCHANGED <<place, stage, held>>, Stream' = Stream
      PROVE  ReadInv'
  BY <1>2 DEF ReadInv, AtSample
<1>3. ASSUME NEW t \in Tasks, Spawn(t) \/ SpawnFails(t), UNCHANGED dutBridgeVars
      PROVE  ReadInv'
  <2>1. UNCHANGED <<held, queue, batch>>
    BY <1>3 DEF Spawn, SpawnFails, Creation, locals, dutBridgeVars
  <2>2. PICK p : Goto(t, p)
    BY <1>3 DEF Spawn, SpawnFails, Creation
  <2>3. stage \in [AllTasks -> Stages] /\ place \in [AllTasks -> Places]
    BY DEF RunInv, WhereInv, WhereTypeOK
  <2>4. Entry(p) # "sample"
    BY DEF Entry
  <2>5. AtSample' => AtSample
    BY <2>2, <2>3, <2>4, TaskNumbers, FirmwareAssumption DEF Goto, AtSample, AllTasks,
       SENSOR, LOGGER, ALARM
  <2>6. Stream' = Stream
    BY <2>1 DEF Stream
  <2> QED
    BY <2>1, <2>5, <2>6 DEF ReadInv
<1>4. CASE (StartPolling \/ Poller) /\ UNCHANGED <<where, globals, locals>>
  <2>0. UNCHANGED <<place, stage, held>>
    BY <1>4 DEF where, locals
  <2>1. CASE Deliver
    <3>1. batch # <<>> /\ batch' = Tail(batch) /\ queue' = queue
      BY <2>1 DEF Deliver, bridgeVars
    <3>2. Stream # <<>> /\ Stream' = Tail(Stream)
      BY <1>0, <3>1, StreamOf DEF Stream
    <3> HIDE DEF Stream
    <3>3. ReadOnly(Stream')
      BY <1>0, <3>2, ReadOnlyEnds DEF ReadInv
    <3> QED
      BY <2>0, <3>3 DEF ReadInv, AtSample
  <2>2. CASE DrainSwap
    <3>1. Stream' = Stream
      BY <1>0, <2>2, StreamOf DEF DrainSwap, RunInv, ChannelInv, Stream
    <3> QED
      BY <1>2, <2>0, <3>1
  <2>3. CASE StartPolling \/ CheckActive \/ EndDrain
    BY <1>2, <2>0, <2>3 DEF StartPolling, CheckActive, EndDrain, bridgeVars, Stream
  <2> QED
    BY <1>4, <2>1, <2>2, <2>3 DEF Poller
<1>5. CASE Driver \/ UNCHANGED systemAVars
  BY <1>2, <1>5 DEF Driver, CommDriver, InjectType, InjectValue, systemAVars,
     firmwareVars, where, locals, bridgeVars, dutBridgeVars, Stream
<1> QED
  BY <1>1, <1>3, <1>4, <1>5 DEF SystemANext, Bridge, RunPhase, CreateThreads, Joined

(***************************************************************************)
(* The stamps that travel with the events: ascending, between the stamp    *)
(* delivered last and the clock published last, and each of them the clock *)
(* of this poll or of the one before.                                      *)
(***************************************************************************)
Stamped(s, low, high, clocks) ==
  /\ \A j, k \in 1 .. Len(s) : j < k => s[j] <= s[k]
  /\ \A k \in 1 .. Len(s) : s[k] \in clocks /\ low <= s[k] /\ s[k] <= high

LEMMA StampedAppend ==
  ASSUME NEW s \in Seq(Nat), NEW low \in Nat, NEW high \in Nat, NEW clocks,
         Stamped(s, low, high, clocks), low <= high, high \in clocks
  PROVE  Stamped(Append(s, high), low, high, clocks)
<1> DEFINE a == Append(s, high)  n == Len(s)
<1>1. /\ n \in Nat /\ Len(a) = n + 1 /\ a[n + 1] = high
      /\ \A k \in 1 .. n : a[k] = s[k]
  BY AppendProperties, LenProperties
<1>2. /\ \A j, k \in 1 .. n : j < k => s[j] <= s[k]
      /\ \A k \in 1 .. n : s[k] \in clocks /\ low <= s[k] /\ s[k] <= high
  BY DEF Stamped
<1> HIDE DEF a, n
<1>3. \A k \in 1 .. Len(a) : a[k] \in clocks /\ low <= a[k] /\ a[k] <= high
  BY <1>1, <1>2
<1>4. \A j, k \in 1 .. Len(a) : j < k => a[j] <= a[k]
  BY <1>1, <1>2
<1>5. Stamped(a, low, high, clocks)
  BY <1>3, <1>4 DEF Stamped
<1> QED
  BY <1>5 DEF a

LEMMA StampedTail ==
  ASSUME NEW s \in Seq(Nat), s # <<>>, NEW low \in Nat, NEW high \in Nat, NEW clocks,
         Stamped(s, low, high, clocks)
  PROVE  /\ Head(s) \in Nat /\ Head(s) \in clocks /\ low <= Head(s) /\ Head(s) <= high
         /\ Stamped(Tail(s), Head(s), high, clocks)
         /\ Stamped(Tail(s), low, high, clocks)
         /\ Tail(s) \in Seq(Nat)
<1> DEFINE r == Tail(s)  n == Len(s)  m == Len(r)  h == Head(s)
<1>1. /\ n \in Nat /\ n >= 1 /\ m = n - 1 /\ h = s[1] /\ r \in Seq(Nat) /\ h \in Nat
      /\ \A k \in 1 .. m : r[k] = s[k + 1]
  BY HeadTailProperties, LenProperties, EmptySeq
<1>2. /\ \A j, k \in 1 .. n : j < k => s[j] <= s[k]
      /\ \A k \in 1 .. n : s[k] \in clocks /\ low <= s[k] /\ s[k] <= high
  BY DEF Stamped
<1> HIDE DEF r, n, m, h
<1>3. \A k \in 1 .. m : k + 1 \in 1 .. n /\ 1 \in 1 .. n /\ 1 < k + 1
  BY <1>1
<1>4. h \in clocks /\ low <= h /\ h <= high
  BY <1>1, <1>2
<1>5. \A k \in 1 .. m : r[k] \in clocks /\ low <= r[k] /\ r[k] <= high /\ h <= r[k]
  BY <1>1, <1>2, <1>3
<1>6. \A j, k \in 1 .. m : j < k => r[j] <= r[k]
  BY <1>1, <1>2, <1>3
<1>7. Stamped(r, h, high, clocks) /\ Stamped(r, low, high, clocks)
  BY <1>5, <1>6 DEF Stamped, m
<1> QED
  BY <1>1, <1>4, <1>7 DEF r, h

LEMMA StampedLater ==
  ASSUME NEW s \in Seq(Nat), NEW low \in Nat, NEW high \in Nat, NEW later \in Nat,
         NEW clocks, Stamped(s, low, high, clocks), high <= later
  PROVE  Stamped(s, low, later, clocks)
<1>1. \A k \in 1 .. Len(s) : s[k] \in Nat
  BY ElementOfSeq
<1> QED
  BY <1>1 DEF Stamped

AllAt(s, clock) == \A k \in 1 .. Len(s) : s[k] = clock

LEMMA AllAtStamped ==
  ASSUME NEW s \in Seq(Nat), NEW clock \in Nat, NEW low, NEW clocks,
         AllAt(s, clock), low <= clock, clock \in clocks
  PROVE  Stamped(s, low, clock, clocks)
BY DEF AllAt, Stamped

LEMMA AllAtAppend ==
  ASSUME NEW s \in Seq(Nat), NEW clock \in Nat, AllAt(s, clock)
  PROVE  AllAt(Append(s, clock), clock)
<1> DEFINE a == Append(s, clock)  n == Len(s)
<1>1. /\ n \in Nat /\ Len(a) = n + 1 /\ a[n + 1] = clock
      /\ \A k \in 1 .. n : a[k] = s[k]
  BY AppendProperties, LenProperties
<1> HIDE DEF a, n
<1>2. AllAt(a, clock)
  BY <1>1 DEF AllAt, n
<1> QED
  BY <1>2 DEF a

LEMMA NothingStamped ==
  ASSUME NEW low, NEW high, NEW clocks, NEW clock
  PROVE  Stamped(<<>>, low, high, clocks) /\ AllAt(<<>>, clock)
BY DEF Stamped, AllAt

StampTypes ==
  /\ sim_time \in Nat /\ time \in Nat /\ previous \in Nat /\ last_stamp \in Nat
  /\ stamps \in Seq(Nat) /\ batch_stamps \in Seq(Nat)
  /\ Len(stamps) = Len(queue) /\ Len(batch_stamps) = Len(batch)

OnTime ==
  /\ last_stamp <= sim_time /\ sim_time \in {previous, time} /\ previous <= time
  /\ poller \in {"swap", "final_swap", "deliver", "final_deliver"} => sim_time = time
  /\ Stamped(stamps, last_stamp, sim_time, {previous, time})
  /\ Stamped(batch_stamps, last_stamp, sim_time, {previous, time})
  /\ poller \in {"deliver", "final_deliver"} => AllAt(stamps, time)

StampInv == StampTypes /\ (poller # "joined" => OnTime)

LEMMA StampInvInit == SupervisedInit => StampInv
BY NothingStamped DEF SupervisedInit, SystemAInit, FirmwareInit, BridgeInit, DutBridgeInit,
   TimingInit, StampInv, StampTypes, OnTime

(* A step of the firmware pushes at most one event.                        *)
LEMMA FirmwarePushes ==
  ASSUME RunInv, RunInv', FirmwareStep
  PROVE  /\ queue' = queue \/ \E e : queue' = Append(queue, e)
         /\ batch' = batch
         /\ poller' = poller \/ (poller = "spawn" /\ poller' = "check")
<1>1. CASE CreateThreads
  BY <1>1 DEF CreateThreads, StartPolling, Spawn, SpawnFails, Creation, dutBridgeVars,
     bridgeVars
<1>2. ASSUME NEW t \in Tasks, Dut(t)
      PROVE  /\ queue' = queue \/ \E e : queue' = Append(queue, e)
             /\ batch' = batch /\ poller' = poller
  <2>1. ChannelStep(t) /\ batch' = batch /\ poller' = poller
    BY <1>2, ThreadIsChannelStep DEF RunInv, WhereInv, Dut, dutBridgeVars
  <2>2. queue' = queue \/ \E e : Push(e)
    BY <2>1 DEF ChannelStep, Speaks, SignalDone, Exit, Call
  <2> QED
    BY <2>1, <2>2 DEF Push
<1> QED
  BY <1>1, <1>2 DEF FirmwareStep

LEMMA FirmwareKeepsStamps ==
  ASSUME RunInv, RunInv', StampInv, FirmwareStep
  PROVE  StampInv'
<1>1. /\ UNCHANGED <<sim_time, batch_stamps, time, previous, last_stamp>>
      /\ stamps' = IF queue' = queue THEN stamps ELSE Append(stamps, sim_time)
  BY DEF FirmwareStep, timingOwn
<1>2. queue \in Seq(Events)
  BY DEF RunInv, DataInv, BridgeTypeOK
<1>3. CASE queue' = queue
  BY <1>1, <1>3, FirmwarePushes DEF StampInv, StampTypes, OnTime
<1>4. CASE queue' # queue
  <2>1. PICK e : queue' = Append(queue, e)
    BY <1>4, FirmwarePushes
  <2>2. Len(queue') = Len(queue) + 1
    <3>1. queue \in Seq(Events \cup {e})
      BY <1>2
    <3> QED
      BY <2>1, <3>1, AppendProperties
  <2>3. stamps' = Append(stamps, sim_time)
    BY <1>1, <1>4
  <2>4. stamps' \in Seq(Nat) /\ Len(stamps') = Len(stamps) + 1
    BY <2>3, AppendProperties DEF StampInv, StampTypes
  <2>5. StampTypes'
    BY <1>1, <2>2, <2>4, FirmwarePushes DEF StampInv, StampTypes
  <2>6. ASSUME OnTime
        PROVE  Stamped(stamps', last_stamp, sim_time, {previous, time})
    BY <2>3, <2>6, StampedAppend DEF StampInv, StampTypes, OnTime
  <2>7. ASSUME OnTime, poller \in {"deliver", "final_deliver"}
        PROVE  AllAt(stamps', time)
    BY <2>3, <2>7, AllAtAppend DEF StampInv, StampTypes, OnTime
  <2>8. poller' # "joined" => OnTime'
    BY <1>1, <2>6, <2>7, FirmwarePushes DEF StampInv, OnTime
  <2> QED
    BY <2>5, <2>8 DEF StampInv
<1> QED
  BY <1>3, <1>4

(* What TellCheckers tells the timing checker.                             *)
LEMMA ToldWhen ==
  ASSUME NEW event, NEW stamp, TellCheckers(event, stamp)
  PROVE  /\ \/ event.type = "SENSOR" /\ OnSensor(event.pair.temperature, stamp)
            \/ OnActuatorReaction(stamp)
            \/ UNCHANGED timingVars
         /\ UNCHANGED <<time, previous>>
         /\ last_stamp' = last_stamp \/ last_stamp' = stamp
<1>1. \/ event.type = "SENSOR" /\ OnSensor(event.pair.temperature, stamp)
      \/ OnActuatorReaction(stamp)
      \/ UNCHANGED timingVars
  BY DEF TellCheckers
<1> QED
  BY <1>1 DEF OnSensor, OnActuatorReaction, timingVars, clockVars

LEMMA DeliverKeepsStamps ==
  ASSUME RunInv, StampInv, DeliverToAll
  PROVE  StampInv' /\ Head(batch_stamps) \in Stamps
<1>1. /\ batch # <<>> /\ batch' = Tail(batch) /\ batch_stamps' = Tail(batch_stamps)
      /\ poller \in {"deliver", "final_deliver"} /\ OnTime /\ sim_time = time
      /\ UNCHANGED <<queue, poller, sim_time, stamps, time, previous>>
      /\ last_stamp' = last_stamp \/ last_stamp' = Head(batch_stamps)
  BY ToldWhen DEF DeliverToAll, Deliver, bridgeVars, StampInv, OnTime
<1>2. batch \in Seq(Events) /\ batch_stamps \in Seq(Nat) /\ stamps \in Seq(Nat)
      /\ Len(batch_stamps) = Len(batch)
  BY DEF RunInv, ChannelInv, StampInv, StampTypes
<1>3. batch_stamps # <<>>
  BY <1>1, <1>2, EmptySeq
<1>4. Len(batch') = Len(batch) - 1 /\ Len(batch_stamps') = Len(batch) - 1
  BY <1>1, <1>2, <1>3, HeadTailProperties
<1> DEFINE h == Head(batch_stamps)
<1>5. /\ h \in Nat /\ h \in {previous, time} /\ last_stamp <= h /\ h <= time
      /\ Stamped(batch_stamps', h, time, {previous, time})
      /\ Stamped(batch_stamps', last_stamp, time, {previous, time})
      /\ batch_stamps' \in Seq(Nat)
  BY <1>1, <1>2, <1>3, StampedTail DEF StampInv, StampTypes, OnTime
<1> HIDE DEF h
<1>6. last_stamp' \in Nat /\ last_stamp' <= time
      /\ Stamped(batch_stamps', last_stamp', time, {previous, time})
  BY <1>1, <1>5 DEF StampInv, StampTypes, OnTime, h
<1>7. Stamped(stamps, last_stamp', time, {previous, time})
  BY <1>1, <1>2, <1>6, AllAtStamped DEF StampInv, StampTypes, OnTime
<1>8. StampTypes'
  BY <1>1, <1>2, <1>4, <1>5, <1>6 DEF StampInv, StampTypes
<1>9. OnTime'
  BY <1>1, <1>6, <1>7 DEF OnTime
<1>10. h \in Stamps
  BY <1>5 DEF Stamps, StampInv, StampTypes
<1> QED
  BY <1>8, <1>9, <1>10 DEF StampInv, h

LEMMA StampInvNext ==
  ASSUME RunInv, RunInv', StampInv, [SupervisedNext]_supervisedVars
  PROVE  StampInv'
<1>1. CASE CheckAndPublish
  <2>1. UNCHANGED <<queue, batch, stamps, batch_stamps, time, previous, last_stamp>>
        /\ sim_time' = time /\ poller = "check" /\ poller' \in {"swap", "final_swap"}
    BY <1>1 DEF CheckAndPublish, CheckActive, bridgeVars, timingOwn
  <2>2. ASSUME NEW s \in Seq(Nat), OnTime,
               Stamped(s, last_stamp, sim_time, {previous, time})
        PROVE  Stamped(s, last_stamp, time, {previous, time})
    <3>1. sim_time <= time
      BY <2>2 DEF OnTime, StampInv, StampTypes
    <3> QED
      BY <2>2, <3>1, StampedLater DEF StampInv, StampTypes
  <2>3. OnTime /\ stamps \in Seq(Nat) /\ batch_stamps \in Seq(Nat)
    BY <2>1 DEF StampInv, StampTypes
  <2>4. /\ Stamped(stamps, last_stamp, time, {previous, time})
        /\ Stamped(batch_stamps, last_stamp, time, {previous, time})
    BY <2>2, <2>3 DEF OnTime
  <2>5. last_stamp <= time
    BY <2>3 DEF OnTime, StampInv, StampTypes
  <2>6. OnTime'
    BY <2>1, <2>3, <2>4, <2>5 DEF OnTime
  <2>7. StampTypes'
    BY <2>1 DEF StampInv, StampTypes
  <2> QED
    BY <2>6, <2>7 DEF StampInv
<1>2. CASE Drain
  BY <1>2, NothingStamped, EmptySeq
     DEF Drain, DrainSwap, timingOwn, StampInv, StampTypes, OnTime
<1>3. CASE EndPoll
  <2>1. UNCHANGED <<queue, batch, sim_time, stamps, batch_stamps>> /\ batch = <<>>
    BY <1>3 DEF EndPoll, EndDrain, bridgeVars, stampVars
  <2>2. CASE poller = "deliver" /\ NextPeriod /\ NextPoll
    <3>1. /\ poller' = "check" /\ previous' = time /\ last_stamp' = last_stamp
          /\ time' = time + period_ms * MS_UNITS
      BY <1>3, <2>2 DEF EndPoll, EndDrain, NextPoll, Wait
    <3>2. time' \in Nat /\ time <= time'
      BY <3>1, ClockAssumption DEF MS_UNITS, StampInv, StampTypes
    <3>3. /\ Stamped(stamps', last_stamp', sim_time', {previous', time'})
          /\ Stamped(batch_stamps', last_stamp', sim_time', {previous', time'})
      <4>1. batch_stamps = <<>>
        BY <2>1, EmptySeq DEF StampInv, StampTypes
      <4> QED
        BY <2>1, <2>2, <3>1, <4>1, NothingStamped, AllAtStamped
           DEF StampInv, StampTypes, OnTime
    <3>4. OnTime /\ sim_time = time
      BY <2>2 DEF StampInv, OnTime
    <3>5. StampTypes'
      BY <2>1, <3>1, <3>2 DEF StampInv, StampTypes
    <3>6. OnTime'
      BY <2>1, <3>1, <3>2, <3>3, <3>4 DEF OnTime
    <3> QED
      BY <3>5, <3>6 DEF StampInv
  <2>3. CASE UNCHANGED timingVars
    <3>1. /\ UNCHANGED <<time, previous, last_stamp>>
          /\ poller \in {"deliver", "final_deliver"} /\ poller' \in {"check", "joined"}
      BY <1>3, <2>3 DEF timingVars, clockVars, EndPoll, EndDrain
    <3>2. StampTypes'
      BY <2>1, <3>1 DEF StampInv, StampTypes
    <3>3. OnTime
      BY <3>1 DEF StampInv
    <3>4. OnTime'
      BY <2>1, <3>1, <3>3 DEF OnTime
    <3> QED
      BY <3>2, <3>4 DEF StampInv
  <2> QED
    BY <1>3, <2>2, <2>3 DEF EndPoll
<1>4. CASE AfterTheRun
  <2>1. UNCHANGED <<queue, batch, sim_time, stamps, batch_stamps, poller>>
        /\ poller = "joined"
    BY <1>4 DEF AfterTheRun, systemAVars, firmwareVars, bridgeVars, dutBridgeVars,
       stampVars
  <2>2. time' \in Nat /\ previous' \in Nat /\ last_stamp' \in Nat
    <3>1. CASE NextPoll
      BY <3>1, ClockAssumption DEF NextPoll, Wait, MS_UNITS, StampInv, StampTypes
    <3>2. CASE UNCHANGED timingVars
      BY <3>2 DEF timingVars, clockVars, StampInv, StampTypes
    <3> QED
      BY <1>4, <3>1, <3>2 DEF AfterTheRun
  <2> QED
    BY <2>1, <2>2 DEF StampInv, StampTypes
<1>5. CASE SilenceProbe \/ UNCHANGED supervisedVars
  BY <1>5 DEF SilenceProbe, supervisedVars, systemAVars, firmwareVars, bridgeVars,
     dutBridgeVars, stampVars, timingVars, clockVars, timingOwn, StampInv, StampTypes,
     OnTime
<1> QED
  BY <1>1, <1>2, <1>3, <1>4, <1>5, FirmwareKeepsStamps, DeliverKeepsStamps
     DEF SupervisedNext

LEMMA SupervisedFeedsTiming ==
  ASSUME RunInv, ReadInv, StampInv, [SupervisedNext]_supervisedVars
  PROVE  [TimingNext]_timingVars
<1>1. CASE FirmwareStep \/ CheckAndPublish \/ Drain \/ SilenceProbe
             \/ UNCHANGED supervisedVars
  BY <1>1 DEF FirmwareStep, CheckAndPublish, Drain, SilenceProbe, supervisedVars,
     timingOwn, timingVars, clockVars
<1>2. CASE DeliverToAll
  <2> DEFINE e == Head(batch)  stamp == Head(batch_stamps)
  <2>1. stamp \in Stamps
    BY <1>2, DeliverKeepsStamps
  <2>2. e.type = "SENSOR" => e.pair.temperature \in Temperatures
    <3>1. batch # <<>> /\ batch \in Seq(Events) /\ queue \in Seq(Events)
      BY <1>2 DEF DeliverToAll, Deliver, RunInv, ChannelInv, DataInv, BridgeTypeOK
    <3>2. Stream \in Seq(Events) /\ Stream # <<>> /\ Head(Stream) = e
      BY <3>1, StreamOf DEF Stream
    <3> HIDE DEF Stream, e
    <3>3. e.type = "SENSOR" => e.pair \in Readings
      BY <3>2, ReadOnlyEnds DEF ReadInv
    <3> QED
      BY <3>3, SupervisedAssumption
  <2>3. \/ e.type = "SENSOR" /\ OnSensor(e.pair.temperature, stamp)
        \/ OnActuatorReaction(stamp)
        \/ UNCHANGED timingVars
    BY <1>2, ToldWhen DEF DeliverToAll
  <2> QED
    BY <2>1, <2>2, <2>3 DEF TimingNext
<1>3. CASE EndPoll \/ AfterTheRun
  BY <1>3 DEF EndPoll, AfterTheRun, TimingNext
<1> QED
  BY <1>1, <1>2, <1>3 DEF SupervisedNext

(***************************************************************************)
(* For any tasks, iterations, readings and period: the events reach the    *)
(* timing checker in the order of their stamps and with the clock of this  *)
(* poll or of the one before.                                              *)
(***************************************************************************)
THEOREM TimingCheckerIsFed == SupervisedSpec => FeedsTimingChecker
<1>1. SupervisedInit => TimingInit /\ RunInv /\ StampInv
  BY RunInvInit, StampInvInit DEF SupervisedInit
<1>2. SupervisedInit => ReadInv
  <2> SUFFICES ASSUME SupervisedInit
               PROVE  ReadInv
    OBVIOUS
  <2>1. batch \o queue = <<>> /\ stage = [t \in AllTasks |-> "call"]
    BY StreamOf DEF SupervisedInit, SystemAInit, FirmwareInit, BridgeInit,
       DutBridgeInit
  <2>2. Len(<<>>) = 0
    OBVIOUS
  <2> QED
    BY <2>1, <2>2, TaskNumbers DEF ReadInv, ReadOnly, Stream, AtSample, AllTasks,
       SENSOR, LOGGER, ALARM
<1>3. RunInv /\ [SupervisedNext]_supervisedVars => RunInv'
  BY SupervisedStep, RunInvNext
<1>4. RunInv /\ RunInv' /\ ReadInv /\ [SupervisedNext]_supervisedVars => ReadInv'
  BY SupervisedStep, ReadInvNext
<1>5. RunInv /\ RunInv' /\ StampInv /\ [SupervisedNext]_supervisedVars => StampInv'
  BY StampInvNext
<1>6. RunInv /\ ReadInv /\ StampInv /\ [SupervisedNext]_supervisedVars
        => [TimingNext]_timingVars
  BY SupervisedFeedsTiming
<1> QED
  BY <1>1, <1>2, <1>3, <1>4, <1>5, <1>6, PTL
     DEF SupervisedSpec, FeedsTimingChecker, TimingSpec

-----------------------------------------------------------------------------
(***************************************************************************)
(* Every task is heard of.  A task that has spoken - it has gone round     *)
(* once, or is past its first HAL call - is tracked by the watchdog or has *)
(* a heartbeat on its way to it.                                           *)
(***************************************************************************)
Heartbeat(e) == e.type \notin {"TASK_DONE", "MUTEX_WAIT"}

Spoken(t) ==
  \/ iter[t] > 0
  \/ t = COMM /\ place[t] \in {"uart", "target_temp", "system_enabled"}
              /\ ~(place[t] = "uart" /\ stage[t] = "call")
  \/ t = SENSOR /\ place[t] = "sensor_data" /\ stage[t] = "second"

Ended(t) == place[t] \in {"done", "exit", "returned"}

Heralds(s, t) == \E k \in 1 .. Len(s) : Heartbeat(s[k]) /\ s[k].task_id = t

HeardInv ==
  \A t \in Tasks : /\ Spoken(t) => t \in tracked \/ Heralds(Stream, t)
                   /\ Ended(t) => iter[t] > 0

LEMMA HeraldsEnds ==
  ASSUME NEW s \in Seq(Events), NEW t
  PROVE  /\ \A e \in Events : /\ Heralds(s, t) => Heralds(Append(s, e), t)
                              /\ Heartbeat(e) /\ e.task_id = t => Heralds(Append(s, e), t)
         /\ s # <<>> /\ Heralds(s, t) =>
              \/ Heralds(Tail(s), t)
              \/ Heartbeat(Head(s)) /\ Head(s).task_id = t
<1> DEFINE n == Len(s)
<1>1. n \in Nat
  BY LenProperties
<1>2. ASSUME NEW e \in Events
      PROVE  /\ Heralds(s, t) => Heralds(Append(s, e), t)
             /\ Heartbeat(e) /\ e.task_id = t => Heralds(Append(s, e), t)
  <2> DEFINE a == Append(s, e)
  <2>1. Len(a) = n + 1 /\ a[n + 1] = e /\ \A k \in 1 .. n : a[k] = s[k]
    BY AppendProperties
  <2>2. n + 1 \in 1 .. Len(a) /\ \A k \in 1 .. n : k \in 1 .. Len(a)
    BY <1>1, <2>1
  <2> HIDE DEF a
  <2>3. /\ Heralds(s, t) => Heralds(a, t)
        /\ Heartbeat(e) /\ e.task_id = t => Heralds(a, t)
    BY <2>1, <2>2 DEF Heralds
  <2> QED
    BY <2>3 DEF a
<1>3. ASSUME s # <<>>, NEW k \in 1 .. n, Heartbeat(s[k]), s[k].task_id = t
      PROVE  \/ Heralds(Tail(s), t)
             \/ Heartbeat(Head(s)) /\ Head(s).task_id = t
  <2> DEFINE r == Tail(s)
  <2>1. /\ Head(s) = s[1] /\ Len(r) = n - 1
        /\ \A i \in 1 .. n - 1 : r[i] = s[i + 1]
    BY <1>3, HeadTailProperties
  <2> HIDE DEF r, n
  <2>2. CASE k # 1
    <3>1. k - 1 \in 1 .. Len(r) /\ r[k - 1] = s[k]
      BY <1>1, <2>1, <2>2
    <3> QED
      BY <1>3, <3>1 DEF Heralds, r
  <2> QED
    BY <1>3, <2>1, <2>2
<1> QED
  BY <1>2, <1>3 DEF Heralds

(* A step of t that has it speak sends a heartbeat.                        *)
SendsHeartbeat(t) ==
  \E e : e.type \in Registered /\ Heartbeat(e) /\ e.task_id = t /\ Push(e)

HeardStep(t) ==
  /\ \A u \in AllTasks \ {t} :
       place'[u] = place[u] /\ stage'[u] = stage[u] /\ iter'[u] = iter[u]
  /\ Spoken(t)' => Spoken(t) \/ SendsHeartbeat(t)
  /\ Ended(t)' => (Ended(t) /\ iter'[t] = iter[t]) \/ iter'[t] > 0

(* The types by which the five tasks are heard.                            *)
Voices == {"SENSOR", "GPIO", "LOG", "HEARTBEAT"}

LEMMA Alone ==
  ASSUME WhereTypeOK, NEW t \in Tasks,
         (\E p : Goto(t, p)) \/ EndIteration(t) \/ (\E s : Stay(t, s))
  PROVE  /\ \A u \in AllTasks \ {t} :
              place'[u] = place[u] /\ stage'[u] = stage[u] /\ iter'[u] = iter[u]
         /\ EndIteration(t) => iter'[t] > 0
         /\ (\E p : Goto(t, p)) \/ (\E s : Stay(t, s)) => iter'[t] = iter[t]
<1>1. t \in AllTasks /\ iter[t] \in Nat
  BY FirmwareAssumption DEF WhereTypeOK
<1> QED
  BY <1>1 DEF WhereTypeOK, Goto, EndIteration, Stay

(* The steps of a task function: on to the next access, or to the next     *)
(* place, or to the next iteration; and the way out.                       *)
LEMMA StayHeard ==
  ASSUME WhereTypeOK, NEW t \in Tasks, NEW s, Stay(t, s), ~Ended(t),
         Spoken(t) \/ SendsHeartbeat(t) \/ (t # COMM /\ (t # SENSOR \/ s # "second"))
  PROVE  HeardStep(t)
<1>0. t \in AllTasks /\ stage \in [AllTasks -> Stages]
  BY FirmwareAssumption DEF WhereTypeOK
<1>1. place' = place /\ iter' = iter /\ stage'[t] = s
  BY <1>0 DEF Stay
<1>2. Spoken(t)' => Spoken(t) \/ SendsHeartbeat(t)
  BY <1>1 DEF Spoken
<1>3. ~Ended(t)'
  BY <1>1 DEF Ended
<1> QED
  BY <1>2, <1>3, Alone DEF HeardStep

LEMMA GotoHeard ==
  ASSUME WhereTypeOK, NEW t \in Tasks, NEW p, Goto(t, p),
         p \notin {"done", "exit", "returned"},
         Spoken(t) \/ SendsHeartbeat(t) \/ (t # COMM /\ t # SENSOR)
  PROVE  HeardStep(t)
<1>0. t \in AllTasks /\ place \in [AllTasks -> Places]
  BY FirmwareAssumption DEF WhereTypeOK
<1>1. iter' = iter /\ place'[t] = p
  BY <1>0 DEF Goto
<1>2. Spoken(t)' => Spoken(t) \/ SendsHeartbeat(t)
  BY <1>1 DEF Spoken
<1>3. ~Ended(t)'
  BY <1>1 DEF Ended
<1> QED
  BY <1>2, <1>3, Alone DEF HeardStep

LEMMA EndIterationHeard ==
  ASSUME WhereTypeOK, NEW t \in Tasks, EndIteration(t), Spoken(t) \/ SendsHeartbeat(t)
  PROVE  HeardStep(t)
BY Alone DEF HeardStep

LEMMA LeaveHeard ==
  ASSUME WhereTypeOK, NEW t \in Tasks, NEW p \in {"exit", "returned"}, Goto(t, p),
         Ended(t)
  PROVE  HeardStep(t)
<1>0. t \in AllTasks /\ place \in [AllTasks -> Places]
  BY FirmwareAssumption DEF WhereTypeOK
<1>1. iter' = iter /\ place'[t] = p
  BY <1>0 DEF Goto
<1>2. Spoken(t)' => Spoken(t)
  BY <1>1 DEF Spoken
<1> QED
  BY <1>1, <1>2, Alone DEF HeardStep

LEMMA ThreadIsHeard ==
  ASSUME WhereInv, Voices \subseteq Registered, NEW t \in Tasks, Thread(t)
  PROVE  HeardStep(t)
<1> USE StayHeard, GotoHeard, EndIterationHeard, LeaveHeard DEF Access, At, WhereInv
<1>0. /\ "COMM" \in Registered
      /\ {"SENSOR", "GPIO", "LOG", "HEARTBEAT"} \subseteq Registered
  BY BridgeAssumption DEF Voices
<1>1. CASE t = SENSOR /\ sensor_task
  <2>1. CASE Access(SENSOR, "sensor_data", "first", "sample") /\ StoreTemperature
    <3>1. Stay(t, "sample") /\ ~Ended(t) /\ t # COMM
      BY <1>1, <2>1, TaskNumbers DEF Ended
    <3> QED
      BY <3>1, StayHeard
  <2>2. CASE Access(SENSOR, "sensor_data", "sample", "second") /\ SampleHumidity
    <3>1. /\ PairEvent("SENSOR", SENSOR, held).task_id = t
          /\ PairEvent("SENSOR", SENSOR, held).type = "SENSOR"
      BY <1>1 DEF PairEvent
    <3>2. SendsHeartbeat(t)
      BY <1>0, <2>2, <3>1 DEF SampleHumidity, SendsHeartbeat, Heartbeat
    <3> QED
      BY <1>1, <2>2, <3>2 DEF Ended
  <2>3. CASE /\ At(SENSOR, "sensor_data", "second")
             /\ StoreHumidity
             /\ EndIteration(SENSOR)
    BY <1>1, <2>3 DEF Spoken
  <2> QED
    BY <1>1, <2>1, <2>2, <2>3 DEF sensor_task
<1>2. CASE t = CONTROL /\ control_task
  <2>0. t # COMM /\ t # SENSOR
    BY <1>2, TaskNumbers
  <2>1. CASE GpioWritePump
    <3> DEFINE e == ValueEvent("GPIO", CONTROL, "PUMP", Bit(PumpOutput))
    <3>1. e.task_id = t /\ e.type = "GPIO" /\ Push(e)
      BY <1>2, <2>1 DEF ValueEvent, GpioWritePump, Call
    <3> HIDE DEF e
    <3>2. SendsHeartbeat(t)
      BY <1>0, <3>1 DEF SendsHeartbeat, Heartbeat
    <3> QED
      BY <1>2, <2>1, <3>2 DEF GpioWritePump
  <2>2. CASE ~GpioWritePump
    BY <1>2, <2>0, <2>2 DEF control_task, ReportControlInputs, PwmSet, Ended
  <2> QED
    BY <2>1, <2>2
<1>3. CASE t = ALARM /\ alarm_task
  <2>0. t # COMM /\ t # SENSOR
    BY <1>3, TaskNumbers DEF ALARM, COMM
  <2>1. CASE GpioWriteLed
    <3> DEFINE e == ValueEvent("GPIO", ALARM, "LED",
              Bit(AlarmLedActive(view[ALARM].temperature, view[ALARM].humidity)))
    <3>1. e.task_id = t /\ e.type = "GPIO" /\ Push(e)
      BY <1>3, <2>1 DEF ValueEvent, GpioWriteLed, Call
    <3> HIDE DEF e
    <3>2. SendsHeartbeat(t)
      BY <1>0, <3>1 DEF SendsHeartbeat, Heartbeat
    <3> QED
      BY <1>3, <2>1, <3>2 DEF GpioWriteLed
  <2>2. CASE ~GpioWriteLed
    BY <1>3, <2>0, <2>2 DEF alarm_task, Ended
  <2> QED
    BY <2>1, <2>2
<1>4. CASE t = LOGGER /\ logger_task
  <2>0. t # COMM /\ t # SENSOR
    BY <1>4, TaskNumbers DEF LOGGER, COMM
  <2>1. CASE LogWrite
    <3>1. CASE iter[LOGGER] % 100 = 0
      <4>1. /\ SignalEvent("LOG", LOGGER).task_id = t
            /\ SignalEvent("LOG", LOGGER).type = "LOG"
        BY <1>4 DEF SignalEvent, ValueEvent
      <4>2. SendsHeartbeat(t)
        BY <1>0, <2>1, <3>1, <4>1 DEF LogWrite, Call, SendsHeartbeat, Heartbeat
      <4> QED
        BY <1>4, <2>1, <4>2 DEF LogWrite
    <3>2. CASE iter[LOGGER] % 100 # 0
      <4>1. iter[LOGGER] \in Nat
        BY TaskNumbers, FirmwareAssumption DEF WhereTypeOK
      <4>2. Spoken(t)
        BY <1>4, <3>2, <4>1 DEF Spoken
      <4> QED
        BY <1>4, <2>1, <4>2 DEF LogWrite
    <3> QED
      BY <3>1, <3>2
  <2>2. CASE ~LogWrite
    BY <1>4, <2>0, <2>2 DEF logger_task, Ended
  <2> QED
    BY <2>1, <2>2
<1>5. CASE t = COMM /\ comm_task
  <2>1. CASE UartPoll
    <3>1. CASE iter[COMM] % 64 = 0
      <4>1. /\ SignalEvent("HEARTBEAT", COMM).task_id = t
            /\ SignalEvent("HEARTBEAT", COMM).type = "HEARTBEAT"
        BY <1>5 DEF SignalEvent, ValueEvent
      <4>2. SendsHeartbeat(t)
        BY <1>0, <2>1, <3>1, <4>1 DEF UartPoll, Call, SendsHeartbeat, Heartbeat
      <4> QED
        BY <1>5, <2>1, <4>2 DEF UartPoll, Ended
    <3>2. CASE iter[COMM] % 64 # 0
      <4>1. iter[COMM] \in Nat
        BY TaskNumbers, FirmwareAssumption DEF WhereTypeOK
      <4>2. Spoken(t)
        BY <1>5, <3>2, <4>1 DEF Spoken
      <4> QED
        BY <1>5, <2>1, <4>2 DEF UartPoll, Ended
    <3> QED
      BY <3>1, <3>2
  <2>2. CASE ~UartPoll
    <3>1. Spoken(t) /\ ~Ended(t)
      BY <1>0, <1>5, <2>2 DEF comm_task, UartRx, UartStub, UartCheck, UartCopyType,
         UartCopyValue, UartEventType, UartEvent, UartConsume, Spoken, Ended
    <3> QED
      BY <1>0, <1>5, <2>2, <3>1 DEF comm_task, UartRx, UartStub, UartCheck,
         UartCopyType, UartCopyValue, UartEventType, UartEvent, UartConsume, Dispatch
  <2> QED
    BY <2>1, <2>2
<1>6. CASE Finish(t)
  BY <1>6 DEF Finish, SignalDone, Exit, Ended
<1> QED
  BY <1>1, <1>2, <1>3, <1>4, <1>5, <1>6 DEF Thread

(* A creation moves the thread to its first place, and nobody has spoken.  *)
LEMMA SpawnIsHeard ==
  ASSUME WhereInv, NEW t \in Tasks, Spawn(t) \/ SpawnFails(t)
  PROVE  HeardStep(t)
<1>0. /\ t \in AllTasks /\ place \in [AllTasks -> Places] /\ stage \in [AllTasks -> Stages]
  BY FirmwareAssumption DEF WhereInv, WhereTypeOK
<1>1. PICK p \in {"uart", "sensor_data", "failed"} :
        Goto(t, p) /\ (p = "sensor_data" => t # COMM)
  BY DEF Spawn, SpawnFails, Creation, Start
<1>2. iter' = iter /\ place'[t] = p /\ stage'[t] = Entry(p)
  BY <1>0, <1>1 DEF Goto
<1>3. (p = "uart" => Entry(p) = "call") /\ Entry(p) # "second"
  BY DEF Entry, Shared
<1>4. Spoken(t)' => Spoken(t)
  BY <1>1, <1>2, <1>3, TaskNumbers DEF Spoken
<1>5. ~Ended(t)'
  BY <1>2 DEF Ended
<1> QED
  BY <1>1, <1>4, <1>5, Alone DEF HeardStep, WhereInv

LEMMA HeardInvStep ==
  ASSUME RunInv, RunInv', HeardInv, NEW t \in Tasks, HeardStep(t),
         queue' = queue \/ \E e : Push(e), UNCHANGED <<batch, tracked>>
  PROVE  HeardInv'
<1>0. /\ queue' \in Seq(Events) /\ queue \in Seq(Events) /\ batch \in Seq(Events)
      /\ Stream \in Seq(Events) /\ Tasks \subseteq AllTasks
  BY StreamOf, FirmwareAssumption DEF RunInv, DataInv, BridgeTypeOK, ChannelInv, Stream
<1>1. ASSUME NEW e, Push(e), e.type \in Registered
      PROVE  e \in Events /\ Stream' = Append(Stream, e)
  <2>1. e \in Events /\ queue' = Append(queue, e)
    BY <1>0, <1>1, PushedIsEvent
  <2> QED
    BY <1>0, <2>1, StreamOf DEF Stream
<1>2. Stream' = Stream \/ \E e \in Events : Stream' = Append(Stream, e)
  <2>1. CASE queue' = queue
    BY <2>1 DEF Stream
  <2>2. ASSUME NEW e, Push(e)
        PROVE  Stream' = Stream \/ \E f \in Events : Stream' = Append(Stream, f)
    <3>1. CASE e.type \in Registered
      BY <1>1, <2>2, <3>1
    <3>2. CASE e.type \notin Registered
      BY <2>2, <3>2 DEF Push, Stream
    <3> QED
      BY <3>1, <3>2
  <2> QED
    BY <2>1, <2>2
<1> HIDE DEF Stream
<1>3. \A u : Heralds(Stream, u) => Heralds(Stream', u)
  <2> SUFFICES ASSUME NEW u, Heralds(Stream, u)
               PROVE  Heralds(Stream', u)
    OBVIOUS
  <2>1. \A e \in Events : Heralds(Append(Stream, e), u)
    BY <1>0, HeraldsEnds
  <2> QED
    BY <1>2, <2>1
<1>4. ASSUME SendsHeartbeat(t)
      PROVE  Heralds(Stream', t)
  <2>1. PICK e : e.type \in Registered /\ Heartbeat(e) /\ e.task_id = t /\ Push(e)
    BY <1>4 DEF SendsHeartbeat
  <2>2. e \in Events /\ Stream' = Append(Stream, e)
    BY <1>1, <2>1
  <2>3. Heralds(Append(Stream, e), t)
    BY <1>0, <2>1, <2>2, HeraldsEnds
  <2> QED
    BY <2>2, <2>3
<1>5. ASSUME NEW u \in Tasks, u # t
      PROVE  (Spoken(u)' => Spoken(u)) /\ (Ended(u)' => Ended(u) /\ iter'[u] = iter[u])
  BY <1>0, <1>5 DEF HeardStep, Spoken, Ended
<1>6. ASSUME NEW u \in Tasks
      PROVE  /\ Spoken(u)' => u \in tracked \/ Heralds(Stream', u)
             /\ Ended(u)' => iter'[u] > 0
  <2>1. CASE u # t
    BY <1>3, <1>5, <2>1 DEF HeardInv
  <2>2. CASE u = t
    BY <1>3, <1>4, <2>2 DEF HeardInv, HeardStep
  <2> QED
    BY <2>1, <2>2
<1> QED
  BY <1>6 DEF HeardInv

LEMMA HeardInvIdle ==
  ASSUME HeardInv, UNCHANGED where, tracked' = tracked, Stream' = Stream
  PROVE  HeardInv'
BY DEF HeardInv, Spoken, Ended, where

(* A delivered heartbeat has its task tracked.                             *)
LEMMA ToldOf ==
  ASSUME NEW event, NEW stamp, TellCheckers(event, stamp)
  PROVE  /\ tracked \subseteq tracked'
         /\ Heartbeat(event) => event.task_id \in tracked'
BY DEF TellCheckers, Heartbeat, Observe, ObserveControlInput, Heard, MarkFinished,
   detectorVars

LEMMA DeliverKeepsHeard ==
  ASSUME RunInv, HeardInv, DeliverToAll
  PROVE  HeardInv'
<1>1. /\ batch # <<>> /\ batch' = Tail(batch) /\ queue' = queue
      /\ batch \in Seq(Events) /\ queue \in Seq(Events)
      /\ UNCHANGED <<place, stage, iter>>
  BY DEF DeliverToAll, Deliver, bridgeVars, where, RunInv, ChannelInv, DataInv,
     BridgeTypeOK
<1>2. /\ Stream \in Seq(Events) /\ Stream # <<>> /\ Head(Stream) = Head(batch)
      /\ Stream' = Tail(Stream)
  BY <1>1, StreamOf DEF Stream
<1>3. /\ tracked \subseteq tracked'
      /\ Heartbeat(Head(batch)) => Head(batch).task_id \in tracked'
  BY ToldOf DEF DeliverToAll
<1> HIDE DEF Stream
<1>4. \A t \in Tasks : (Spoken(t)' <=> Spoken(t)) /\ (Ended(t)' <=> Ended(t))
  BY <1>1 DEF Spoken, Ended
<1>5. ASSUME NEW t \in Tasks, t \in tracked \/ Heralds(Stream, t)
      PROVE  t \in tracked' \/ Heralds(Stream', t)
  BY <1>2, <1>3, <1>5, HeraldsEnds
<1> QED
  BY <1>1, <1>4, <1>5 DEF HeardInv

LEMMA HeardInvNext ==
  ASSUME RunInv, RunInv', Voices \subseteq Registered, HeardInv,
         [SupervisedNext]_supervisedVars
  PROVE  HeardInv'
<1>1. ASSUME NEW t \in Tasks, Dut(t), FirmwareStep
      PROVE  HeardInv'
  <2>1. HeardStep(t) /\ ChannelStep(t)
    BY <1>1, ThreadIsHeard, ThreadIsChannelStep DEF Dut, RunInv, WhereInv
  <2>2. queue' = queue \/ \E e : Push(e)
    BY <2>1 DEF ChannelStep, Speaks, SignalDone, Exit, Call
  <2>3. UNCHANGED <<batch, tracked>>
    BY <1>1 DEF Dut, dutBridgeVars, FirmwareStep, detectorOwn
  <2> QED
    BY <2>1, <2>2, <2>3, HeardInvStep
<1>2. ASSUME NEW t \in Tasks, Spawn(t) \/ SpawnFails(t), UNCHANGED dutBridgeVars,
             FirmwareStep
      PROVE  HeardInv'
  <2>1. HeardStep(t)
    BY <1>2, SpawnIsHeard DEF RunInv
  <2>2. queue' = queue /\ UNCHANGED <<batch, tracked>>
    BY <1>2 DEF Spawn, SpawnFails, Creation, dutBridgeVars, FirmwareStep, detectorOwn
  <2> QED
    BY <2>1, <2>2, HeardInvStep
<1>3. ASSUME FirmwareStep
      PROVE  HeardInv'
  <2>1. CASE StartPolling /\ UNCHANGED where
    <3>1. Stream' = Stream /\ tracked' = tracked
      BY <1>3, <2>1 DEF StartPolling, bridgeVars, FirmwareStep, detectorOwn, Stream
    <3> QED
      BY <2>1, <3>1, HeardInvIdle
  <2> QED
    BY <1>1, <1>2, <1>3, <2>1 DEF FirmwareStep, CreateThreads
<1>4. ASSUME CheckAndPublish \/ EndPoll \/ SilenceProbe \/ AfterTheRun
                \/ UNCHANGED supervisedVars
      PROVE  HeardInv'
  <2>1. UNCHANGED <<queue, batch, where, tracked>>
    BY <1>4 DEF CheckAndPublish, CheckActive, EndPoll, EndDrain, SilenceProbe,
       AfterTheRun, supervisedVars, systemAVars, firmwareVars, dutBridgeVars,
       bridgeVars, detectorOwn, detectorVars, NextPeriod, Probe, Report
  <2>2. Stream' = Stream
    BY <2>1 DEF Stream
  <2> QED
    BY <2>1, <2>2, HeardInvIdle
<1>5. ASSUME Drain
      PROVE  HeardInv'
  <2>1. queue \in Seq(Events) /\ batch = <<>>
    BY <1>5 DEF RunInv, DataInv, BridgeTypeOK, ChannelInv, Drain, DrainSwap
  <2>2. Stream' = Stream /\ UNCHANGED <<where, tracked>>
    BY <1>5, <2>1, StreamOf DEF Stream, Drain, DrainSwap, detectorOwn
  <2> QED
    BY <2>2, HeardInvIdle
<1> QED
  BY <1>3, <1>4, <1>5, DeliverKeepsHeard DEF SupervisedNext

(***************************************************************************)
(* What the watchdog holds of the tasks, whatever it is told.              *)
(***************************************************************************)
WatchInv == tracked \subseteq Monitored /\ stalled_tasks \subseteq Monitored \ finished_tasks

LEMMA WatchInvNext ==
  ASSUME WatchInv, [DetectorNext]_detectorVars
  PROVE  WatchInv'
<1>1. ASSUME NEW t \in Monitored \ finished_tasks,
             Observe(t) \/ ObserveControlInput(t) \/ MarkFinished(t)
      PROVE  WatchInv'
  BY <1>1 DEF WatchInv, Observe, ObserveControlInput, MarkFinished, Heard, Flag, Idle
<1>2. CASE NextPeriod \/ Probe \/ Report \/ UNCHANGED detectorVars
  BY <1>2 DEF WatchInv, NextPeriod, Probe, Report, Flag, Idle, detectorVars
<1> QED
  BY <1>1, <1>2 DEF DetectorNext

LEMMA TrackedWhenJoined ==
  ASSUME RunInv, FeedInv, HeardInv, WatchInv
  PROVE  AllTracked
<1> SUFFICES ASSUME poller = "joined"
             PROVE  tracked = Tasks /\ finished_tasks = Tasks /\ stalled_tasks = {}
  BY DEF AllTracked
<1>1. queue = <<>> /\ batch = <<>> /\ AllReturned
  BY DEF RunInv, ChannelInv
<1>2. Len(Stream) = 0
  BY <1>1, StreamOf DEF Stream
<1>3. Gone = Tasks /\ \A t \in Tasks : Ended(t)
  BY <1>1, FirmwareAssumption DEF Gone, AllReturned, Ended
<1> HIDE DEF Stream, Gone
<1>4. finished_tasks = Tasks
  BY <1>2, <1>3, OrderlyEmpty DEF FeedInv
<1>5. \A t : ~Heralds(Stream, t)
  BY <1>2 DEF Heralds
<1>6. Tasks \subseteq tracked
  BY <1>3, <1>5 DEF HeardInv, Spoken
<1> QED
  BY <1>4, <1>6, SupervisedAssumption DEF WatchInv

(***************************************************************************)
(* For any of the five tasks and any number of iterations: when run_phase  *)
(* joins the threads each task has been heard of and has finished, and no  *)
(* stall is left to report.                                                *)
(***************************************************************************)
THEOREM AllAreTracked ==
  ASSUME Voices \cup {"TASK_DONE"} \subseteq Registered
  PROVE  SupervisedSpec => []AllTracked
<1>1. SupervisedInit => RunInv /\ WatchInv
  BY RunInvInit DEF SupervisedInit, DetectorInit, WatchInv
<1>2. SupervisedInit => HeardInv
  BY FirmwareAssumption, TaskNumbers DEF SupervisedInit, SystemAInit, FirmwareInit,
     HeardInv, Spoken, Ended
<1>3. RunInv /\ [SupervisedNext]_supervisedVars => RunInv'
  BY SupervisedStep, RunInvNext
<1>4. RunInv /\ RunInv' /\ FeedInv /\ [SupervisedNext]_supervisedVars => FeedInv'
  BY FeedInvNext
<1>5. RunInv /\ RunInv' /\ HeardInv /\ [SupervisedNext]_supervisedVars => HeardInv'
  BY HeardInvNext
<1>6. RunInv /\ FeedInv /\ WatchInv /\ [SupervisedNext]_supervisedVars => WatchInv'
  BY SupervisedFeedsDetector, WatchInvNext
<1>7. RunInv /\ FeedInv /\ HeardInv /\ WatchInv => AllTracked
  BY TrackedWhenJoined
<1> QED
  BY <1>1, <1>2, <1>3, <1>4, <1>5, <1>6, <1>7, FeedInvInit, PTL DEF SupervisedSpec
=============================================================================
