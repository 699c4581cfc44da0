----------------------------- MODULE GroupBProofs -----------------------------
(***************************************************************************)
(* Proofs about the locking of the protected firmware.                     *)
(***************************************************************************)
EXTENDS GroupBRefinement, FirmwareProofs

(***************************************************************************)
(* What the steps of a thread look like to the mutexes: the five steps of  *)
(* the lock protocol, the unlock with the move that follows it, an access  *)
(* inside the section, and a step outside every section.                   *)
(***************************************************************************)
InsideStages == {"first", "sample", "second", "unmark"}

Move(t) == \E p \in Places :
  /\ place' = [place EXCEPT ![t] = p]
  /\ stage' = [stage EXCEPT ![t] = Entry(p)]

AccessStep(t, m) == \E s \in InsideStages :
  /\ place[t] = m
  /\ stage[t] \in {"first", "sample", "second"}
  /\ Stay(t, s)
  /\ UNCHANGED lockVars

OutsideStep(t) ==
  /\ place[t] \notin Shared
  /\ Move(t) \/ \E s \in Stages : Stay(t, s)
  /\ UNCHANGED lockVars

LockStep(t) ==
  \/ \E m \in Shared : Section(t, m)
  \/ \E m \in Shared : Unlock(t, m) /\ Move(t)
  \/ \E m \in Shared : AccessStep(t, m)
  \/ OutsideStep(t)

LEMMA GotoMoves ==
  ASSUME NEW t, NEW p \in Places, Goto(t, p)
  PROVE  Move(t)
BY DEF Goto, Move

LEMMA EndIterationMoves ==
  ASSUME NEW t, EndIteration(t)
  PROVE  Move(t)
BY DEF EndIteration, Move, Start, Places, Shared

LEMMA ThreadIsLockStep ==
  ASSUME NEW t \in Tasks, Thread(t)
  PROVE  LockStep(t)
<1> USE GotoMoves, EndIterationMoves
    DEF LockStep, AccessStep, Access, InsideStages, Unlock, At, Shared, Places
<1>1. CASE t = SENSOR /\ sensor_task_safe
  BY <1>1 DEF sensor_task_safe
<1>2. CASE t = CONTROL /\ control_task_safe
  <2>1. CASE (ReportControlInputs \/ PwmSet \/ GpioWritePump) /\ UNCHANGED lockVars
    BY <1>2, <2>1 DEF OutsideStep, ReportControlInputs, PwmSet, GpioWritePump
  <2> QED
    BY <1>2, <2>1 DEF control_task_safe, ReadSensorData
<1>3. CASE t = ALARM /\ alarm_task_safe
  <2>1. CASE GpioWriteLed /\ UNCHANGED lockVars
    BY <1>3, <2>1 DEF OutsideStep, GpioWriteLed
  <2> QED
    BY <1>3, <2>1 DEF alarm_task_safe, ReadSensorData
<1>4. CASE t = LOGGER /\ logger_task_safe
  <2>1. CASE LogWrite /\ UNCHANGED lockVars
    BY <1>4, <2>1 DEF OutsideStep, LogWrite
  <2> QED
    BY <1>4, <2>1 DEF logger_task_safe, ReadSensorData
<1>5. CASE t = COMM /\ comm_task_safe
  <2>1. CASE UartRx /\ UNCHANGED lockVars
    BY <1>5, <2>1 DEF OutsideStep, UartRx, UartStub, UartPoll, UartCheck,
       UartCopyType, UartCopyValue, UartEventType, UartEvent, UartConsume,
       Dispatch, Stages
  <2> QED
    BY <1>5, <2>1 DEF comm_task_safe, AfterTarget
<1>6. CASE Finish(t) /\ UNCHANGED lockVars
  BY <1>6 DEF OutsideStep, Finish, SignalDone, Exit
<1> QED
  BY <1>1, <1>2, <1>3, <1>4, <1>5, <1>6 DEF Thread

(***************************************************************************)
(* The inductive invariant of the locks.  The owner of a mutex is the task *)
(* inside its section, and the holder table names a task exactly from its  *)
(* mark_acquired to its mark_released.                                     *)
(***************************************************************************)
Marked(t) == stage[t] \in {"report", "first", "sample", "second", "unmark"}

LockInv ==
  /\ place \in [AllTasks -> Places]
  /\ stage \in [AllTasks -> Stages]
  /\ owner \in [Shared -> Holders]
  /\ mutex_holder \in [Shared -> Holders]
  /\ holder_before \in [AllTasks -> Holders]
  /\ OwnerIsInside
  /\ \A t \in AllTasks, m \in Shared :
       mutex_holder[m] = t <=> place[t] = m /\ Marked(t)
  /\ HolderIsAnother

LEMMA LockInvInit == GroupBInit => LockInv
BY FirmwareAssumption DEF GroupBInit, FirmwareInit, LockInv, Places, Stages,
   Holders, OwnerIsInside, InSection, Marked, HolderIsAnother, AllTasks,
   NOBODY, Shared, LOGGER, ALARM

LEMMA LockInvLockStep ==
  ASSUME LockInv, NEW t \in Tasks, LockStep(t)
  PROVE  LockInv'
<1> USE FirmwareAssumption DEF LockInv, OwnerIsInside, InSection, Marked,
      HolderIsAnother, Holders, NOBODY, AllTasks, LOGGER, ALARM
<1>1. ASSUME NEW m \in Shared, ReadHolder(t, m)
      PROVE  LockInv'
  BY <1>1 DEF ReadHolder, At, Stay, Stages
<1>2. ASSUME NEW m \in Shared, Lock(t, m)
      PROVE  LockInv'
  BY <1>2 DEF Lock, At, Stay, Stages
<1>3. ASSUME NEW m \in Shared, MarkAcquired(t, m)
      PROVE  LockInv'
  BY <1>3 DEF MarkAcquired, At, Stay, Stages
<1>4. ASSUME NEW m \in Shared, ReportWait(t, m)
      PROVE  LockInv'
  BY <1>4 DEF ReportWait, At, Stay, Stages
<1>5. ASSUME NEW m \in Shared, MarkReleased(t, m)
      PROVE  LockInv'
  BY <1>5 DEF MarkReleased, At, Stay, Stages
<1>6. ASSUME NEW m \in Shared, Unlock(t, m), Move(t)
      PROVE  LockInv'
  BY <1>6, GroupBAssumption DEF Unlock, Move, At, Entry, Stages
<1>7. ASSUME NEW m \in Shared, AccessStep(t, m)
      PROVE  LockInv'
  BY <1>7 DEF AccessStep, InsideStages, Stay, Stages, lockVars
<1>8. ASSUME OutsideStep(t)
      PROVE  LockInv'
  BY <1>8, GroupBAssumption DEF OutsideStep, Move, Stay, Entry, Stages, lockVars
<1> QED
  BY <1>1, <1>2, <1>3, <1>4, <1>5, <1>6, <1>7, <1>8 DEF LockStep, Section

LEMMA LockInvStutter ==
  ASSUME LockInv, UNCHANGED <<where, lockVars>>
  PROVE  LockInv'
BY DEF LockInv, where, lockVars, OwnerIsInside, InSection, Marked,
   HolderIsAnother

LEMMA SpawnIsLockStep ==
  ASSUME NEW t \in Tasks, Spawn(t) \/ SpawnFails(t), UNCHANGED lockVars
  PROVE  LockStep(t)
BY GotoMoves DEF Spawn, SpawnFails, Creation, Start, Places, Shared, LockStep,
   OutsideStep

LEMMA LockInvNext == LockInv /\ [GroupBNext]_groupBVars => LockInv'
<1> SUFFICES ASSUME LockInv, [GroupBNext]_groupBVars
             PROVE  LockInv'
  OBVIOUS
<1>1. ASSUME NEW t \in Tasks, Thread(t)
      PROVE  LockInv'
  BY <1>1, ThreadIsLockStep, LockInvLockStep
<1>2. ASSUME NEW t \in Tasks, Spawn(t), UNCHANGED lockVars
      PROVE  LockInv'
  BY <1>2, SpawnIsLockStep, LockInvLockStep
<1>3. CASE UNCHANGED groupBVars
  BY <1>3, LockInvStutter DEF groupBVars, firmwareVars
<1> QED
  BY <1>1, <1>2, <1>3 DEF GroupBNext, Main

LEMMA LockInvImplies ==
  LockInv => MutualExclusion /\ OwnerIsInside /\ HolderOwnsMutex
               /\ HolderIsAnother
BY DEF LockInv, MutualExclusion, OwnerIsInside, InSection, HolderOwnsMutex,
   Marked, Holders, AllTasks, NOBODY, LOGGER, ALARM

THEOREM LocksHold == GroupBSpec => []LockInv
<1>1. GroupBInit => LockInv
  BY LockInvInit
<1>2. LockInv /\ [GroupBNext]_groupBVars => LockInv'
  BY LockInvNext
<1> QED
  BY <1>1, <1>2, PTL DEF GroupBSpec

(***************************************************************************)
(* For any number of loops, any readings and any subset of the tasks: no   *)
(* two tasks are inside the sections of one variable.                      *)
(***************************************************************************)
THEOREM ProtectedAccesses == GroupBSpec => []MutualExclusion
BY LocksHold, LockInvImplies, PTL

(* A mutex is owned exactly by the task inside its section, so no task     *)
(* ever holds one mutex and waits for another.                             *)
THEOREM NoHoldAndWait == GroupBSpec => []OwnerIsInside
BY LocksHold, LockInvImplies, PTL

(* The holder table, updated outside the mutexes' own protection, never    *)
(* names a task that does not own the mutex.                               *)
THEOREM HolderTableSound == GroupBSpec => []HolderOwnsMutex
BY LocksHold, LockInvImplies, PTL

(* What hal_mutex_get_holder returned before a lock is never the waiting   *)
(* task itself.                                                            *)
THEOREM NoSelfBlame == GroupBSpec => []HolderIsAnother
BY LocksHold, LockInvImplies, PTL

-----------------------------------------------------------------------------
(***************************************************************************)
(* Types.                                                                  *)
(***************************************************************************)
LEMMA SectionKeepsType ==
  ASSUME LockInv, DataInv, NEW t \in Tasks, NEW m \in Shared, Section(t, m)
  PROVE  DataInv'
<1>1. CASE ReportWait(t, m)
  <2>1. /\ t \in Int /\ holder_before[t] \in Int
        /\ "MUTEX_WAIT" \in EventTypes /\ m \in Subjects
    BY FirmwareAssumption DEF LockInv, Holders, AllTasks, LOGGER, ALARM, NOBODY,
       EventTypes, Subjects
  <2>2. ValueEvent("MUTEX_WAIT", t, m, holder_before[t]) \in Events
    BY <2>1, ValueEventType
  <2> QED
    BY <1>1, <2>2, PushKeepsType
       DEF ReportWait, DataInv, DataTypeOK, BridgeTypeOK, globals, locals, mailbox
<1> QED
  BY <1>1, DataStutter
     DEF Section, ReadHolder, Lock, MarkAcquired, MarkReleased

LEMMA UnlockKeepsType ==
  ASSUME DataInv, NEW t, NEW m, Unlock(t, m)
  PROVE  DataInv'
BY DataStutter DEF Unlock

LEMMA ThreadKeepsType ==
  ASSUME LockInv, DataInv, NEW t \in Tasks, Thread(t)
  PROVE  DataInv'
<1> USE SectionKeepsType, UnlockKeepsType DEF Shared
<1>1. SENSOR = 3 /\ CONTROL = 2 /\ ALARM = 4 /\ LOGGER = 0
      /\ Readers = {LOGGER, CONTROL, ALARM}
  BY DEF SENSOR, CONTROL, ALARM, LOGGER, Readers
<1>2. CASE t = SENSOR /\ sensor_task_safe
  BY <1>2, SensorStatements DEF sensor_task_safe
<1>3. CASE t = CONTROL /\ control_task_safe
  BY <1>1, <1>3, Loads, Stores, HalCalls DEF control_task_safe, ReadSensorData
<1>4. CASE t = ALARM /\ alarm_task_safe
  BY <1>1, <1>4, Loads, Stores, HalCalls DEF alarm_task_safe, ReadSensorData
<1>5. CASE t = LOGGER /\ logger_task_safe
  BY <1>1, <1>5, Loads, HalCalls DEF logger_task_safe, ReadSensorData
<1>6. CASE t = COMM /\ comm_task_safe
  <2>1. CommandTarget \in Int
    BY DEF CommandTarget, DataInv, DataTypeOK, Commands
  <2> QED
    BY <1>6, <2>1, Stores, UartKeepsType DEF comm_task_safe
<1>7. CASE Finish(t)
  BY <1>7, LifeKeepsType
<1> QED
  BY <1>2, <1>3, <1>4, <1>5, <1>6, <1>7 DEF Thread

LEMMA ThreadKeepsWhere ==
  ASSUME WhereInv, NEW t \in Tasks, Thread(t)
  PROVE  WhereInv'
<1> USE GotoKeepsWhere, StayKeepsWhere, EndIterationKeepsWhere
    DEF Access, At, Unlock, Stages, Places, Shared
<1>1. ASSUME NEW u \in Tasks, NEW m \in Shared, Section(u, m)
      PROVE  WhereInv'
  BY <1>1 DEF Section, ReadHolder, Lock, MarkAcquired, ReportWait, MarkReleased
<1>2. CASE t = SENSOR /\ sensor_task_safe
  BY <1>1, <1>2 DEF sensor_task_safe
<1>3. CASE t = CONTROL /\ control_task_safe
  BY <1>1, <1>3 DEF control_task_safe, ReadSensorData, ReportControlInputs,
     PwmSet, GpioWritePump
<1>4. CASE t = ALARM /\ alarm_task_safe
  BY <1>1, <1>4 DEF alarm_task_safe, ReadSensorData, GpioWriteLed
<1>5. CASE t = LOGGER /\ logger_task_safe
  BY <1>1, <1>5 DEF logger_task_safe, ReadSensorData, LogWrite
<1>6. CASE t = COMM /\ comm_task_safe
  <2>1. CASE UartRx
    BY <1>6, <2>1 DEF UartRx, UartStub, UartPoll, UartCheck, UartCopyType,
       UartCopyValue, UartEventType, UartEvent, UartConsume, Dispatch
  <2> QED
    BY <1>1, <1>6, <2>1 DEF comm_task_safe, AfterTarget
<1>7. CASE Finish(t)
  BY <1>7, LeaveKeepsWhere DEF Finish, SignalDone, Exit
<1> QED
  BY <1>2, <1>3, <1>4, <1>5, <1>6, <1>7 DEF Thread

(* The inductive invariant: control flow, data and locks.                  *)
IInv == WhereInv /\ DataInv /\ LockInv

LEMMA IInvInit == GroupBInit => IInv
<1>1. GroupBInit => WhereInv
  BY FirmwareAssumption DEF GroupBInit, FirmwareInit, WhereInv, WhereTypeOK,
     LoopsLeft, Places, Stages, AllTasks
<1>2. GroupBInit => DataTypeOK
  BY DEF GroupBInit, FirmwareInit, DataTypeOK, NoPair, Pairs,
     TEMP_TARGET_DEFAULT, Eighths, AlarmLevels, FAN_SPEED_MAX, Commands,
     CommandTypes
<1>3. GroupBInit => BridgeTypeOK
  <2>1. Len(Script) \in Nat
    BY BridgeAssumption
  <2> QED
    BY <2>1 DEF GroupBInit, FirmwareInit, BridgeInit, BridgeTypeOK, CommandTypes
<1> QED
  BY <1>1, <1>2, <1>3, LockInvInit DEF IInv, DataInv

LEMMA IInvThread ==
  ASSUME IInv, NEW t \in Tasks, Thread(t)
  PROVE  IInv'
BY ThreadKeepsWhere, ThreadKeepsType, ThreadIsLockStep, LockInvLockStep DEF IInv

LEMMA IInvSpawn ==
  ASSUME IInv, NEW t \in Tasks, Spawn(t) \/ SpawnFails(t), UNCHANGED lockVars
  PROVE  IInv'
<1>1. WhereInv'
  BY GotoKeepsWhere DEF IInv, Spawn, SpawnFails, Creation, Start, Places, Shared
<1> QED
  BY <1>1, LifeKeepsType, SpawnIsLockStep, LockInvLockStep DEF IInv

LEMMA IInvStutter ==
  ASSUME IInv, UNCHANGED groupBVars
  PROVE  IInv'
<1>1. WhereInv'
  BY DEF IInv, WhereInv, WhereTypeOK, LoopsLeft, groupBVars, firmwareVars, where
<1> QED
  BY <1>1, DataStutter, LockInvStutter DEF IInv, groupBVars, firmwareVars

LEMMA IInvNext == IInv /\ [GroupBNext]_groupBVars => IInv'
BY IInvThread, IInvSpawn, IInvStutter DEF GroupBNext, Main

(***************************************************************************)
(* Every variable keeps its type, in particular the loop counter its bound *)
(* and the fan duty its range 0 .. 100.                                    *)
(***************************************************************************)
THEOREM GroupBTypes == GroupBSpec => []GroupBTypeOK
<1>1. IInv => GroupBTypeOK
  BY DEF IInv, WhereInv, DataInv, LockInv, GroupBTypeOK, FirmwareTypeOK
<1> QED
  BY <1>1, IInvInit, IInvNext, PTL DEF GroupBSpec

-----------------------------------------------------------------------------
(***************************************************************************)
(* Refinement.  Every step of a thread is a step of the atomic controller  *)
(* or leaves its variables alone.                                          *)
(***************************************************************************)
Mapped == <<CommittedReading, target_temp, CommittedActuators, alarm_state,
            system_enabled, CommittedView, setpoint, CommittedLog>>

data == <<globals, view, held, setpoint, log>>

(* A step that leaves the data alone and takes no task into or out of the  *)
(* middle of a section.                                                    *)
Quiet ==
  /\ UNCHANGED data
  /\ \A u \in AllTasks, p \in Shared : Between(u, p)' <=> Between(u, p)

(* What a step of a thread does to the data.                               *)
DataStep ==
  \/ Quiet
  \/ Access(SENSOR, "sensor_data", "first", "sample") /\ StoreTemperature
  \/ Access(SENSOR, "sensor_data", "second", "unmark") /\ StoreHumidity
  \/ \E t \in Readers :
       \/ Access(t, "sensor_data", "first", "second") /\ LoadTemperature(t)
       \/ Access(t, "sensor_data", "second", "unmark") /\ LoadHumidity(t)
  \/ Access(CONTROL, "target_temp", "first", "unmark") /\ LoadTarget
  \/ Access(CONTROL, "actuators", "first", "second") /\ StorePump
  \/ Access(CONTROL, "actuators", "second", "unmark") /\ StoreFan
  \/ Access(ALARM, "alarm_state", "first", "unmark") /\ StoreAlarm
  \/ Access(LOGGER, "actuators", "first", "second") /\ LogPump
  \/ Access(LOGGER, "actuators", "second", "unmark") /\ LogFan
  \/ Access(LOGGER, "alarm_state", "first", "unmark") /\ LogAlarm
  \/ Access(COMM, "target_temp", "first", "unmark") /\ StoreTarget(CommandTarget)
  \/ Access(COMM, "system_enabled", "first", "unmark") /\ StoreEnabled

LEMMA GotoIsQuiet ==
  ASSUME IInv, NEW t \in Tasks, ~\E p \in Shared : Between(t, p),
         Move(t), UNCHANGED data
  PROVE  Quiet
BY GroupBAssumption, FirmwareAssumption
   DEF Quiet, Move, Between, Entry, IInv, WhereInv, WhereTypeOK

LEMMA StayIsQuiet ==
  ASSUME IInv, NEW t \in Tasks, NEW s, Stay(t, s), UNCHANGED data,
         stage[t] \in {"sample", "second"} <=> s \in {"sample", "second"}
  PROVE  Quiet
BY FirmwareAssumption DEF Quiet, Stay, Between, IInv, WhereInv, WhereTypeOK

LEMMA SectionIsQuiet ==
  ASSUME IInv, NEW t \in Tasks, NEW m \in Shared, Section(t, m)
  PROVE  Quiet
BY StayIsQuiet DEF Section, ReadHolder, Lock, MarkAcquired, ReportWait,
   MarkReleased, At, data, locals

LEMMA UnlockIsQuiet ==
  ASSUME IInv, NEW t \in Tasks, NEW m \in Shared, Unlock(t, m), Move(t)
  PROVE  Quiet
BY GotoIsQuiet DEF Unlock, At, Between, data, locals

LEMMA CallIsQuiet ==
  ASSUME IInv, NEW t \in Tasks,
         ReportControlInputs \/ PwmSet \/ GpioWritePump \/ GpioWriteLed
           \/ LogWrite \/ UartRx \/ Finish(t)
  PROVE  Quiet
<1> USE GotoIsQuiet, StayIsQuiet, GotoMoves, EndIterationMoves
    DEF At, Between, data, locals, Shared, Places
<1>1. CASE ReportControlInputs \/ PwmSet \/ GpioWritePump \/ GpioWriteLed
  BY <1>1 DEF ReportControlInputs, PwmSet, GpioWritePump, GpioWriteLed, Call
<1>2. CASE LogWrite \/ Finish(t)
  BY <1>2 DEF LogWrite, Finish, SignalDone, Exit, Call
<1>3. CASE UartRx
  BY <1>3 DEF UartRx, UartStub, UartPoll, UartCheck, UartCopyType,
     UartCopyValue, UartEventType, UartEvent, UartConsume, Dispatch, Call
<1> QED
  BY <1>1, <1>2, <1>3

LEMMA ThreadIsDataStep ==
  ASSUME IInv, NEW t \in Tasks, Thread(t)
  PROVE  DataStep
<1> USE SectionIsQuiet, UnlockIsQuiet, CallIsQuiet, GotoMoves, EndIterationMoves
    DEF DataStep, Shared, Places
<1>1. SENSOR = 3 /\ CONTROL = 2 /\ ALARM = 4 /\ LOGGER = 0
      /\ Readers = {LOGGER, CONTROL, ALARM}
  BY DEF SENSOR, CONTROL, ALARM, LOGGER, Readers
<1>2. CASE t = SENSOR /\ sensor_task_safe
  <2>1. CASE Access(SENSOR, "sensor_data", "sample", "second") /\ SampleHumidity
    BY <1>2, <2>1, StayIsQuiet DEF Access, At, SampleHumidity, data, locals
  <2> QED
    BY <1>2, <2>1 DEF sensor_task_safe
<1>3. CASE t = CONTROL /\ control_task_safe
  BY <1>1, <1>3 DEF control_task_safe, ReadSensorData
<1>4. CASE t = ALARM /\ alarm_task_safe
  BY <1>1, <1>4 DEF alarm_task_safe, ReadSensorData
<1>5. CASE t = LOGGER /\ logger_task_safe
  BY <1>1, <1>5 DEF logger_task_safe, ReadSensorData
<1>6. CASE t = COMM /\ comm_task_safe
  BY <1>6 DEF comm_task_safe, AfterTarget
<1>7. CASE Finish(t)
  BY <1>7
<1> QED
  BY <1>2, <1>3, <1>4, <1>5, <1>6, <1>7 DEF Thread

(***************************************************************************)
(* What is true between the two accesses of a section.                     *)
(***************************************************************************)
HalfInv ==
  /\ Between(SENSOR, "sensor_data") => sensor_data.temperature = held.temperature
  /\ \A t \in Readers : Between(t, "sensor_data") =>
       view[t].temperature = sensor_data.temperature
  /\ Between(CONTROL, "actuators") => actuators.pump_on = PumpOutput

LEMMA HalfInvStep ==
  ASSUME IInv, HalfInv, DataStep
  PROVE  HalfInv'
<1> USE FirmwareAssumption
    DEF HalfInv, Between, Access, At, Stay, Readers, SENSOR, CONTROL, LOGGER,
        ALARM, COMM, AllTasks
<1>0. /\ place \in [AllTasks -> Places] /\ stage \in [AllTasks -> Stages]
      /\ \A t, u \in AllTasks : t # u /\ InSection(t) /\ InSection(u)
           => place[t] # place[u]
  BY LockInvImplies DEF IInv, LockInv, MutualExclusion
<1>1. CASE Quiet
  <2>1. /\ Between(SENSOR, "sensor_data")' <=> Between(SENSOR, "sensor_data")
        /\ \A t \in Readers :
             Between(t, "sensor_data")' <=> Between(t, "sensor_data")
        /\ Between(CONTROL, "actuators")' <=> Between(CONTROL, "actuators")
    BY <1>1 DEF Quiet, Shared
  <2> QED
    BY <1>1, <2>1 DEF Quiet, data, globals, PumpOutput
<1>2. CASE Access(SENSOR, "sensor_data", "first", "sample") /\ StoreTemperature
  BY <1>0, <1>2 DEF StoreTemperature, InSection, Shared, PumpOutput, IInv,
     DataInv, DataTypeOK, Pairs
<1>3. CASE Access(SENSOR, "sensor_data", "second", "unmark") /\ StoreHumidity
  BY <1>0, <1>3 DEF StoreHumidity, locals, InSection, Shared, PumpOutput
<1>4. ASSUME NEW t \in Readers,
             Access(t, "sensor_data", "first", "second"), LoadTemperature(t)
      PROVE  HalfInv'
  BY <1>0, <1>4 DEF LoadTemperature, globals, InSection, Shared, PumpOutput,
     IInv, DataInv, DataTypeOK, Pairs
<1>5. ASSUME NEW t \in Readers,
             Access(t, "sensor_data", "second", "unmark"), LoadHumidity(t)
      PROVE  HalfInv'
  BY <1>0, <1>5 DEF LoadHumidity, globals, InSection, Shared, PumpOutput,
     IInv, DataInv, DataTypeOK, Pairs
<1>6. CASE Access(CONTROL, "actuators", "first", "second") /\ StorePump
  BY <1>0, <1>6 DEF StorePump, locals, InSection, Shared, PumpOutput,
     IInv, DataInv, DataTypeOK
<1>7. CASE Access(CONTROL, "actuators", "second", "unmark") /\ StoreFan
  BY <1>0, <1>7 DEF StoreFan, locals, InSection, Shared, PumpOutput
<1>8. CASE Access(CONTROL, "target_temp", "first", "unmark") /\ LoadTarget
  BY <1>0, <1>8 DEF LoadTarget, globals, PumpOutput
<1>9. CASE Access(ALARM, "alarm_state", "first", "unmark") /\ StoreAlarm
  BY <1>0, <1>9 DEF StoreAlarm, locals, PumpOutput
<1>10. CASE \/ Access(LOGGER, "actuators", "first", "second") /\ LogPump
            \/ Access(LOGGER, "actuators", "second", "unmark") /\ LogFan
            \/ Access(LOGGER, "alarm_state", "first", "unmark") /\ LogAlarm
  BY <1>0, <1>10 DEF LogPump, LogFan, LogAlarm, globals, PumpOutput
<1>11. CASE \/ Access(COMM, "target_temp", "first", "unmark")
                 /\ StoreTarget(CommandTarget)
            \/ Access(COMM, "system_enabled", "first", "unmark")
                 /\ StoreEnabled
  BY <1>0, <1>11 DEF StoreTarget, StoreEnabled, locals, PumpOutput
<1> QED
  BY <1>1, <1>2, <1>3, <1>4, <1>5, <1>6, <1>7, <1>8, <1>9, <1>10, <1>11
     DEF DataStep

LEMMA HalfInvInit == GroupBInit => HalfInv
BY DEF GroupBInit, FirmwareInit, HalfInv, Between, Readers, SENSOR, CONTROL,
   LOGGER, ALARM, AllTasks

(* A step outside the threads keeps HalfInv and is a stutter above: the    *)
(* creation of a thread, a step of the testbench.                          *)
LEMMA SpawnIsQuiet ==
  ASSUME IInv, NEW t \in Tasks, Spawn(t) \/ SpawnFails(t)
  PROVE  Quiet
BY GotoIsQuiet, GotoMoves DEF Spawn, SpawnFails, Creation, Start, Between, Places,
   Shared, data, locals

LEMMA IdleIsQuiet ==
  ASSUME UNCHANGED <<where, globals, locals>>
  PROVE  Quiet
BY DEF Quiet, where, Between, data, locals

FullInv == IInv /\ HalfInv

LEMMA FullInvNext == FullInv /\ [GroupBNext]_groupBVars => FullInv'
<1> SUFFICES ASSUME FullInv, [GroupBNext]_groupBVars
             PROVE  HalfInv'
  BY IInvNext DEF FullInv
<1>1. ASSUME NEW t \in Tasks, Thread(t)
      PROVE  DataStep
  BY <1>1, ThreadIsDataStep DEF FullInv
<1>2. ASSUME NEW t \in Tasks, Spawn(t)
      PROVE  DataStep
  BY <1>2, SpawnIsQuiet DEF FullInv, DataStep
<1>3. CASE UNCHANGED groupBVars
  <2>1. Quiet
    BY <1>3, IdleIsQuiet DEF groupBVars, firmwareVars
  <2> QED
    BY <2>1, HalfInvStep DEF DataStep, FullInv
<1> QED
  BY <1>1, <1>2, <1>3, HalfInvStep DEF GroupBNext, Main, FullInv

THEOREM FullInvHolds == GroupBSpec => []FullInv
<1>1. GroupBInit => FullInv
  BY IInvInit, HalfInvInit DEF FullInv
<1> QED
  BY <1>1, FullInvNext, PTL DEF GroupBSpec

LEMMA QuietIsStutter ==
  ASSUME Quiet
  PROVE  UNCHANGED Mapped
<1>1. /\ Between(SENSOR, "sensor_data")' <=> Between(SENSOR, "sensor_data")
      /\ \A t \in Readers :
           Between(t, "sensor_data")' <=> Between(t, "sensor_data")
      /\ Between(CONTROL, "actuators")' <=> Between(CONTROL, "actuators")
      /\ Between(LOGGER, "actuators")' <=> Between(LOGGER, "actuators")
  BY DEF Quiet, Readers, SENSOR, CONTROL, LOGGER, AllTasks, ALARM, Shared
<1> QED
  BY <1>1 DEF Quiet, data, globals, Mapped, CommittedReading,
     CommittedActuators, CommittedView, CommittedLog, PumpOutput, FanOutput

(* The two modules take the control law from the same definitions.         *)
LEMMA SameLaw ==
  /\ \A a, b : Atomic!CalculatedFanDuty(a, b) = CalculatedFanDuty(a, b)
  /\ \A a : Atomic!ShouldPumpOn(a) = ShouldPumpOn(a)
  /\ \A a, b : Atomic!NewAlarmState(a, b) = NewAlarmState(a, b)
BY DEF Atomic!CalculatedFanDuty, CalculatedFanDuty, Atomic!ShouldPumpOn,
   ShouldPumpOn, Atomic!NewAlarmState, NewAlarmState, Atomic!Truncate, Truncate,
   Atomic!Magnitude, Magnitude, Atomic!Eighths, Eighths,
   Atomic!FAN_TEMP_TOLERANCE, FAN_TEMP_TOLERANCE, Atomic!FAN_SPEED_MAX,
   FAN_SPEED_MAX, Atomic!FAN_SPEED_MIN, FAN_SPEED_MIN,
   Atomic!HUMIDITY_MIN_LIMIT, HUMIDITY_MIN_LIMIT, Atomic!HUMIDITY_MAX_LIMIT,
   HUMIDITY_MAX_LIMIT, Atomic!TEMP_ALARM_LIMIT, TEMP_ALARM_LIMIT,
   Atomic!TEMP_CRITICAL_LIMIT, TEMP_CRITICAL_LIMIT, Atomic!ALARM_NORMAL,
   ALARM_NORMAL, Atomic!ALARM_WARNING, ALARM_WARNING, Atomic!ALARM_CRITICAL,
   ALARM_CRITICAL

(* A snapshot by reader t commits when t has read the temperature.         *)
LEMMA SnapshotCommits ==
  ASSUME FullInv, NEW t \in Readers,
         Access(t, "sensor_data", "first", "second"), LoadTemperature(t)
  PROVE  Atomic!Snapshot(t)
<1> USE DEF Between, Access, At, Stay, Readers, SENSOR, CONTROL, LOGGER, ALARM
<1>1. /\ place \in [AllTasks -> Places] /\ stage \in [AllTasks -> Stages]
      /\ {0, 2, 3, 4} \subseteq AllTasks /\ t \in {0, 2, 4}
      /\ \A u \in AllTasks : u # t => ~Between(u, "sensor_data")
  BY LockInvImplies DEF FullInv, IInv, LockInv, MutualExclusion, InSection,
     Shared, AllTasks
<1>2. view \in [Readers -> Pairs] /\ sensor_data \in Pairs
  BY DEF FullInv, IInv, DataInv, DataTypeOK
<1>3. /\ ~Between(t, "sensor_data") /\ Between(t, "sensor_data")'
      /\ \A u \in AllTasks : u # t => ~Between(u, "sensor_data")'
      /\ Between(CONTROL, "actuators")' <=> Between(CONTROL, "actuators")
      /\ Between(LOGGER, "actuators")' <=> Between(LOGGER, "actuators")
      /\ ~Between(t, "actuators")
  BY <1>1
<1>4. CommittedReading' = sensor_data /\ CommittedReading = sensor_data
  BY <1>1, <1>3 DEF CommittedReading, LoadTemperature, globals
<1>5. /\ view' \in [Readers -> Pairs]
      /\ view'[t].temperature = sensor_data.temperature
      /\ \A u \in Readers : u # t => view'[u] = view[u]
  BY <1>2 DEF LoadTemperature, Pairs
<1>6. CommittedView' = [CommittedView EXCEPT ![t] = sensor_data]
  <2>1. CommittedView'[t] = sensor_data
    BY <1>2, <1>3, <1>5 DEF CommittedView, LoadTemperature, globals, Pairs
  <2>2. \A u \in Readers : u # t => CommittedView'[u] = CommittedView[u]
    BY <1>1, <1>3, <1>5 DEF CommittedView
  <2> QED
    BY <2>1, <2>2 DEF CommittedView
<1>7. CommittedActuators' = CommittedActuators /\ CommittedLog' = CommittedLog
  BY <1>1, <1>3, <1>5 DEF CommittedActuators, CommittedLog, LoadTemperature,
     globals, PumpOutput, FanOutput
<1> QED
  BY <1>4, <1>6, <1>7 DEF Atomic!Snapshot, LoadTemperature, globals

LEMMA DataStepRefines ==
  ASSUME FullInv, DataStep
  PROVE  [Atomic!Next]_Mapped
<1> USE FirmwareAssumption
    DEF Between, Access, At, Stay, Readers, SENSOR, CONTROL, LOGGER,
        ALARM, COMM, AllTasks, CommittedReading, CommittedActuators,
        CommittedView, CommittedLog, Atomic!Next
<1>0. /\ place \in [AllTasks -> Places] /\ stage \in [AllTasks -> Stages]
      /\ \A t, u \in AllTasks : t # u /\ InSection(t) /\ InSection(u)
           => place[t] # place[u]
  BY LockInvImplies DEF FullInv, IInv, LockInv, MutualExclusion
<1>00. DataTypeOK /\ HalfInv
  BY DEF FullInv, IInv, DataInv
<1>1. CASE Quiet
  BY <1>1, QuietIsStutter
<1>2. CASE Access(SENSOR, "sensor_data", "first", "sample") /\ StoreTemperature
  <2>1. Atomic!Measure
    BY <1>0, <1>2 DEF StoreTemperature, Atomic!Measure, InSection, Shared,
       PumpOutput, FanOutput
  <2> QED
    BY <2>1
<1>3. CASE Access(SENSOR, "sensor_data", "second", "unmark") /\ StoreHumidity
  <2>1. UNCHANGED Mapped
    BY <1>0, <1>00, <1>3 DEF StoreHumidity, Mapped, locals, InSection, Shared,
       PumpOutput, FanOutput, HalfInv, DataTypeOK, Pairs
  <2> QED
    BY <2>1
<1>4. ASSUME NEW t \in Readers,
             Access(t, "sensor_data", "first", "second"), LoadTemperature(t)
      PROVE  Atomic!Snapshot(t)
  BY <1>4, SnapshotCommits
<1>5. ASSUME NEW t \in Readers,
             Access(t, "sensor_data", "second", "unmark"), LoadHumidity(t)
      PROVE  UNCHANGED Mapped
  BY <1>0, <1>00, <1>5 DEF LoadHumidity, Mapped, globals, InSection, Shared,
     PumpOutput, FanOutput, DataTypeOK, Pairs
<1>6. CASE Access(CONTROL, "actuators", "first", "second") /\ StorePump
  <2>1. /\ CommittedView[CONTROL] = view[CONTROL]
        /\ CommittedReading' = CommittedReading
        /\ CommittedView' = CommittedView
        /\ CommittedLog' = CommittedLog
    BY <1>0, <1>6 DEF StorePump, locals, InSection, Shared
  <2>2. CommittedActuators' = [pump_on |-> PumpOutput, fan_duty |-> FanOutput]
    BY <1>0, <1>6 DEF StorePump, locals, PumpOutput, FanOutput
  <2>3. Atomic!Actuate
    BY <1>6, <2>1, <2>2, SameLaw DEF StorePump, locals, PumpOutput, FanOutput,
       Atomic!Actuate
  <2> QED
    BY <2>3
<1>7. CASE Access(CONTROL, "actuators", "second", "unmark") /\ StoreFan
  <2>1. UNCHANGED Mapped
    BY <1>0, <1>00, <1>7 DEF StoreFan, Mapped, locals, InSection, Shared,
       PumpOutput, FanOutput, HalfInv, DataTypeOK
  <2> QED
    BY <2>1
<1>8. CASE Access(CONTROL, "target_temp", "first", "unmark") /\ LoadTarget
  <2>1. Atomic!TakeSetpoint
    BY <1>0, <1>8 DEF LoadTarget, Atomic!TakeSetpoint, globals, PumpOutput,
       FanOutput
  <2> QED
    BY <2>1
<1>9. CASE Access(ALARM, "alarm_state", "first", "unmark") /\ StoreAlarm
  <2>1. /\ CommittedView[ALARM] = view[ALARM]
        /\ UNCHANGED <<CommittedReading, CommittedView, CommittedLog,
                       CommittedActuators>>
    BY <1>0, <1>9 DEF StoreAlarm, locals, PumpOutput, FanOutput
  <2>2. Atomic!Raise
    BY <1>9, <2>1, SameLaw DEF StoreAlarm, locals, AlarmOutput, Atomic!Raise
  <2> QED
    BY <2>2
<1>10. CASE Access(LOGGER, "actuators", "first", "second") /\ LogPump
  <2>1. /\ CommittedActuators = actuators
        /\ CommittedLog = log
        /\ UNCHANGED <<CommittedReading, CommittedView, CommittedActuators>>
    BY <1>0, <1>10 DEF LogPump, globals, InSection, Shared, PumpOutput, FanOutput
  <2>2. CommittedLog' = [log EXCEPT !.pump_on = actuators.pump_on,
                                    !.fan_duty = actuators.fan_duty]
    BY <1>0, <1>00, <1>10 DEF LogPump, globals, DataTypeOK
  <2>3. Atomic!LogActuators
    BY <1>10, <2>1, <2>2 DEF LogPump, globals, Atomic!LogActuators
  <2> QED
    BY <2>3
<1>11. CASE Access(LOGGER, "actuators", "second", "unmark") /\ LogFan
  <2>1. UNCHANGED Mapped
    BY <1>0, <1>00, <1>11 DEF LogFan, Mapped, globals, InSection, Shared,
       PumpOutput, FanOutput, DataTypeOK
  <2> QED
    BY <2>1
<1>12. CASE Access(LOGGER, "alarm_state", "first", "unmark") /\ LogAlarm
  <2>1. Atomic!LogAlarm
    BY <1>0, <1>12 DEF LogAlarm, Atomic!LogAlarm, globals, PumpOutput, FanOutput
  <2> QED
    BY <2>1
<1>13. CASE \/ Access(COMM, "target_temp", "first", "unmark")
                 /\ StoreTarget(CommandTarget)
            \/ Access(COMM, "system_enabled", "first", "unmark")
                 /\ StoreEnabled
  <2>1. CommandTarget \in Int
    BY <1>00 DEF CommandTarget, DataTypeOK, Commands
  <2>2. UNCHANGED <<CommittedReading, CommittedView, CommittedActuators,
                    CommittedLog>>
    BY <1>0, <1>13 DEF StoreTarget, StoreEnabled, locals, PumpOutput, FanOutput
  <2>3. (command.type # "DISABLE") \in BOOLEAN
    OBVIOUS
  <2>4. Atomic!Command
    BY <1>13, <2>1, <2>2, <2>3 DEF StoreTarget, StoreEnabled, locals,
       Atomic!Command
  <2> QED
    BY <2>4
<1> QED
  BY <1>1, <1>2, <1>3, <1>4, <1>5, <1>6, <1>7, <1>8, <1>9, <1>10, <1>11,
     <1>12, <1>13 DEF DataStep

LEMMA RefinementInit == GroupBInit => Atomic!Init
BY DEF GroupBInit, FirmwareInit, Atomic!Init, Between, CommittedReading,
   CommittedView, CommittedActuators, CommittedLog, Readers, SENSOR, CONTROL,
   LOGGER, ALARM, AllTasks, NoPair, TEMP_TARGET_DEFAULT, Eighths,
   ALARM_NORMAL, Atomic!TEMP_TARGET_DEFAULT, Atomic!Eighths,
   Atomic!ALARM_NORMAL

LEMMA RefinementNext ==
  FullInv /\ [GroupBNext]_groupBVars => [Atomic!Next]_Mapped
<1> SUFFICES ASSUME FullInv, [GroupBNext]_groupBVars
             PROVE  [Atomic!Next]_Mapped
  OBVIOUS
<1>1. ASSUME NEW t \in Tasks, Thread(t)
      PROVE  [Atomic!Next]_Mapped
  BY <1>1, ThreadIsDataStep, DataStepRefines DEF FullInv
<1>2. ASSUME NEW t \in Tasks, Spawn(t)
      PROVE  UNCHANGED Mapped
  BY <1>2, SpawnIsQuiet, QuietIsStutter DEF FullInv
<1>3. CASE UNCHANGED groupBVars
  <2>1. Quiet
    BY <1>3, IdleIsQuiet DEF groupBVars, firmwareVars
  <2> QED
    BY <2>1, QuietIsStutter
<1> QED
  BY <1>1, <1>2, <1>3 DEF GroupBNext, Main

(***************************************************************************)
(* The protected firmware implements the lock-free atomic controller, for  *)
(* every set of readings, of tasks and every number of loops.              *)
(***************************************************************************)
THEOREM Refinement == GroupBSpec => ImplementsAtomic
<1>1. [Atomic!Next]_Mapped => [Atomic!Next]_(Atomic!vars)
  BY DEF Mapped, Atomic!vars
<1> QED
  BY <1>1, RefinementInit, RefinementNext, FullInvHolds, PTL
     DEF GroupBSpec, ImplementsAtomic, Atomic!Spec
=============================================================================
