---------------------------- MODULE InversionProofs ----------------------------
(***************************************************************************)
(* What the priority-inversion checker may say: whom a confirmed inversion *)
(* blames, although the holder is looked up before the lock and outside    *)
(* the mutex.                                                              *)
(***************************************************************************)
EXTENDS PriorityInversion, GroupBProofs

(* The sections a task goes through are those of the mutexes it uses.      *)
Routes == \A t \in AllTasks :
  place[t] \in Shared => t \in Users(place[t]) \cap Tasks

(* What was looked up before a lock is nobody or another user of the mutex.*)
IsUser(h, m, t) == h # NOBODY => h \in (Users(m) \cap Tasks) \ {t}

Looked == \A t \in AllTasks :
  holder_before[t] # NOBODY =>
    /\ place[t] \in Shared /\ stage[t] \in {"lock", "mark", "report"}
    /\ IsUser(holder_before[t], place[t], t)

(* The events of the queue.                                                *)
WaitEvent(event) ==
  /\ event.task_id \in AllTasks /\ event.of \in Shared /\ event.value \in Holders
  /\ IsUser(event.value, event.of, event.task_id)

WaitsQueued == \A n \in 1 .. Len(queue) : WaitEvent(queue[n])

InversionInv == IInv /\ Routes /\ Looked /\ WaitsQueued

-----------------------------------------------------------------------------
LEMMA Numbers ==
  /\ LOGGER = 0 /\ COMM = 1 /\ CONTROL = 2 /\ SENSOR = 3 /\ ALARM = 4
  /\ NOBODY = 5 /\ AllTasks = 0 .. 4 /\ Readers = {0, 2, 4} /\ Holders = 0 .. 5
  /\ Tasks \subseteq AllTasks
BY FirmwareAssumption DEF LOGGER, COMM, CONTROL, SENSOR, ALARM, NOBODY, AllTasks,
   Readers, Holders

LEMMA UsersOf ==
  /\ Users("sensor_data") = {0, 2, 3, 4}
  /\ Users("target_temp") = {1, 2}
  /\ Users("actuators") = {0, 2}
  /\ Users("alarm_state") = {0, 4}
  /\ Users("system_enabled") = {1}
BY Numbers DEF Users

(* A move to a place whose mutex the task uses, or to none.                *)
LEMMA GotoRoutes ==
  ASSUME NEW t \in Tasks, NEW p, Goto(t, p), place \in [AllTasks -> Places], Routes,
         p \in Shared => t \in Users(p)
  PROVE  Routes'
BY DEF Goto, Routes

LEMMA EndIterationRoutes ==
  ASSUME NEW t \in Tasks, EndIteration(t), place \in [AllTasks -> Places], Routes
  PROVE  Routes'
<1> DEFINE p == IF iter[t] + 1 < Loops THEN Start(t) ELSE "done"
<1>1. place' = [place EXCEPT ![t] = p]
  BY DEF EndIteration
<1>2. p \in Shared => t \in Users(p)
  BY Numbers, UsersOf DEF Start, Shared
<1> QED
  BY <1>1, <1>2 DEF Routes

LEMMA StayRoutes ==
  ASSUME NEW t, NEW s, Stay(t, s), Routes
  PROVE  Routes'
BY DEF Stay, Routes

LEMMA ThreadRoutes ==
  ASSUME IInv, Routes, NEW t \in Tasks, Thread(t)
  PROVE  Routes'
<1>0. place \in [AllTasks -> Places]
  BY DEF IInv, LockInv
<1> USE <1>0, Numbers, UsersOf, GotoRoutes, EndIterationRoutes, StayRoutes
<1>1. ASSUME NEW u \in Tasks, NEW m \in Shared, Section(u, m)
      PROVE  Routes'
  BY <1>1 DEF Section, ReadHolder, Lock, MarkAcquired, ReportWait, MarkReleased
<1>2. ASSUME NEW u \in Tasks, ReadSensorData(u)
      PROVE  Routes'
  BY <1>1, <1>2 DEF ReadSensorData, Access, Shared
<1>3. CASE t = SENSOR /\ sensor_task_safe
  BY <1>1, <1>3 DEF sensor_task_safe, Access, Shared
<1>4. CASE t = CONTROL /\ control_task_safe
  BY <1>1, <1>2, <1>4 DEF control_task_safe, Access, Shared, ReportControlInputs,
     PwmSet, GpioWritePump
<1>5. CASE t = ALARM /\ alarm_task_safe
  BY <1>1, <1>2, <1>5 DEF alarm_task_safe, Access, Shared, GpioWriteLed
<1>6. CASE t = LOGGER /\ logger_task_safe
  BY <1>1, <1>2, <1>6 DEF logger_task_safe, Access, Shared, LogWrite
<1>7. CASE t = COMM /\ comm_task_safe
  <2>1. CASE UartRx
    BY <1>7, <2>1 DEF UartRx, UartStub, UartPoll, UartCheck, UartCopyType,
       UartCopyValue, UartEventType, UartEvent, UartConsume, Dispatch, Shared
  <2> QED
    BY <1>1, <1>7, <2>1 DEF comm_task_safe, Access, AfterTarget, Shared
<1>8. CASE Finish(t)
  BY <1>8 DEF Finish, SignalDone, Exit, Shared
<1> QED
  BY <1>3, <1>4, <1>5, <1>6, <1>7, <1>8 DEF Thread

LEMMA SpawnRoutes ==
  ASSUME IInv, Routes, NEW t \in Tasks, Spawn(t) \/ SpawnFails(t)
  PROVE  Routes'
<1>1. Start(t) \in Shared => t \in Users(Start(t))
  BY Numbers, UsersOf DEF Start, Shared
<1> QED
  BY <1>1, GotoRoutes DEF Spawn, SpawnFails, Creation, IInv, LockInv, Shared

-----------------------------------------------------------------------------
(* Only a wait is pushed: no other type of event is registered.            *)
LEMMA OtherCalls ==
  ASSUME NEW event, event.type # "MUTEX_WAIT", Call(event)
  PROVE  UNCHANGED queue
BY InversionAssumption DEF Call, Push

(* A step of a thread: it pushes its wait, or the queue stays as it is;    *)
(* and what it has looked up changes only in its section.                  *)
LEMMA ThreadQueues ==
  ASSUME NEW t \in Tasks, Thread(t)
  PROVE  \/ \E m \in Shared : Section(t, m)
         \/ UNCHANGED queue
<1> USE DEF Access, Shared, Unlock, bridgeVars
<1>0. ASSUME NEW type, type # "MUTEX_WAIT", NEW task, NEW x, NEW of, NEW v,
             \/ Call(PairEvent(type, task, x))
             \/ Call(ValueEvent(type, task, of, v))
             \/ Call(SignalEvent(type, task))
      PROVE  UNCHANGED queue
  BY <1>0, OtherCalls DEF PairEvent, ValueEvent, SignalEvent
<1>1. CASE t = SENSOR /\ sensor_task_safe
  <2>1. CASE SampleHumidity
    BY <2>1, InversionAssumption DEF SampleHumidity, Push, PairEvent
  <2> QED
    BY <1>1, <2>1 DEF sensor_task_safe, StoreTemperature, StoreHumidity
<1>2. CASE t = CONTROL /\ control_task_safe
  <2>1. CASE ReportControlInputs \/ PwmSet \/ GpioWritePump
    BY <1>0, <2>1 DEF ReportControlInputs, PwmSet, GpioWritePump
  <2> QED
    BY <1>2, <2>1 DEF control_task_safe, ReadSensorData, LoadTemperature,
       LoadHumidity, LoadTarget, StorePump, StoreFan
<1>3. CASE t = ALARM /\ alarm_task_safe
  <2>1. CASE GpioWriteLed
    BY <1>0, <2>1 DEF GpioWriteLed
  <2> QED
    BY <1>3, <2>1 DEF alarm_task_safe, ReadSensorData, LoadTemperature,
       LoadHumidity, StoreAlarm
<1>4. CASE t = LOGGER /\ logger_task_safe
  <2>1. CASE LogWrite
    BY <1>0, <2>1 DEF LogWrite
  <2> QED
    BY <1>4, <2>1 DEF logger_task_safe, ReadSensorData, LoadTemperature,
       LoadHumidity, LogPump, LogFan, LogAlarm
<1>5. CASE t = COMM /\ comm_task_safe
  <2>1. CASE UartRx
    <3>1. CASE UartPoll
      BY <1>0, <3>1 DEF UartPoll
    <3>2. CASE UartEvent
      BY <1>0, <3>2 DEF UartEvent
    <3> QED
      BY <2>1, <3>1, <3>2 DEF UartRx, UartStub, UartCheck, UartCopyType,
         UartCopyValue, UartEventType, UartConsume
  <2> QED
    BY <1>5, <2>1 DEF comm_task_safe, StoreTarget, StoreEnabled
<1>6. CASE Finish(t)
  <2>1. CASE SignalDone(t)
    BY <1>0, <2>1 DEF SignalDone
  <2> QED
    BY <1>6, <2>1 DEF Finish, Exit
<1> QED
  BY <1>1, <1>2, <1>3, <1>4, <1>5, <1>6 DEF Thread

-----------------------------------------------------------------------------
(* The name in the holder table is that of a user inside its section.      *)
LEMMA MarkedIsUser ==
  ASSUME LockInv, Routes, NEW t \in Tasks, NEW m \in Shared,
         place[t] = m, ~Marked(t)
  PROVE  IsUser(mutex_holder[m], m, t)
<1> SUFFICES ASSUME mutex_holder[m] # NOBODY
             PROVE  mutex_holder[m] \in (Users(m) \cap Tasks) \ {t}
  BY DEF IsUser
<1> DEFINE h == mutex_holder[m]
<1>1. h \in AllTasks
  BY DEF LockInv, Holders
<1>2. place[h] = m /\ Marked(h)
  BY <1>1 DEF LockInv
<1> QED
  BY <1>1, <1>2 DEF Routes

LEMMA LockStepLooks ==
  ASSUME LockInv, Routes, Looked, NEW t \in Tasks, LockStep(t)
  PROVE  Looked'
<1>0. /\ t \in AllTasks /\ DOMAIN place = AllTasks /\ DOMAIN stage = AllTasks
      /\ DOMAIN holder_before = AllTasks
  BY Numbers DEF LockInv
<1>1. ASSUME NEW m \in Shared, ReadHolder(t, m)
      PROVE  Looked'
  <2>1. IsUser(mutex_holder[m], m, t) /\ place[t] = m
    BY <1>1, MarkedIsUser DEF ReadHolder, At, Marked
  <2>2. /\ holder_before' = [holder_before EXCEPT ![t] = mutex_holder[m]]
        /\ stage' = [stage EXCEPT ![t] = "lock"] /\ place' = place
    BY <1>1 DEF ReadHolder, Stay
  <2> QED
    BY <1>0, <2>1, <2>2 DEF Looked, IsUser
<1>2. ASSUME NEW m \in Shared, Lock(t, m) \/ MarkAcquired(t, m)
      PROVE  Looked'
  <2>1. \E s \in {"mark", "report"} :
          stage' = [stage EXCEPT ![t] = s] /\ UNCHANGED <<place, holder_before>>
    BY <1>2 DEF Lock, MarkAcquired, Stay
  <2> QED
    BY <1>0, <2>1 DEF Looked, IsUser
<1>3. ASSUME NEW m \in Shared, ReportWait(t, m)
      PROVE  Looked'
  <2>1. /\ holder_before' = [holder_before EXCEPT ![t] = NOBODY] /\ place' = place
        /\ stage' = [stage EXCEPT ![t] = "first"]
    BY <1>3 DEF ReportWait, Stay
  <2> QED
    BY <1>0, <2>1 DEF Looked, IsUser
<1>4. ASSUME holder_before[t] = NOBODY, holder_before' = holder_before,
             \A u \in AllTasks \ {t} : place'[u] = place[u] /\ stage'[u] = stage[u]
      PROVE  Looked'
  BY <1>4 DEF Looked, IsUser
<1>5. ASSUME NEW m \in Shared, MarkReleased(t, m)
      PROVE  Looked'
  BY <1>0, <1>4, <1>5 DEF MarkReleased, Looked, At, Stay
<1>6. ASSUME NEW m \in Shared, Unlock(t, m), Move(t)
      PROVE  Looked'
  BY <1>0, <1>4, <1>6 DEF Unlock, Looked, At, Move
<1>7. ASSUME NEW m \in Shared, AccessStep(t, m)
      PROVE  Looked'
  BY <1>0, <1>4, <1>7 DEF AccessStep, Looked, At, Stay, lockVars
<1>8. CASE OutsideStep(t)
  BY <1>0, <1>4, <1>8 DEF OutsideStep, Looked, Stay, Move, lockVars
<1> QED
  BY <1>1, <1>2, <1>3, <1>5, <1>6, <1>7, <1>8 DEF LockStep, Section

LEMMA AppendedWait ==
  ASSUME queue \in Seq(Events), WaitsQueued, NEW event \in Events, WaitEvent(event),
         Push(event)
  PROVE  WaitsQueued'
<1>1. queue' = queue \/ queue' = Append(queue, event)
  BY DEF Push
<1>2. CASE queue' = queue
  BY <1>2 DEF WaitsQueued
<1>3. CASE queue' = Append(queue, event)
  <2>1. /\ Len(queue') = Len(queue) + 1 /\ Len(queue) \in Nat
        /\ \A n \in 1 .. Len(queue') :
             queue'[n] = IF n \in 1 .. Len(queue) THEN queue[n] ELSE event
    BY <1>3
  <2> QED
    BY <2>1 DEF WaitsQueued
<1> QED
  BY <1>1, <1>2, <1>3

LEMMA WaitReported ==
  ASSUME LockInv, DataInv, Looked, WaitsQueued, NEW t \in Tasks, NEW m \in Shared,
         Section(t, m)
  PROVE  WaitsQueued'
<1>1. CASE ReportWait(t, m)
  <2> DEFINE event == ValueEvent("MUTEX_WAIT", t, m, holder_before[t])
  <2>1. t \in AllTasks /\ t \in Int /\ holder_before[t] \in Holders /\ holder_before[t] \in Int
    BY Numbers DEF LockInv
  <2>2. m \in Subjects /\ "MUTEX_WAIT" \in EventTypes
    BY DEF Subjects, EventTypes
  <2>3. event \in Events
    BY <2>1, <2>2, ValueEventType
  <2>4. IsUser(holder_before[t], m, t)
    BY <1>1, <2>1 DEF Looked, ReportWait, At, IsUser
  <2>5. WaitEvent(event)
    BY <2>1, <2>4 DEF WaitEvent, ValueEvent
  <2>6. Push(event) \/ UNCHANGED queue
    BY <1>1 DEF ReportWait
  <2>7. CASE Push(event)
    BY <2>3, <2>5, <2>7, AppendedWait DEF DataInv, BridgeTypeOK
  <2>8. CASE UNCHANGED queue
    BY <2>8 DEF WaitsQueued
  <2> QED
    BY <2>6, <2>7, <2>8
<1>2. CASE ~ReportWait(t, m)
  BY <1>2 DEF Section, ReadHolder, Lock, MarkAcquired, MarkReleased, bridgeVars,
     WaitsQueued
<1> QED
  BY <1>1, <1>2

LEMMA InversionInvInit == GroupBInit => InversionInv
<1> SUFFICES ASSUME GroupBInit PROVE InversionInv
  OBVIOUS
<1>1. IInv
  BY IInvInit
<1>2. Routes /\ Looked
  BY DEF GroupBInit, FirmwareInit, Routes, Looked, Shared
<1>3. WaitsQueued
  BY DEF GroupBInit, FirmwareInit, BridgeInit, WaitsQueued
<1> QED
  BY <1>1, <1>2, <1>3 DEF InversionInv

LEMMA InversionInvFirmware ==
  ASSUME InversionInv, [GroupBNext]_groupBVars
  PROVE  InversionInv'
<1>0. IInv /\ LockInv /\ DataInv /\ Routes /\ Looked /\ WaitsQueued
  BY DEF InversionInv, IInv
<1>1. IInv'
  BY <1>0, IInvNext
<1>2. ASSUME NEW t \in Tasks, Thread(t)
      PROVE  Routes' /\ Looked' /\ WaitsQueued'
  <2>1. Routes' /\ Looked'
    BY <1>0, <1>2, ThreadRoutes, ThreadIsLockStep, LockStepLooks
  <2>2. WaitsQueued'
    <3>1. ASSUME NEW m \in Shared, Section(t, m) PROVE WaitsQueued'
      BY <1>0, <3>1, WaitReported
    <3>2. CASE UNCHANGED queue
      BY <1>0, <3>2 DEF WaitsQueued
    <3> QED
      BY <1>2, <3>1, <3>2, ThreadQueues
  <2> QED
    BY <2>1, <2>2
<1>3. ASSUME NEW t \in Tasks, Spawn(t) \/ SpawnFails(t), UNCHANGED lockVars
      PROVE  Routes' /\ Looked' /\ WaitsQueued'
  <2>1. Routes' /\ Looked'
    BY <1>0, <1>3, SpawnRoutes, SpawnIsLockStep, LockStepLooks
  <2>2. WaitsQueued'
    BY <1>0, <1>3 DEF Spawn, SpawnFails, Creation, WaitsQueued
  <2> QED
    BY <2>1, <2>2
<1>4. ASSUME UNCHANGED groupBVars
      PROVE  Routes' /\ Looked' /\ WaitsQueued'
  BY <1>0, <1>4 DEF Routes, Looked, WaitsQueued, IsUser, groupBVars, firmwareVars,
     where, lockVars, bridgeVars
<1>5. Routes' /\ Looked' /\ WaitsQueued'
  BY <1>2, <1>3, <1>4 DEF GroupBNext, Main
<1> QED
  BY <1>1, <1>5 DEF InversionInv

LEMMA DeliveredWait ==
  ASSUME InversionInv, queue # <<>>
  PROVE  WaitEvent(Head(queue))
BY DEF InversionInv, IInv, DataInv, BridgeTypeOK, WaitsQueued

LEMMA InversionInvDeliver ==
  ASSUME InversionInv, DeliverWait
  PROVE  InversionInv'
<1>1. /\ queue # <<>> /\ queue' = Tail(queue)
      /\ UNCHANGED <<where, globals, locals, active, mailbox, lockVars>>
  BY DEF DeliverWait
<1>2. queue \in Seq(Events)
  BY DEF InversionInv, IInv, DataInv, BridgeTypeOK
<1>3. queue' \in Seq(Events)
  BY <1>1, <1>2
<1>4. WaitsQueued'
  <2>1. \A n \in 1 .. Len(queue') : queue'[n] = queue[n + 1] /\ n + 1 \in 1 .. Len(queue)
    BY <1>1, <1>2
  <2> QED
    BY <2>1 DEF InversionInv, WaitsQueued
<1>5. Routes' /\ Looked'
  BY <1>1 DEF InversionInv, Routes, Looked, IsUser, where, lockVars
<1>6. WhereInv' /\ LockInv'
  BY <1>1, LockInvStutter DEF InversionInv, IInv, WhereInv, WhereTypeOK, LoopsLeft,
     where
<1>7. DataInv'
  BY <1>1, <1>3 DEF InversionInv, IInv, DataInv, DataTypeOK, BridgeTypeOK, globals,
     locals, mailbox
<1> QED
  BY <1>4, <1>5, <1>6, <1>7 DEF InversionInv, IInv

LEMMA InversionInvNext == InversionInv /\ [InversionNext]_inversionVars => InversionInv'
<1> SUFFICES ASSUME InversionInv, [InversionNext]_inversionVars PROVE InversionInv'
  OBVIOUS
<1>1. CASE DeliverWait
  BY <1>1, InversionInvDeliver
<1>2. CASE [GroupBNext]_groupBVars
  BY <1>2, InversionInvFirmware
<1> QED
  BY <1>1, <1>2 DEF InversionNext, inversionVars

-----------------------------------------------------------------------------
(* The report.                                                             *)
LEMMA ReportInit == InversionInit => InversionTypeOK
BY Numbers, InversionAssumption DEF InversionInit, InversionTypeOK,
   NoBlame, Shared

(* One wait handed to record_wait.                                         *)
LEMMA WaitRecorded ==
  ASSUME InversionTypeOK, NEW event, WaitEvent(event), NEW wait \in Waits,
         RecordWait(event, wait)
  PROVE  InversionTypeOK'
<1>1. /\ event.task_id \in AllTasks /\ event.of \in Shared /\ event.value \in Holders
      /\ wait \in Nat /\ wait_threshold_ms \in Nat
  BY InversionAssumption DEF WaitEvent
<1>2. /\ total_waits \in Nat /\ suspicious_waits \in 0 .. total_waits
      /\ confirmed_inversions \in 0 .. suspicious_waits
      /\ max_wait_per_task \in [AllTasks -> {0} \cup Waits]
      /\ blame \in [task : Holders, mutex : Shared, holder : Holders,
                    wait : {0} \cup Waits]
  BY DEF InversionTypeOK
<1>3. total_waits' = total_waits + 1
  BY DEF RecordWait
<1>4. max_wait_per_task' \in [AllTasks -> {0} \cup Waits]
  BY <1>1, <1>2 DEF RecordWait
<1>5. \A b : Bit(b) \in {0, 1}
  BY DEF Bit
<1>6. /\ suspicious_waits' = suspicious_waits + (IF Suspicious(event, wait) THEN 1 ELSE 0)
      /\ confirmed_inversions' \in {confirmed_inversions, confirmed_inversions + 1}
      /\ ~Suspicious(event, wait) => confirmed_inversions' = confirmed_inversions
  BY <1>2, <1>5 DEF RecordWait
<1>7. /\ suspicious_waits' \in 0 .. total_waits'
      /\ confirmed_inversions' \in 0 .. suspicious_waits'
  BY <1>2, <1>3, <1>6
<1>8. blame' \in [task : Holders, mutex : Shared, holder : Holders,
                 wait : {0} \cup Waits]
  BY <1>1, <1>2, Numbers DEF RecordWait
<1> QED
  BY <1>2, <1>3, <1>4, <1>7, <1>8 DEF InversionTypeOK

(* An inversion that is confirmed blames a user of the mutex other than    *)
(* the alarm task.                                                         *)
LEMMA UserBlamed ==
  ASSUME InversionTypeOK, NEW event, WaitEvent(event), NEW wait \in Waits,
         RecordWait(event, wait), confirmed_inversions' # confirmed_inversions
  PROVE  blame'.holder \in (Users(blame'.mutex) \cap Tasks) \ {ALARM}
<1>1. confirmed_inversions \in Nat
  BY DEF InversionTypeOK
<1>2. /\ Suspicious(event, wait)
      /\ blame' = [task |-> event.task_id, mutex |-> event.of,
                   holder |-> event.value, wait |-> wait]
      /\ confirmed_inversions' = confirmed_inversions + Bit(HolderIsLower(event))
  BY DEF RecordWait
<1>3. HolderIsLower(event)
  BY <1>1, <1>2 DEF Bit
<1>4. event.value # NOBODY
  BY <1>3 DEF HolderIsLower
<1>5. event.task_id = ALARM
  BY <1>2 DEF Suspicious
<1>6. event.value \in (Users(event.of) \cap Tasks) \ {ALARM}
  BY <1>4, <1>5 DEF WaitEvent, IsUser
<1> QED
  BY <1>2, <1>6

LEMMA ReportNext ==
  ASSUME InversionInv, InversionTypeOK, [InversionNext]_inversionVars
  PROVE  InversionTypeOK'
<1>1. CASE DeliverWait
  BY <1>1, DeliveredWait, WaitRecorded DEF DeliverWait
<1>2. CASE UNCHANGED checkerVars
  BY <1>2 DEF InversionTypeOK, checkerVars
<1> QED
  BY <1>1, <1>2 DEF InversionNext, inversionVars

THEOREM InversionInvHolds == InversionSpec => [](InversionInv /\ InversionTypeOK)
<1>1. InversionInit => InversionInv /\ InversionTypeOK
  BY InversionInvInit, ReportInit DEF InversionInit
<1>2. InversionInv /\ InversionTypeOK /\ [InversionNext]_inversionVars
        => (InversionInv /\ InversionTypeOK)'
  BY InversionInvNext, ReportNext
<1> QED
  BY <1>1, <1>2, PTL DEF InversionSpec

(* Every confirmed inversion was a suspicious wait, and every suspicious   *)
(* wait a wait.                                                            *)
THEOREM InversionTyped == InversionSpec => []InversionTypeOK
BY InversionInvHolds, PTL

(* A confirmed inversion never blames a task whose code does not lock the  *)
(* mutex, nor the waiting task, although the lookup is outside the mutex.  *)
THEOREM BlameIsPlausible == InversionSpec => BlamedTaskUsesMutex
<1>1. ASSUME InversionInv, InversionTypeOK, [InversionNext]_inversionVars,
             confirmed_inversions' # confirmed_inversions
      PROVE  blame'.holder \in (Users(blame'.mutex) \cap Tasks) \ {ALARM}
  <2>1. DeliverWait
    BY <1>1 DEF InversionNext, inversionVars, checkerVars
  <2>2. PICK wait \in Waits : RecordWait(Head(queue), wait)
    BY <2>1 DEF DeliverWait
  <2>3. WaitEvent(Head(queue))
    BY <1>1, <2>1, DeliveredWait DEF DeliverWait
  <2> QED
    BY <1>1, <2>2, <2>3, UserBlamed
<1>2. InversionInv /\ InversionTypeOK /\ [InversionNext]_inversionVars
        => [confirmed_inversions' # confirmed_inversions =>
              blame'.holder \in (Users(blame'.mutex) \cap Tasks) \ {ALARM}]_inversionVars
  BY <1>1
<1> QED
  BY InversionInvHolds, <1>2, PTL DEF InversionSpec, BlamedTaskUsesMutex
=============================================================================
