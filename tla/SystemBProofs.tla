---------------------------- MODULE SystemBProofs ----------------------------
(***************************************************************************)
(* No torn read is ever reported of the protected firmware: proofs about   *)
(* the firmware's threads, the event queue and the scoreboard together.    *)
(***************************************************************************)
EXTENDS SystemB, GroupBProofs, ChannelProofs

-----------------------------------------------------------------------------
(***************************************************************************)
(* The steps of a thread, seen from the coherence of sensor_data.          *)
(***************************************************************************)

(* sensor_task has pushed its reading and not yet stored the humidity.     *)
Sampled == place[SENSOR] = "sensor_data" /\ stage[SENSOR] = "second"

(* control_task has read the pair and not yet reported it.                 *)
Consuming ==
  \/ place[CONTROL] \in {"target_temp", "report"}
  \/ place[CONTROL] = "sensor_data" /\ stage[CONTROL] \in {"unmark", "unlock"}

SameStages ==
  /\ Between(SENSOR, "sensor_data")' <=> Between(SENSOR, "sensor_data")
  /\ Sampled' => Sampled
  /\ Consuming' => Consuming

(* Nothing happens to sensor_data, to its reading or to control_task's     *)
(* copy; an event of another type may be pushed.                           *)
Neutral ==
  /\ UNCHANGED <<sensor_data, held, view[CONTROL]>>
  /\ SameStages
  /\ \/ UNCHANGED queue
     \/ \E e : e.type \notin {"SENSOR", "CONTROL_IN"} /\ Push(e)

CoherenceStep ==
  \/ Neutral
  \/ Access(SENSOR, "sensor_data", "first", "sample") /\ StoreTemperature
  \/ Access(SENSOR, "sensor_data", "sample", "second") /\ SampleHumidity
  \/ Access(SENSOR, "sensor_data", "second", "unmark") /\ StoreHumidity
  \/ Access(CONTROL, "sensor_data", "first", "second") /\ LoadTemperature(CONTROL)
  \/ Access(CONTROL, "sensor_data", "second", "unmark") /\ LoadHumidity(CONTROL)
  \/ ReportControlInputs /\ UNCHANGED lockVars

Tracked == <<sensor_data, held, view[CONTROL]>>

(* A task that moves on from a place outside the sensor section, or that   *)
(* stays in a stage no closer to a report, keeps SameStages.               *)
LEMMA MoveKeepsStages ==
  ASSUME IInv, NEW t \in Tasks, Move(t),
         t = SENSOR => ~Between(SENSOR, "sensor_data"),
         t = CONTROL => Consuming \/ place'[CONTROL] \notin {"target_temp", "report"}
  PROVE  SameStages
BY GroupBAssumption, FirmwareAssumption
   DEF SameStages, Move, Between, Sampled, Consuming, Entry, IInv, WhereInv,
       WhereTypeOK, AllTasks, LOGGER, ALARM, SENSOR, CONTROL

LEMMA StayKeepsStages ==
  ASSUME IInv, NEW t \in Tasks, NEW s, Stay(t, s),
         t = SENSOR => (stage[t] \in {"sample", "second"} <=> s \in {"sample", "second"})
                         /\ s # "second",
         t = CONTROL => s \notin {"unmark", "unlock"} \/ Consuming
                          \/ place[t] # "sensor_data"
  PROVE  SameStages
BY FirmwareAssumption
   DEF SameStages, Stay, Between, Sampled, Consuming, IInv, WhereInv,
       WhereTypeOK, AllTasks, LOGGER, ALARM, SENSOR, CONTROL

LEMMA SectionIsNeutral ==
  ASSUME IInv, NEW t \in Tasks, NEW m \in Shared, Section(t, m)
  PROVE  Neutral
<1>1. UNCHANGED Tracked
  BY DEF Section, ReadHolder, Lock, MarkAcquired, ReportWait, MarkReleased,
     Tracked, globals, locals
<1>2. UNCHANGED queue \/ \E e : e.type \notin {"SENSOR", "CONTROL_IN"} /\ Push(e)
  <2>1. ValueEvent("MUTEX_WAIT", t, m, holder_before[t]).type = "MUTEX_WAIT"
    BY DEF ValueEvent
  <2> QED
    BY <2>1 DEF Section, ReadHolder, Lock, MarkAcquired, ReportWait,
       MarkReleased, bridgeVars
<1>3. SameStages
  <2>1. CASE ReadHolder(t, m) \/ Lock(t, m) \/ MarkAcquired(t, m) \/ ReportWait(t, m)
    BY <2>1, StayKeepsStages DEF ReadHolder, Lock, MarkAcquired, ReportWait, At
  <2>2. CASE MarkReleased(t, m)
    <3>1. t = CONTROL /\ place[t] = "sensor_data" => Consuming
      BY <2>2 DEF MarkReleased, At, Consuming
    <3> QED
      BY <2>2, <3>1, StayKeepsStages DEF MarkReleased, At
  <2> QED
    BY <2>1, <2>2 DEF Section
<1> QED
  BY <1>1, <1>2, <1>3 DEF Neutral, Tracked

LEMMA UnlockIsNeutral ==
  ASSUME IInv, NEW t \in Tasks, NEW m \in Shared, Unlock(t, m), Move(t),
         t = CONTROL => \/ m \in {"sensor_data", "target_temp"}
                        \/ place'[CONTROL] \notin {"target_temp", "report"}
  PROVE  Neutral
<1>1. UNCHANGED Tracked /\ UNCHANGED queue
  BY DEF Unlock, Tracked, globals, locals, bridgeVars
<1>2. t = SENSOR => ~Between(SENSOR, "sensor_data")
  BY DEF Unlock, At, Between
<1>3. t = CONTROL => Consuming \/ place'[CONTROL] \notin {"target_temp", "report"}
  BY DEF Unlock, At, Consuming
<1> QED
  BY <1>1, <1>2, <1>3, MoveKeepsStages DEF Neutral, Tracked

(* An access of another variable, or by a reader other than control_task.  *)
LEMMA AccessIsNeutral ==
  ASSUME IInv, NEW t \in Tasks, NEW m, NEW s, NEW next,
         Access(t, m, s, next), UNCHANGED Tracked, UNCHANGED queue,
         t # SENSOR, t = CONTROL => m # "sensor_data"
  PROVE  Neutral
<1>1. SameStages
  BY StayKeepsStages DEF Access, At
<1> QED
  BY <1>1 DEF Neutral, Tracked

LEMMA SensorIsCoherenceStep ==
  ASSUME IInv, SENSOR \in Tasks, sensor_task_safe
  PROVE  CoherenceStep
<1>1. CASE Section(SENSOR, "sensor_data")
  BY <1>1, SectionIsNeutral DEF CoherenceStep, Shared
<1>2. CASE Unlock(SENSOR, "sensor_data") /\ EndIteration(SENSOR)
  BY <1>2, UnlockIsNeutral, EndIterationMoves
     DEF CoherenceStep, Shared, SENSOR, CONTROL
<1> QED
  BY <1>1, <1>2 DEF sensor_task_safe, CoherenceStep

LEMMA ControlIsCoherenceStep ==
  ASSUME IInv, CONTROL \in Tasks, control_task_safe
  PROVE  CoherenceStep
<1> USE DEF CoherenceStep
<1>1. ASSUME NEW m \in Shared, Section(CONTROL, m)
      PROVE  CoherenceStep
  BY <1>1, SectionIsNeutral
<1>2. CASE \/ Unlock(CONTROL, "sensor_data") /\ Goto(CONTROL, "target_temp")
           \/ Unlock(CONTROL, "target_temp") /\ Goto(CONTROL, "report")
  BY <1>2, UnlockIsNeutral, GotoMoves DEF Shared, Places
<1>3. CASE Unlock(CONTROL, "actuators") /\ Goto(CONTROL, "pwm")
  <2>1. place'[CONTROL] = "pwm"
    BY <1>3, FirmwareAssumption DEF Goto, IInv, WhereInv, WhereTypeOK
  <2> QED
    BY <1>3, <2>1, UnlockIsNeutral, GotoMoves DEF Shared, Places
<1>4. CASE Access(CONTROL, "target_temp", "first", "unmark") /\ LoadTarget
  BY <1>4, AccessIsNeutral DEF LoadTarget, Tracked, globals, bridgeVars, SENSOR,
     CONTROL
<1>5. CASE \/ Access(CONTROL, "actuators", "first", "second") /\ StorePump
           \/ Access(CONTROL, "actuators", "second", "unmark") /\ StoreFan
  BY <1>5, AccessIsNeutral DEF StorePump, StoreFan, Tracked, locals, bridgeVars,
     SENSOR, CONTROL
<1>6. CASE PwmSet \/ GpioWritePump
  <2>1. UNCHANGED Tracked
    BY <1>6 DEF PwmSet, GpioWritePump, Call, Tracked, globals, locals
  <2>2. \E e : e.type \notin {"SENSOR", "CONTROL_IN"} /\ Push(e)
    BY <1>6 DEF PwmSet, GpioWritePump, Call, ValueEvent
  <2>3. Move(CONTROL) /\ place'[CONTROL] \notin {"target_temp", "report"}
    BY <1>6, FirmwareAssumption, GotoMoves, EndIterationMoves
       DEF PwmSet, GpioWritePump, Goto, EndIteration, Start, Places, COMM,
           CONTROL, IInv, WhereInv, WhereTypeOK
  <2>4. SameStages
    BY <2>3, MoveKeepsStages DEF SENSOR, CONTROL
  <2> QED
    BY <2>1, <2>2, <2>4 DEF Neutral, Tracked
<1> QED
  BY <1>1, <1>2, <1>3, <1>4, <1>5, <1>6
     DEF control_task_safe, ReadSensorData, Shared

LEMMA ReaderIsCoherenceStep ==
  ASSUME IInv, NEW t \in Tasks,
         \/ t = ALARM /\ alarm_task_safe
         \/ t = LOGGER /\ logger_task_safe
  PROVE  CoherenceStep
<1> USE DEF CoherenceStep
<1>0. t # SENSOR /\ t # CONTROL /\ t \in Readers
  BY DEF ALARM, LOGGER, SENSOR, CONTROL, Readers
<1>1. ASSUME NEW m \in Shared, Section(t, m)
      PROVE  CoherenceStep
  BY <1>1, SectionIsNeutral
<1>2. ASSUME NEW m \in Shared, Unlock(t, m), Move(t)
      PROVE  CoherenceStep
  BY <1>0, <1>2, UnlockIsNeutral
<1>3. ASSUME NEW s, NEW next, Access(t, "sensor_data", s, next),
             LoadTemperature(t) \/ LoadHumidity(t)
      PROVE  CoherenceStep
  <2>1. UNCHANGED Tracked /\ UNCHANGED queue
    BY <1>0, <1>3 DEF LoadTemperature, LoadHumidity, Tracked, globals,
       bridgeVars, Readers, IInv, DataInv, DataTypeOK
  <2> QED
    BY <1>0, <1>3, <2>1, AccessIsNeutral
<1>4. ASSUME NEW m, NEW s, NEW next, Access(t, m, s, next),
             StoreAlarm \/ LogPump \/ LogFan \/ LogAlarm
      PROVE  CoherenceStep
  <2>1. UNCHANGED Tracked /\ UNCHANGED queue
    BY <1>4 DEF StoreAlarm, LogPump, LogFan, LogAlarm, Tracked, globals, locals,
       bridgeVars
  <2> QED
    BY <1>0, <1>4, <2>1, AccessIsNeutral
<1>5. ASSUME GpioWriteLed \/ LogWrite, t = ALARM \/ t = LOGGER, Move(t)
      PROVE  CoherenceStep
  <2>1. UNCHANGED Tracked
    BY <1>5 DEF GpioWriteLed, LogWrite, Call, Tracked, globals, locals
  <2>2. UNCHANGED queue \/ \E e : e.type \notin {"SENSOR", "CONTROL_IN"} /\ Push(e)
    BY <1>5 DEF GpioWriteLed, LogWrite, Call, ValueEvent, SignalEvent, bridgeVars
  <2>3. SameStages
    BY <1>0, <1>5, MoveKeepsStages
  <2> QED
    BY <2>1, <2>2, <2>3 DEF Neutral, Tracked
<1>6. CASE t = ALARM /\ alarm_task_safe
  BY <1>1, <1>2, <1>3, <1>4, <1>5, <1>6, GotoMoves, EndIterationMoves
     DEF alarm_task_safe, ReadSensorData, Shared, Places, GpioWriteLed
<1>7. CASE t = LOGGER /\ logger_task_safe
  BY <1>1, <1>2, <1>3, <1>4, <1>5, <1>7, GotoMoves, EndIterationMoves
     DEF logger_task_safe, ReadSensorData, Shared, Places, LogWrite
<1> QED
  BY <1>6, <1>7

LEMMA CommIsCoherenceStep ==
  ASSUME IInv, COMM \in Tasks, comm_task_safe
  PROVE  CoherenceStep
<1> USE DEF CoherenceStep
<1>0. COMM # SENSOR /\ COMM # CONTROL
  BY DEF COMM, SENSOR, CONTROL
<1>1. ASSUME NEW m \in Shared, Section(COMM, m)
      PROVE  CoherenceStep
  BY <1>1, SectionIsNeutral
<1>2. ASSUME NEW m \in Shared, Unlock(COMM, m), Move(COMM)
      PROVE  CoherenceStep
  BY <1>0, <1>2, UnlockIsNeutral
<1>3. ASSUME NEW m, NEW s, NEW next, Access(COMM, m, s, next),
             StoreTarget(CommandTarget) \/ StoreEnabled
      PROVE  CoherenceStep
  <2>1. UNCHANGED Tracked /\ UNCHANGED queue
    BY <1>3 DEF StoreTarget, StoreEnabled, Tracked, locals, bridgeVars
  <2> QED
    BY <1>0, <1>3, <2>1, AccessIsNeutral
<1>4. CASE UartRx
  <2>1. UNCHANGED Tracked
    BY <1>4 DEF UartRx, UartStub, UartPoll, UartCheck, UartCopyType,
       UartCopyValue, UartEventType, UartEvent, UartConsume, Call, Tracked,
       globals, locals
  <2>2. UNCHANGED queue \/ \E e : e.type \notin {"SENSOR", "CONTROL_IN"} /\ Push(e)
    BY <1>4 DEF UartRx, UartStub, UartPoll, UartCheck, UartCopyType,
       UartCopyValue, UartEventType, UartEvent, UartConsume, Call, ValueEvent,
       SignalEvent, bridgeVars
  <2>3. Move(COMM) \/ \E s : Stay(COMM, s)
    BY <1>4, GotoMoves, EndIterationMoves DEF UartRx, UartStub, UartPoll,
       UartCheck, UartCopyType, UartCopyValue, UartEventType, UartEvent,
       UartConsume, Dispatch, Places, Shared
  <2>4. SameStages
    BY <1>0, <2>3, MoveKeepsStages, StayKeepsStages
  <2> QED
    BY <2>1, <2>2, <2>4 DEF Neutral, Tracked
<1>5. AfterTarget => Move(COMM)
  BY GotoMoves, EndIterationMoves DEF AfterTarget, Places, Shared
<1> QED
  BY <1>1, <1>2, <1>3, <1>4, <1>5, GotoMoves, EndIterationMoves
     DEF comm_task_safe, Shared

LEMMA LifeIsCoherenceStep ==
  ASSUME IInv, NEW t \in Tasks, Spawn(t) \/ SpawnFails(t) \/ Finish(t)
  PROVE  CoherenceStep
<1>1. UNCHANGED Tracked
  BY DEF Spawn, SpawnFails, Creation, Finish, SignalDone, Exit, Call, Tracked, globals, locals
<1>2. UNCHANGED queue \/ \E e : e.type \notin {"SENSOR", "CONTROL_IN"} /\ Push(e)
  BY DEF Spawn, SpawnFails, Creation, Finish, SignalDone, Exit, Call, ValueEvent, SignalEvent
<1>3. Move(t) /\ place'[t] \notin {"target_temp", "report"}
  BY GotoMoves, FirmwareAssumption
     DEF Spawn, SpawnFails, Creation, Finish, SignalDone, Exit, Goto, Start, Places, Shared, IInv,
         WhereInv, WhereTypeOK
<1>4. ~Between(t, "sensor_data")
  BY DEF Spawn, SpawnFails, Creation, Finish, SignalDone, Exit, At, Between
<1>5. SameStages
  BY <1>3, <1>4, MoveKeepsStages
<1> QED
  BY <1>1, <1>2, <1>5 DEF CoherenceStep, Neutral, Tracked

LEMMA ThreadIsCoherenceStep ==
  ASSUME IInv, NEW t \in Tasks, Thread(t)
  PROVE  CoherenceStep
BY SensorIsCoherenceStep, ControlIsCoherenceStep, ReaderIsCoherenceStep,
   CommIsCoherenceStep, LifeIsCoherenceStep DEF Thread

-----------------------------------------------------------------------------
(***************************************************************************)
(* The inductive invariant.  Whatever pair sensor_data holds outside the   *)
(* sensor's section has been reported, or is about to be delivered; so has *)
(* the pair control_task is about to report; and no control input is on    *)
(* its way ahead of the reading it consumed.                               *)
(***************************************************************************)
CoherenceInv ==
  /\ batch \in Seq(Events)
  /\ poller \notin {"deliver", "final_deliver"} => batch = <<>>
  /\ torn_reads = 0
  /\ InOrder(Stream, seen_pairs, Pairs)
  /\ ~Between(SENSOR, "sensor_data") => Known(sensor_data)
  /\ Sampled => Known(held)
  /\ Consuming => Known(view[CONTROL])

SystemInv == FullInv /\ CoherenceInv

(* A step that leaves the stream as it is, or pushes an event that says    *)
(* nothing about sensor_data.                                              *)
LEMMA NeutralKeepsCoherence ==
  ASSUME IInv, CoherenceInv, queue' \in Seq(Events), Neutral,
         UNCHANGED dutBridgeVars
  PROVE  CoherenceInv'
<1>1. /\ UNCHANGED <<batch, poller, torn_reads, seen_pairs>>
      /\ batch \in Seq(Events) /\ queue \in Seq(Events)
      /\ InOrder(Stream, seen_pairs, Pairs)
  BY DEF dutBridgeVars, scoreboardVars, CoherenceInv, IInv, DataInv, BridgeTypeOK
<1>2. /\ InOrder(Stream', seen_pairs', Pairs)
      /\ \A pair : Known(pair)
           => KnownAt(Stream', seen_pairs', pair, Len(Stream'))
  <2>1. CASE UNCHANGED queue
    <3>1. Stream' = Stream /\ seen_pairs' = seen_pairs
      BY <1>1, <2>1 DEF Stream
    <3> QED
      BY <1>1, <3>1 DEF Known
  <2>2. ASSUME NEW e, e.type \notin {"SENSOR", "CONTROL_IN"}, Push(e)
        PROVE  /\ InOrder(Stream', seen_pairs', Pairs)
               /\ \A pair : Known(pair)
                    => KnownAt(Stream', seen_pairs', pair, Len(Stream'))
    BY <1>1, <2>2, PushedEvent
  <2> QED
    BY <2>1, <2>2 DEF Neutral
<1> QED
  BY <1>1, <1>2 DEF CoherenceInv, Neutral, SameStages, Known

(* The accesses of sensor_task and control_task to sensor_data, and the    *)
(* report.                                                                 *)
LEMMA ThreadKeepsCoherence ==
  ASSUME "SENSOR" \in Registered, SystemInv, queue' \in Seq(Events),
         CoherenceStep, UNCHANGED dutBridgeVars
  PROVE  CoherenceInv'
<1>1. /\ UNCHANGED <<batch, poller, torn_reads, seen_pairs>>
      /\ batch \in Seq(Events) /\ queue \in Seq(Events)
      /\ InOrder(Stream, seen_pairs, Pairs)
  BY DEF dutBridgeVars, scoreboardVars, SystemInv, FullInv, CoherenceInv, IInv,
     DataInv, BridgeTypeOK
<1>2. /\ place \in [AllTasks -> Places] /\ stage \in [AllTasks -> Stages]
      /\ SENSOR \in AllTasks /\ CONTROL \in AllTasks /\ SENSOR # CONTROL
      /\ ~(/\ InSection(SENSOR) /\ InSection(CONTROL)
           /\ place[SENSOR] = place[CONTROL])
  BY LockInvImplies DEF SystemInv, FullInv, IInv, LockInv, MutualExclusion,
     AllTasks, SENSOR, CONTROL, LOGGER, ALARM
<1>3. /\ sensor_data \in Pairs /\ held \in Pairs /\ CONTROL \in Readers
      /\ view \in [Readers -> Pairs]
  BY DEF SystemInv, FullInv, IInv, DataInv, DataTypeOK, Readers
<1>4. ASSUME UNCHANGED bridgeVars
      PROVE  Stream' = Stream /\ seen_pairs' = seen_pairs
  BY <1>1, <1>4 DEF Stream, bridgeVars
<1>5. CASE Neutral
  BY <1>5, NeutralKeepsCoherence DEF SystemInv, FullInv
<1>6. CASE Access(SENSOR, "sensor_data", "first", "sample") /\ StoreTemperature
  <2>1. /\ Between(SENSOR, "sensor_data")' /\ ~Sampled'
        /\ Consuming' => Consuming
    BY <1>2, <1>6 DEF Access, At, Stay, Between, Sampled, Consuming
  <2>2. UNCHANGED <<view, bridgeVars>>
    BY <1>6 DEF StoreTemperature
  <2> QED
    BY <1>1, <1>4, <2>1, <2>2 DEF SystemInv, CoherenceInv, Known
<1>7. CASE Access(SENSOR, "sensor_data", "sample", "second") /\ SampleHumidity
  <2> DEFINE e == PairEvent("SENSOR", SENSOR, held)
  <2>1. /\ Between(SENSOR, "sensor_data")'
        /\ Consuming' => Consuming
    BY <1>2, <1>7 DEF Access, At, Stay, Between, Consuming
  <2>2. UNCHANGED <<view, held>> /\ Push(e)
    BY <1>7 DEF SampleHumidity, locals
  <2>3. e.type = "SENSOR" /\ e.pair = held
    BY DEF PairEvent
  <2> HIDE DEF e
  <2>4. /\ InOrder(Stream', seen_pairs', Pairs)
        /\ \A pair : Known(pair)
             => KnownAt(Stream', seen_pairs', pair, Len(Stream'))
        /\ KnownAt(Stream', seen_pairs', held, Len(Stream'))
    BY <1>1, <2>2, <2>3, PushedEvent
  <2> QED
    BY <1>1, <2>1, <2>2, <2>4 DEF SystemInv, CoherenceInv, Known
<1>8. CASE Access(SENSOR, "sensor_data", "second", "unmark") /\ StoreHumidity
  <2>1. Sampled /\ Between(SENSOR, "sensor_data") /\ ~Sampled'
        /\ (Consuming' => Consuming)
    BY <1>2, <1>8 DEF Access, At, Stay, Between, Sampled, Consuming
  <2>2. sensor_data.temperature = held.temperature
    BY <2>1 DEF SystemInv, FullInv, HalfInv
  <2>3. sensor_data' = held /\ UNCHANGED <<view, bridgeVars>>
    BY <1>3, <1>8, <2>2 DEF StoreHumidity, locals, Pairs
  <2>4. Known(held)
    BY <2>1 DEF SystemInv, CoherenceInv
  <2> QED
    BY <1>1, <1>4, <2>1, <2>3, <2>4 DEF SystemInv, CoherenceInv, Known
<1>9. CASE /\ Access(CONTROL, "sensor_data", "first", "second")
           /\ LoadTemperature(CONTROL)
  <2>1. /\ ~Consuming' /\ Sampled' = Sampled
        /\ Between(SENSOR, "sensor_data")' = Between(SENSOR, "sensor_data")
    BY <1>2, <1>9 DEF Access, At, Stay, Between, Sampled, Consuming
  <2>2. UNCHANGED <<sensor_data, held, bridgeVars>>
    BY <1>9 DEF LoadTemperature, globals
  <2> QED
    BY <1>1, <1>4, <2>1, <2>2 DEF SystemInv, CoherenceInv, Known
<1>10. CASE /\ Access(CONTROL, "sensor_data", "second", "unmark")
            /\ LoadHumidity(CONTROL)
  <2>1. /\ Between(CONTROL, "sensor_data") /\ ~Between(SENSOR, "sensor_data")
        /\ ~Sampled' /\ InSection(CONTROL)
    BY <1>2, <1>10 DEF Access, At, Stay, Between, Sampled, InSection, Shared
  <2>2. view[CONTROL].temperature = sensor_data.temperature
    BY <1>3, <2>1 DEF SystemInv, FullInv, HalfInv
  <2>3. /\ view'[CONTROL] = sensor_data
        /\ UNCHANGED <<sensor_data, held, bridgeVars>>
    BY <1>3, <1>10, <2>2 DEF LoadHumidity, globals, Pairs
  <2>4. Known(sensor_data)
    BY <2>1 DEF SystemInv, CoherenceInv
  <2> QED
    BY <1>1, <1>4, <2>1, <2>3, <2>4 DEF SystemInv, CoherenceInv, Known
<1>11. CASE ReportControlInputs /\ UNCHANGED lockVars
  <2> DEFINE e == PairEvent("CONTROL_IN", CONTROL, view[CONTROL])
  <2>1. /\ Consuming /\ ~Consuming' /\ Sampled' = Sampled
        /\ Between(SENSOR, "sensor_data")' = Between(SENSOR, "sensor_data")
    BY <1>2, <1>11 DEF ReportControlInputs, Goto, Entry, At, Between, Sampled,
       Consuming
  <2>2. UNCHANGED <<sensor_data, held>> /\ Push(e)
    BY <1>11 DEF ReportControlInputs, Call, globals, locals
  <2>3. e.type = "CONTROL_IN" /\ e.pair = view[CONTROL]
    BY DEF PairEvent
  <2>4. Known(view[CONTROL])
    BY <2>1 DEF SystemInv, CoherenceInv
  <2> HIDE DEF e
  <2>5. /\ InOrder(Stream', seen_pairs', Pairs)
        /\ \A pair : Known(pair)
             => KnownAt(Stream', seen_pairs', pair, Len(Stream'))
    BY <1>1, <2>2, <2>3, <2>4, PushedEvent
  <2> QED
    BY <1>1, <2>1, <2>2, <2>5 DEF SystemInv, CoherenceInv, Known
<1> QED
  BY <1>5, <1>6, <1>7, <1>8, <1>9, <1>10, <1>11 DEF CoherenceStep

-----------------------------------------------------------------------------
(***************************************************************************)
(* The steps of the testbench.                                             *)
(***************************************************************************)

LEMMA DeliverKeepsCoherence ==
  ASSUME SystemInv, Deliver, UNCHANGED <<where, globals, locals>>
  PROVE  CoherenceInv'
<1>1. /\ batch \in Seq(Events) /\ queue \in Seq(Events) /\ batch # <<>>
      /\ InOrder(Stream, seen_pairs, Pairs) /\ torn_reads = 0
      /\ poller \in {"deliver", "final_deliver"}
  BY DEF Deliver, SystemInv, FullInv, CoherenceInv, IInv, DataInv, BridgeTypeOK
<1>2. /\ UNCHANGED <<poller, queue, where, sensor_data, held, view>>
      /\ batch' = Tail(batch) /\ WriteEvent(Head(batch))
  BY DEF Deliver, bridgeVars, globals, locals
<1>3. /\ Stream \in Seq(Events) /\ Stream # <<>>
      /\ Head(Stream) = Head(batch)
      /\ Stream' = Tail(Stream)
  BY <1>1, <1>2, StreamOf DEF Stream
<1>4. /\ seen_pairs \subseteq seen_pairs'
      /\ Head(Stream).type = "SENSOR" => Head(Stream).pair \in seen_pairs'
      /\ torn_reads' = torn_reads
           \/ /\ Head(Stream).type = "CONTROL_IN"
              /\ Head(Stream).pair \notin seen_pairs
  BY <1>2, <1>3, WriteSeen
<1>5. batch' \in Seq(Events) /\ Head(batch) \in Events
  BY <1>1, <1>2, HeadTailProperties
<1>6. Head(Stream).pair \in Pairs
  BY <1>3, <1>5 DEF Events
<1> HIDE DEF Stream
<1>7. /\ \A pair : Known(pair)
           => KnownAt(Stream', seen_pairs', pair, Len(Stream'))
      /\ InOrder(Stream', seen_pairs', Pairs)
      /\ torn_reads' = 0
  BY <1>1, <1>3, <1>4, <1>6, DeliveredEvent DEF Known
<1>8. /\ Between(SENSOR, "sensor_data")' = Between(SENSOR, "sensor_data")
      /\ Sampled' = Sampled /\ Consuming' = Consuming
  BY <1>2 DEF where, Between, Sampled, Consuming
<1> QED
  BY <1>1, <1>2, <1>5, <1>7, <1>8 DEF SystemInv, CoherenceInv, Known

LEMMA SwapKeepsCoherence ==
  ASSUME SystemInv, DrainSwap, UNCHANGED <<where, globals, locals>>
  PROVE  CoherenceInv'
<1>1. /\ batch = <<>> /\ queue \in Seq(Events) /\ torn_reads = 0
      /\ InOrder(Stream, seen_pairs, Pairs)
  BY DEF DrainSwap, SystemInv, FullInv, CoherenceInv, IInv, DataInv, BridgeTypeOK
<1>2. /\ batch' = queue /\ queue' = <<>>
      /\ UNCHANGED <<where, sensor_data, held, view, torn_reads, seen_pairs>>
      /\ poller' \in {"deliver", "final_deliver"}
  BY DEF DrainSwap, globals, locals, scoreboardVars
<1>3. Stream' = Stream /\ seen_pairs' = seen_pairs
  BY <1>1, <1>2, StreamOf DEF Stream
<1>4. /\ Between(SENSOR, "sensor_data")' = Between(SENSOR, "sensor_data")
      /\ Sampled' = Sampled /\ Consuming' = Consuming
  BY <1>2 DEF where, Between, Sampled, Consuming
<1> QED
  BY <1>1, <1>2, <1>3, <1>4 DEF SystemInv, CoherenceInv, Known

(* Every other step outside the threads: only the poller's place changes,  *)
(* and it leaves a drain when the batch is empty.                          *)
LEMMA IdleKeepsCoherence ==
  ASSUME SystemInv, UNCHANGED <<where, globals, locals, queue, batch, scoreboardVars>>,
         poller' = poller \/ batch = <<>>
  PROVE  CoherenceInv'
<1>1. Stream' = Stream /\ seen_pairs' = seen_pairs /\ torn_reads' = torn_reads
  BY DEF Stream, scoreboardVars
<1>2. /\ Between(SENSOR, "sensor_data")' = Between(SENSOR, "sensor_data")
      /\ Sampled' = Sampled /\ Consuming' = Consuming
      /\ UNCHANGED <<sensor_data, held, view>>
  BY DEF where, Between, Sampled, Consuming, globals, locals
<1> QED
  BY <1>1, <1>2 DEF SystemInv, CoherenceInv, Known

(* A step of the testbench leaves the firmware alone.                      *)
LEMMA TestbenchKeepsFull ==
  ASSUME FullInv, UNCHANGED <<where, globals, locals, lockVars>>, BridgeTypeOK'
  PROVE  FullInv'
<1>1. WhereInv' /\ LockInv'
  BY LockInvStutter DEF FullInv, IInv, WhereInv, WhereTypeOK, LoopsLeft, where
<1>2. DataInv'
  BY DEF FullInv, IInv, DataInv, DataTypeOK, globals, locals
<1>3. HalfInv'
  BY IdleIsQuiet, HalfInvStep DEF FullInv, DataStep
<1> QED
  BY <1>1, <1>2, <1>3 DEF FullInv, IInv

LEMMA DriverKeepsBridge ==
  ASSUME FullInv, CommDriver, UNCHANGED <<globals, locals>>
  PROVE  BridgeTypeOK'
BY DriverKeepsType DEF FullInv, IInv, DataInv

-----------------------------------------------------------------------------
LEMMA SystemInvInit == SystemBInit => SystemInv
<1> SUFFICES ASSUME SystemBInit
             PROVE  SystemInv
  OBVIOUS
<1>1. FullInv
  BY IInvInit, HalfInvInit DEF SystemBInit, FullInv
<1>2. /\ queue = <<>> /\ batch = <<>> /\ sensor_data = NoPair
      /\ place[SENSOR] \in {"unspawned", "returned"}
      /\ place[CONTROL] \in {"unspawned", "returned"}
      /\ NoPair \in seen_pairs /\ torn_reads = 0
  BY DEF SystemBInit, GroupBInit, FirmwareInit, BridgeInit, DutBridgeInit,
     ScoreboardInit, NoPair, SENSOR, CONTROL, AllTasks, LOGGER, ALARM
<1>3. ~Sampled /\ ~Consuming
  BY <1>2 DEF Sampled, Consuming
<1>4. <<>> \in Seq(Events) /\ Len(<<>>) = 0 /\ <<>> \o <<>> = <<>>
  BY StreamOf
<1>5. InOrder(Stream, seen_pairs, Pairs)
  BY <1>2, <1>4 DEF InOrder, Stream
<1>6. Known(sensor_data)
  BY <1>2 DEF Known, KnownAt
<1> QED
  BY <1>1, <1>2, <1>3, <1>4, <1>5, <1>6 DEF SystemInv, CoherenceInv

LEMMA SystemInvNext ==
  ASSUME "SENSOR" \in Registered, SystemInv, [SystemBNext]_systemBVars
  PROVE  SystemInv'
<1>0. FullInv /\ IInv /\ BridgeTypeOK
  BY DEF SystemInv, FullInv, IInv, DataInv
<1>1. ASSUME NEW t \in Tasks, Dut(t)
      PROVE  SystemInv'
  <2>1. IInv' /\ HalfInv'
    BY <1>0, <1>1, IInvThread, ThreadIsDataStep, HalfInvStep DEF Dut, FullInv
  <2>2. queue' \in Seq(Events)
    BY <2>1 DEF IInv, DataInv, BridgeTypeOK
  <2>3. CoherenceInv'
    BY <1>0, <1>1, <2>2, ThreadIsCoherenceStep, ThreadKeepsCoherence DEF Dut
  <2> QED
    BY <2>1, <2>3 DEF SystemInv, FullInv
<1>2. ASSUME NEW t \in Tasks, Spawn(t) \/ SpawnFails(t),
             UNCHANGED <<dutBridgeVars, lockVars>>
      PROVE  SystemInv'
  <2>1. IInv'
    BY <1>0, <1>2, IInvSpawn
  <2>2. HalfInv'
    BY <1>0, <1>2, SpawnIsQuiet, HalfInvStep DEF DataStep, FullInv
  <2>3. queue' \in Seq(Events)
    BY <2>1 DEF IInv, DataInv, BridgeTypeOK
  <2>4. CoherenceInv'
    BY <1>0, <1>2, <2>3, LifeIsCoherenceStep, ThreadKeepsCoherence
  <2> QED
    BY <2>1, <2>2, <2>4 DEF SystemInv, FullInv
<1>3. CASE (StartPolling \/ Poller) /\ UNCHANGED <<where, globals, locals, lockVars>>
  <2>1. FullInv'
    BY <1>0, <1>3, PollerKeepsBridge, TestbenchKeepsFull
  <2>2. CASE Deliver
    BY <1>3, <2>1, <2>2, DeliverKeepsCoherence DEF SystemInv
  <2>3. CASE DrainSwap
    BY <1>3, <2>1, <2>3, SwapKeepsCoherence DEF SystemInv
  <2>4. CASE StartPolling \/ CheckActive \/ EndDrain
    <3>1. /\ UNCHANGED <<where, globals, locals, queue, batch, scoreboardVars>>
          /\ batch = <<>>
      BY <1>3, <2>4 DEF StartPolling, CheckActive, EndDrain, bridgeVars,
         SystemInv, CoherenceInv
    <3> QED
      BY <2>1, <3>1, IdleKeepsCoherence DEF SystemInv
  <2> QED
    BY <1>3, <2>2, <2>3, <2>4 DEF Poller
<1>4. CASE Driver
  <2>1. FullInv'
    BY <1>0, <1>4, DriverKeepsBridge, TestbenchKeepsFull DEF Driver
  <2>2. CoherenceInv'
    BY <1>4, IdleKeepsCoherence
       DEF Driver, CommDriver, InjectType, InjectValue, dutBridgeVars
  <2> QED
    BY <2>1, <2>2 DEF SystemInv
<1>5. CASE UNCHANGED systemBVars
  <2>1. UNCHANGED <<groupBVars, dutBridgeVars>>
    BY <1>5 DEF systemBVars
  <2>2. IInv'
    BY <1>0, <2>1, IInvStutter
  <2>3. FullInv'
    BY <1>0, <2>1, <2>2, TestbenchKeepsFull
       DEF groupBVars, firmwareVars, IInv, DataInv
  <2>4. CoherenceInv'
    BY <2>1, IdleKeepsCoherence
       DEF groupBVars, firmwareVars, bridgeVars, dutBridgeVars
  <2> QED
    BY <2>3, <2>4 DEF SystemInv
<1> QED
  BY <1>1, <1>2, <1>3, <1>4, <1>5
     DEF SystemBNext, Bridge, RunPhase, CreateThreads, Driver, Joined

(***************************************************************************)
(* For every set of readings, of tasks, any number of loops, any script    *)
(* of commands and any warm-up: no torn read is ever reported of the       *)
(* protected firmware.                                                     *)
(***************************************************************************)
THEOREM NoTornReadReported ==
  ASSUME "SENSOR" \in Registered
  PROVE  SystemBSpec => []NoTornReads
<1>1. SystemBInit => SystemInv
  BY SystemInvInit
<1>2. SystemInv /\ [SystemBNext]_systemBVars => SystemInv'
  BY SystemInvNext
<1>3. SystemInv => NoTornReads
  BY DEF SystemInv, CoherenceInv, NoTornReads
<1> QED
  BY <1>1, <1>2, <1>3, PTL DEF SystemBSpec

-----------------------------------------------------------------------------
(***************************************************************************)
(* The event channel, with the threads of the protected firmware: a step   *)
(* inside the task functions stays among the running places and pushes     *)
(* nothing but an event of the task's own.                                 *)
(***************************************************************************)
LEMMA SectionSpeaks ==
  ASSUME WhereTypeOK, NEW t \in Tasks, NEW m \in Shared, Section(t, m)
  PROVE  Speaks(t)
<1>1. place[t] \in Running \ {"done"} /\ \E s : Stay(t, s)
  BY SharedIsRunning
     DEF Section, ReadHolder, Lock, MarkAcquired, ReportWait, MarkReleased, At
<1>2. active' = active /\ \/ queue' = queue
                          \/ Push(ValueEvent("MUTEX_WAIT", t, m, holder_before[t]))
  BY DEF Section, ReadHolder, Lock, MarkAcquired, ReportWait, MarkReleased,
     bridgeVars
<1>3. /\ ValueEvent("MUTEX_WAIT", t, m, holder_before[t]).task_id = t
      /\ ValueEvent("MUTEX_WAIT", t, m, holder_before[t]).type # "TASK_DONE"
  BY DEF ValueEvent
<1> QED
  BY <1>1, <1>2, <1>3, StayKeeps DEF Speaks, Keeps

(* An access or an unlock pushes nothing, but for the sensor's sample.     *)
LEMMA SilentSpeaks ==
  ASSUME WhereTypeOK, NEW t \in Tasks, NEW m \in Shared, place[t] = m,
         (\E s : Stay(t, s)) \/ Keeps(t), UNCHANGED bridgeVars
  PROVE  Speaks(t)
BY SharedIsRunning, StayKeeps DEF Speaks, Keeps, bridgeVars

LEMMA ThreadIsChannelStep ==
  ASSUME WhereTypeOK, NEW t \in Tasks, Thread(t)
  PROVE  ChannelStep(t)
<1> USE StayKeeps, GotoKeeps, EndIterationKeeps, SharedIsRunning
    DEF Access, Unlock, At
<1>0. /\ Shared \subseteq Running /\ {"pwm", "gpio_pump", "gpio_led", "uart",
         "report", "log_write"} \subseteq Running \ {"done"}
      /\ {"sensor_data", "target_temp", "actuators", "alarm_state",
          "system_enabled"} \subseteq Shared
  BY DEF Running, Places, Shared
<1>1. ASSUME NEW u \in Tasks, NEW m \in Shared, Section(u, m)
      PROVE  Speaks(u)
  BY <1>1, SectionSpeaks
<1>2. ASSUME NEW u \in Tasks, NEW m \in Shared, NEW s,
             At(u, m, s), (\E next : Stay(u, next)) \/ Keeps(u), UNCHANGED bridgeVars
      PROVE  Speaks(u)
  BY <1>2, SilentSpeaks
<1>3. CASE t = SENSOR /\ sensor_task_safe
  <2>1. CASE Access(SENSOR, "sensor_data", "sample", "second") /\ SampleHumidity
    <3>1. /\ PairEvent("SENSOR", SENSOR, held).task_id = t
          /\ PairEvent("SENSOR", SENSOR, held).type # "TASK_DONE"
      BY <1>3 DEF PairEvent
    <3> QED
      BY <1>0, <1>3, <2>1, <3>1
         DEF SampleHumidity, Speaks, Keeps, ChannelStep
  <2>2. CASE ~(Access(SENSOR, "sensor_data", "sample", "second") /\ SampleHumidity)
    <3>1. Speaks(t)
      BY <1>0, <1>1, <1>2, <1>3, <2>2
         DEF sensor_task_safe, StoreTemperature, StoreHumidity
    <3> QED
      BY <3>1 DEF ChannelStep
  <2> QED
    BY <2>1, <2>2
<1>4. CASE t = CONTROL /\ control_task_safe
  <2>1. CASE ReportControlInputs
    <3>1. /\ PairEvent("CONTROL_IN", CONTROL, view[CONTROL]).task_id = t
          /\ PairEvent("CONTROL_IN", CONTROL, view[CONTROL]).type # "TASK_DONE"
      BY <1>4 DEF PairEvent
    <3> QED
      BY <1>0, <1>4, <2>1, <3>1, CallSpeaks DEF ReportControlInputs, ChannelStep
  <2>2. CASE PwmSet \/ GpioWritePump
    <3>1. \A of, value : /\ ValueEvent("PWM", CONTROL, of, value).task_id = t
                         /\ ValueEvent("PWM", CONTROL, of, value).type # "TASK_DONE"
                         /\ ValueEvent("GPIO", CONTROL, of, value).task_id = t
                         /\ ValueEvent("GPIO", CONTROL, of, value).type # "TASK_DONE"
      BY <1>4 DEF ValueEvent
    <3> QED
      BY <1>0, <1>4, <2>2, <3>1, CallSpeaks DEF PwmSet, GpioWritePump, ChannelStep
  <2>3. CASE ~(ReportControlInputs \/ PwmSet \/ GpioWritePump)
    <3>1. Speaks(t)
      BY <1>0, <1>1, <1>2, <1>4, <2>3
         DEF control_task_safe, ReadSensorData, LoadTemperature, LoadHumidity,
             LoadTarget, StorePump, StoreFan
    <3> QED
      BY <3>1 DEF ChannelStep
  <2> QED
    BY <2>1, <2>2, <2>3
<1>5. CASE t = ALARM /\ alarm_task_safe
  <2>1. CASE GpioWriteLed
    <3>1. \A of, value : /\ ValueEvent("GPIO", ALARM, of, value).task_id = t
                         /\ ValueEvent("GPIO", ALARM, of, value).type # "TASK_DONE"
      BY <1>5 DEF ValueEvent
    <3> QED
      BY <1>0, <1>5, <2>1, <3>1, CallSpeaks DEF GpioWriteLed, ChannelStep
  <2>2. CASE ~GpioWriteLed
    <3>1. Speaks(t)
      BY <1>0, <1>1, <1>2, <1>5, <2>2
         DEF alarm_task_safe, ReadSensorData, LoadTemperature, LoadHumidity, StoreAlarm
    <3> QED
      BY <3>1 DEF ChannelStep
  <2> QED
    BY <2>1, <2>2
<1>6. CASE t = LOGGER /\ logger_task_safe
  <2>1. CASE LogWrite
    <3>1. /\ SignalEvent("LOG", LOGGER).task_id = t
          /\ SignalEvent("LOG", LOGGER).type # "TASK_DONE"
      BY <1>6 DEF SignalEvent, ValueEvent
    <3> QED
      BY <1>0, <1>6, <2>1, <3>1, CallSpeaks
         DEF LogWrite, ChannelStep, Speaks, Keeps, bridgeVars
  <2>2. CASE ~LogWrite
    <3>1. Speaks(t)
      BY <1>0, <1>1, <1>2, <1>6, <2>2
         DEF logger_task_safe, ReadSensorData, LoadTemperature, LoadHumidity,
             LogPump, LogFan, LogAlarm
    <3> QED
      BY <3>1 DEF ChannelStep
  <2> QED
    BY <2>1, <2>2
<1>7. CASE t = COMM /\ comm_task_safe
  <2>1. CASE UartRx
    BY <1>7, <2>1, UartSpeaks DEF ChannelStep
  <2>2. CASE ~UartRx
    <3>1. AfterTarget => Keeps(COMM)
      BY <1>0 DEF AfterTarget
    <3>2. Speaks(t)
      BY <1>0, <1>1, <1>2, <1>7, <2>2, <3>1 DEF comm_task_safe, StoreTarget, StoreEnabled
    <3> QED
      BY <3>2 DEF ChannelStep
  <2> QED
    BY <2>1, <2>2
<1>8. CASE Finish(t)
  BY <1>8 DEF Finish, ChannelStep
<1> QED
  BY <1>3, <1>4, <1>5, <1>6, <1>7, <1>8 DEF Thread

(* The firmware's invariant and the bridge's, together.                    *)
RunInv == FullInv /\ ChannelInv

LEMMA RunInvTypes == RunInv => FullInv /\ IInv /\ ChannelInv /\ ChannelTypes
BY DEF RunInv, FullInv, IInv, WhereInv, DataInv, ChannelTypes

LEMMA RunInvInit == SystemBInit => RunInv
BY IInvInit, HalfInvInit, ChannelInvInit
   DEF SystemBInit, GroupBInit, RunInv, FullInv

(* The firmware's part of the invariant, with any set of callbacks.        *)
LEMMA SystemKeepsFull ==
  ASSUME FullInv, [SystemBNext]_systemBVars
  PROVE  FullInv'
<1>0. IInv /\ BridgeTypeOK
  BY DEF FullInv, IInv, DataInv
<1>1. ASSUME NEW t \in Tasks, Dut(t)
      PROVE  FullInv'
  BY <1>0, <1>1, IInvThread, ThreadIsDataStep, HalfInvStep DEF Dut, FullInv
<1>2. ASSUME NEW t \in Tasks, Spawn(t) \/ SpawnFails(t), UNCHANGED lockVars
      PROVE  FullInv'
  <2>1. IInv'
    BY <1>0, <1>2, IInvSpawn
  <2>2. HalfInv'
    BY <1>0, <1>2, SpawnIsQuiet, HalfInvStep DEF DataStep, FullInv
  <2> QED
    BY <2>1, <2>2 DEF FullInv
<1>3. CASE (StartPolling \/ Poller) /\ UNCHANGED <<where, globals, locals, lockVars>>
  BY <1>0, <1>3, PollerKeepsBridge, TestbenchKeepsFull
<1>4. CASE Driver
  BY <1>0, <1>4, DriverKeepsBridge, TestbenchKeepsFull DEF Driver
<1>5. CASE UNCHANGED systemBVars
  <2>1. UNCHANGED groupBVars
    BY <1>5 DEF systemBVars
  <2>2. IInv'
    BY <1>0, <2>1, IInvStutter
  <2> QED
    BY <1>0, <2>1, <2>2, TestbenchKeepsFull DEF groupBVars, firmwareVars, IInv, DataInv
<1> QED
  BY <1>1, <1>2, <1>3, <1>4, <1>5
     DEF SystemBNext, Bridge, RunPhase, CreateThreads, Joined

(* What the driver, and a step that does nothing, leave alone.             *)
LEMMA QuietSteps ==
  ASSUME Driver \/ UNCHANGED systemBVars
  PROVE  UNCHANGED <<where, queue, active, batch, poller>>
BY DEF Driver, CommDriver, InjectType, InjectValue, systemBVars, groupBVars,
   firmwareVars, bridgeVars, dutBridgeVars

LEMMA RunInvNext ==
  ASSUME RunInv, [SystemBNext]_systemBVars
  PROVE  RunInv'
<1>1. FullInv' /\ ChannelTypes'
  BY RunInvTypes, SystemKeepsFull
     DEF FullInv, IInv, WhereInv, DataInv, ChannelTypes
<1>2. ASSUME NEW t \in Tasks, Dut(t)
      PROVE  RunInv'
  BY <1>1, <1>2, RunInvTypes, ThreadIsChannelStep, ThreadKeepsChannel
     DEF Dut, ChannelTypes, RunInv
<1>3. CASE Bridge
  BY <1>1, <1>3, RunInvTypes, CreationKeepsChannel, PollerKeepsChannel
     DEF Bridge, RunPhase, RunInv
<1>4. CASE Driver \/ UNCHANGED systemBVars
  BY <1>1, <1>4, RunInvTypes, QuietSteps, IdleKeepsChannel DEF RunInv
<1> QED
  BY <1>2, <1>3, <1>4 DEF SystemBNext, Joined

(***************************************************************************)
(* For every set of callbacks, of tasks and of readings, any script, any   *)
(* number of loops, with creations that may fail: run_phase joins the      *)
(* threads only when each of them was created and has returned, and every  *)
(* event they pushed has been delivered.                                   *)
(***************************************************************************)
THEOREM EverythingIsDelivered == SystemBSpec => []NothingLeftBehind
<1>1. SystemBInit => RunInv
  BY RunInvInit
<1>2. RunInv /\ [SystemBNext]_systemBVars => RunInv'
  BY RunInvNext
<1>3. RunInv => NothingLeftBehind
  BY RunInvTypes, ChannelInvImplies
<1> QED
  BY <1>1, <1>2, <1>3, PTL DEF SystemBSpec

(***************************************************************************)
(* The protected firmware, the queue and the polling loop implement the    *)
(* event channel: each of their steps is a step of the channel or leaves   *)
(* it alone.                                                               *)
(***************************************************************************)
THEOREM ChannelIsImplemented == SystemBSpec => ImplementsChannel
<1>1. SystemBInit => RunInv /\ Channel!Init
  BY RunInvInit, ChannelInit DEF SystemBInit, GroupBInit
<1>2. RunInv /\ [SystemBNext]_systemBVars => RunInv'
  BY RunInvNext
<1>3. ASSUME RunInv, RunInv', [SystemBNext]_systemBVars
      PROVE  [Channel!Next]_(Channel!vars)
  <2>1. ASSUME NEW t \in Tasks, Dut(t)
        PROVE  [Channel!Next]_(Channel!vars)
    <3>1. ChannelTypes'
      BY <1>3 DEF RunInv, FullInv, IInv, WhereInv, DataInv, ChannelTypes
    <3> QED
      BY <1>3, <2>1, <3>1, RunInvTypes, ThreadIsChannelStep, ThreadIsChannelNext
         DEF Dut, ChannelTypes
  <2>2. CASE Bridge
    BY <1>3, <2>2, RunInvTypes, CreationIsStutter, PollerIsChannelNext
       DEF Bridge, RunPhase
  <2>3. CASE Driver \/ UNCHANGED systemBVars
    BY <2>3, QuietSteps, IdleIsStutter
  <2> QED
    BY <1>3, <2>1, <2>2, <2>3 DEF SystemBNext, Joined
<1> QED
  BY <1>1, <1>2, <1>3, PTL DEF SystemBSpec, ImplementsChannel, Channel!Spec

-----------------------------------------------------------------------------
(***************************************************************************)
(* Fan and pump.  Along the stream the control task's outputs take turns:  *)
(* a fan event comes when none waits for its pump, a pump event when one   *)
(* does.  Turns says it of one event, Paired of a stream between the       *)
(* scoreboard's end and the firmware's.                                    *)
(***************************************************************************)
IsFan(e) == e.type = "PWM"
IsPump(e) == e.type = "GPIO" /\ e.of = "PUMP"

Turns(e, before, after) ==
  IF IsFan(e) THEN ~before /\ after
  ELSE IF IsPump(e) THEN before /\ ~after
  ELSE before <=> after

Paired(s, waits, writes) == \E turn \in [0 .. Len(s) -> BOOLEAN] :
  /\ turn[0] <=> waits
  /\ turn[Len(s)] <=> writes
  /\ \A n \in 1 .. Len(s) : Turns(s[n], turn[n - 1], turn[n])

LEMMA PairedAppend ==
  ASSUME NEW s \in Seq(Events), NEW e \in Events, NEW waits, NEW writes, NEW next \in BOOLEAN,
         Paired(s, waits, writes), Turns(e, writes, next)
  PROVE  Paired(Append(s, e), waits, next)
<1> DEFINE a == Append(s, e)
<1>1. /\ Len(s) \in Nat /\ Len(a) = Len(s) + 1 /\ a[Len(s) + 1] = e
      /\ \A n \in 1 .. Len(s) : a[n] = s[n]
  BY AppendProperties, LenProperties
<1> HIDE DEF a
<1>2. PICK turn \in [0 .. Len(s) -> BOOLEAN] :
        /\ turn[0] <=> waits
        /\ turn[Len(s)] <=> writes
        /\ \A n \in 1 .. Len(s) : Turns(s[n], turn[n - 1], turn[n])
  BY DEF Paired
<1> DEFINE more == [n \in 0 .. Len(a) |-> IF n = Len(a) THEN next ELSE turn[n]]
<1>3. /\ more \in [0 .. Len(a) -> BOOLEAN]
      /\ more[0] = turn[0] /\ more[Len(a)] = next
      /\ \A n \in 0 .. Len(s) : more[n] = turn[n]
  BY <1>1
<1>4. \A n \in 1 .. Len(s) : n - 1 \in 0 .. Len(s) /\ n \in 0 .. Len(s)
  BY <1>1
<1> HIDE DEF more
<1>5. ASSUME NEW n \in 1 .. Len(a)
      PROVE  Turns(a[n], more[n - 1], more[n])
  <2>1. CASE n \in 1 .. Len(s)
    <3>1. a[n] = s[n] /\ more[n - 1] = turn[n - 1] /\ more[n] = turn[n]
      BY <1>1, <1>3, <1>4, <2>1
    <3>2. Turns(s[n], turn[n - 1], turn[n])
      BY <1>2, <2>1
    <3> QED
      BY <3>1, <3>2
  <2>2. CASE n = Len(a)
    <3>1. a[n] = e /\ more[n] = next /\ more[n - 1] = turn[Len(s)]
      BY <1>1, <1>3, <2>2
    <3>2. turn[Len(s)] <=> writes
      BY <1>2
    <3> QED
      BY <3>1, <3>2 DEF Turns
  <2> QED
    BY <1>1, <2>1, <2>2
<1>6. (more[0] <=> waits) /\ (more[Len(a)] <=> next)
  BY <1>2, <1>3
<1>7. Paired(a, waits, next)
  BY <1>3, <1>5, <1>6 DEF Paired
<1> QED
  BY <1>7 DEF a

LEMMA PairedTail ==
  ASSUME NEW s \in Seq(Events), s # <<>>, NEW waits, NEW writes, Paired(s, waits, writes)
  PROVE  \E next \in BOOLEAN :
           Turns(Head(s), waits, next) /\ Paired(Tail(s), next, writes)
<1> DEFINE r == Tail(s)
<1>1. /\ Len(s) \in Nat /\ Len(s) >= 1 /\ Len(r) = Len(s) - 1
      /\ Head(s) = s[1]
      /\ \A n \in 1 .. Len(r) : r[n] = s[n + 1]
  BY HeadTailProperties, LenProperties, EmptySeq
<1> HIDE DEF r
<1>2. PICK turn \in [0 .. Len(s) -> BOOLEAN] :
        /\ turn[0] <=> waits
        /\ turn[Len(s)] <=> writes
        /\ \A n \in 1 .. Len(s) : Turns(s[n], turn[n - 1], turn[n])
  BY DEF Paired
<1> DEFINE rest == [n \in 0 .. Len(r) |-> turn[n + 1]]
<1>3. /\ rest \in [0 .. Len(r) -> BOOLEAN]
      /\ rest[0] = turn[1] /\ rest[Len(r)] = turn[Len(s)]
      /\ \A n \in 0 .. Len(r) : rest[n] = turn[n + 1]
  BY <1>1
<1> HIDE DEF rest
<1>4. ASSUME NEW n \in 1 .. Len(r)
      PROVE  Turns(r[n], rest[n - 1], rest[n])
  <2>1. n + 1 \in 1 .. Len(s) /\ n - 1 \in 0 .. Len(r) /\ n \in 0 .. Len(r)
        /\ (n - 1) + 1 = n /\ (n + 1) - 1 = n
    BY <1>1
  <2>2. r[n] = s[n + 1] /\ rest[n - 1] = turn[n] /\ rest[n] = turn[n + 1]
    BY <1>1, <1>3, <2>1
  <2>3. Turns(s[n + 1], turn[(n + 1) - 1], turn[n + 1])
    BY <1>2, <2>1
  <2> QED
    BY <2>1, <2>2, <2>3
<1>5. Paired(r, turn[1], writes)
  <2>1. (rest[0] <=> turn[1]) /\ (rest[Len(r)] <=> writes)
    BY <1>2, <1>3
  <2> QED
    BY <1>3, <1>4, <2>1 DEF Paired
<1>6. Turns(Head(s), waits, turn[1])
  <2>1. Turns(s[1], turn[1 - 1], turn[1]) /\ 1 - 1 = 0 /\ (turn[0] <=> waits)
    BY <1>1, <1>2
  <2> QED
    BY <1>1, <2>1 DEF Turns
<1>7. turn[1] \in BOOLEAN
  BY <1>1
<1> QED
  BY <1>5, <1>6, <1>7 DEF r

(* The firmware's end of the stream: the pump's turn has come.             *)
PumpsTurn == place[CONTROL] = "gpio_pump"

(* A step of one thread leaves the others where they are.                  *)
LEMMA OthersStay ==
  ASSUME NEW t \in Tasks, LockStep(t), NEW u \in AllTasks, u # t,
         place \in [AllTasks -> Places], stage \in [AllTasks -> Stages]
  PROVE  place'[u] = place[u] /\ stage'[u] = stage[u]
BY DEF LockStep, Section, ReadHolder, Lock, MarkAcquired, ReportWait, MarkReleased,
   AccessStep, OutsideStep, Stay, Move

(* An event that is nobody's turn, and one that is no output at all.       *)
Aside == UNCHANGED queue \/ \E e : Push(e) /\ ~IsFan(e) /\ ~IsPump(e)
NoOutput == UNCHANGED queue \/ \E e : Push(e) /\ e.type \notin {"PWM", "GPIO"}

LEMMA TurnsAside ==
  /\ NoOutput => Aside
  /\ GpioWriteLed => Aside
<1>1. NoOutput => Aside
  BY DEF NoOutput, Aside, IsFan, IsPump
<1>2. \A v : ~IsFan(ValueEvent("GPIO", ALARM, "LED", v))
            /\ ~IsPump(ValueEvent("GPIO", ALARM, "LED", v))
  BY DEF IsFan, IsPump, ValueEvent
<1> QED
  BY <1>1, <1>2 DEF GpioWriteLed, Call, Aside

LEMMA CallsNoOutput ==
  ASSUME NEW type, type \notin {"PWM", "GPIO"}, NEW task, NEW x, NEW of, NEW v,
         \/ Call(PairEvent(type, task, x))
         \/ Call(ValueEvent(type, task, of, v))
         \/ Call(SignalEvent(type, task))
  PROVE  NoOutput
BY DEF Call, NoOutput, PairEvent, ValueEvent, SignalEvent

LEMMA SectionHasNoOutput ==
  ASSUME NEW t \in Tasks, NEW m \in Shared, Section(t, m)
  PROVE  NoOutput
<1>1. CASE ReportWait(t, m)
  <2>1. UNCHANGED queue \/ Push(ValueEvent("MUTEX_WAIT", t, m, holder_before[t]))
    BY <1>1 DEF ReportWait
  <2>2. ValueEvent("MUTEX_WAIT", t, m, holder_before[t]).type = "MUTEX_WAIT"
    BY DEF ValueEvent
  <2> QED
    BY <2>1, <2>2 DEF NoOutput
<1> QED
  BY <1>1 DEF Section, ReadHolder, Lock, MarkAcquired, MarkReleased, NoOutput, bridgeVars

LEMMA ThreadOutputs ==
  ASSUME NEW t \in Tasks, Thread(t)
  PROVE  \/ t = CONTROL /\ (PwmSet \/ GpioWritePump)
         \/ t = ALARM /\ GpioWriteLed
         \/ NoOutput
<1> USE DEF Access, Shared, Unlock
<1>1. UNCHANGED queue => NoOutput
  BY DEF NoOutput
<1>2. UNCHANGED bridgeVars => NoOutput
  BY DEF bridgeVars, NoOutput
<1>3. CASE t = SENSOR /\ sensor_task_safe
  <2>1. CASE SampleHumidity
    <3>1. PairEvent("SENSOR", SENSOR, held).type = "SENSOR"
      BY DEF PairEvent
    <3> QED
      BY <2>1, <3>1 DEF SampleHumidity, NoOutput
  <2> QED
    BY <1>2, <1>3, <2>1, SectionHasNoOutput
    DEF sensor_task_safe, StoreTemperature, StoreHumidity
<1>4. CASE t = CONTROL /\ control_task_safe
  <2>1. CASE ReportControlInputs
    BY <2>1, CallsNoOutput DEF ReportControlInputs
  <2> QED
    BY <1>2, <1>4, <2>1, SectionHasNoOutput
    DEF control_task_safe, ReadSensorData, LoadTemperature, LoadHumidity, LoadTarget,
        StorePump, StoreFan
<1>5. CASE t = ALARM /\ alarm_task_safe
  BY <1>2, <1>5, SectionHasNoOutput
  DEF alarm_task_safe, ReadSensorData, LoadTemperature, LoadHumidity, StoreAlarm
<1>6. CASE t = LOGGER /\ logger_task_safe
  <2>1. CASE LogWrite
    BY <1>2, <2>1, CallsNoOutput DEF LogWrite
  <2> QED
    BY <1>2, <1>6, <2>1, SectionHasNoOutput
    DEF logger_task_safe, ReadSensorData, LoadTemperature, LoadHumidity,
        LogPump, LogFan, LogAlarm
<1>7. CASE t = COMM /\ comm_task_safe
  <2>1. CASE UartPoll \/ UartEvent
    BY <1>2, <2>1, CallsNoOutput DEF UartPoll, UartEvent
  <2>2. CASE UartRx /\ ~(UartPoll \/ UartEvent)
    BY <1>1, <1>2, <2>2 DEF UartRx, UartStub, UartCheck, UartCopyType, UartCopyValue,
       UartEventType, UartConsume
  <2> QED
    BY <1>2, <1>7, <2>1, <2>2, SectionHasNoOutput DEF comm_task_safe, StoreTarget, StoreEnabled
<1>8. CASE Finish(t)
  BY <1>1, <1>8, CallsNoOutput DEF Finish, SignalDone, Exit
<1> QED
  BY <1>3, <1>4, <1>5, <1>6, <1>7, <1>8 DEF Thread

(* The pump's turn begins with the fan's output and ends with the pump's.  *)
LEMMA ControlPlaces ==
  ASSUME WhereTypeOK, CONTROL \in Tasks, Thread(CONTROL), ~PwmSet, ~GpioWritePump
  PROVE  PumpsTurn' <=> PumpsTurn
<1>0. CONTROL \in AllTasks /\ place \in [AllTasks -> Places]
      /\ "gpio_pump" \notin Shared
  BY DEF WhereTypeOK, AllTasks, CONTROL, LOGGER, ALARM, Shared
<1>1. ASSUME NEW s, Stay(CONTROL, s)
      PROVE  PumpsTurn' <=> PumpsTurn
  BY <1>1 DEF Stay, PumpsTurn
<1>2. ASSUME NEW p \in Shared, place[CONTROL] = p,
             \/ \E q \in {"target_temp", "report", "pwm"} : Goto(CONTROL, q)
      PROVE  PumpsTurn' <=> PumpsTurn
  BY <1>0, <1>2 DEF Goto, PumpsTurn
<1>3. CASE ReportControlInputs
  BY <1>0, <1>3 DEF ReportControlInputs, At, Goto, PumpsTurn
<1>4. CASE control_task_safe /\ ~ReportControlInputs
  BY <1>1, <1>2, <1>4 DEF control_task_safe, ReadSensorData, Section, ReadHolder, Lock,
     MarkAcquired, ReportWait, MarkReleased, Access, Unlock, At, Shared
<1>5. CASE Finish(CONTROL)
  BY <1>0, <1>5 DEF Finish, SignalDone, Exit, At, Goto, PumpsTurn
<1> QED
  BY <1>3, <1>4, <1>5 DEF Thread, CONTROL, SENSOR, ALARM, LOGGER, COMM

(* A step of the firmware as the pairing sees it.                          *)
FanStep ==
  \/ Aside /\ (PumpsTurn' <=> PumpsTurn)
  \/ ~PumpsTurn /\ PumpsTurn' /\ \E e : Push(e) /\ IsFan(e)
  \/ PumpsTurn /\ ~PumpsTurn' /\ \E e : Push(e) /\ IsPump(e)

LEMMA ThreadIsFanStep ==
  ASSUME WhereTypeOK, NEW t \in Tasks, Thread(t)
  PROVE  FanStep
<1>0. CONTROL \in AllTasks /\ place \in [AllTasks -> Places]
      /\ stage \in [AllTasks -> Stages]
  BY DEF WhereTypeOK, AllTasks, CONTROL, LOGGER, ALARM
<1>1. CASE t # CONTROL
  <2>1. LockStep(t)
    BY ThreadIsLockStep
  <2>2. place'[CONTROL] = place[CONTROL]
    BY <1>0, <1>1, <2>1, OthersStay
  <2> QED
    BY <1>1, <2>2, ThreadOutputs, TurnsAside DEF FanStep, PumpsTurn
<1>2. CASE t = CONTROL /\ PwmSet
  <2>1. ~PumpsTurn /\ PumpsTurn'
    BY <1>0, <1>2 DEF PwmSet, At, Goto, PumpsTurn
  <2>2. Push(ValueEvent("PWM", CONTROL, "FAN", FanOutput))
    BY <1>2 DEF PwmSet, Call
  <2>3. IsFan(ValueEvent("PWM", CONTROL, "FAN", FanOutput))
    BY DEF IsFan, ValueEvent
  <2> QED
    BY <2>1, <2>2, <2>3 DEF FanStep
<1>3. CASE t = CONTROL /\ GpioWritePump
  <2>1. PumpsTurn /\ ~PumpsTurn'
    BY <1>0, <1>3 DEF GpioWritePump, At, EndIteration, Start, PumpsTurn
  <2>2. Push(ValueEvent("GPIO", CONTROL, "PUMP", Bit(PumpOutput)))
    BY <1>3 DEF GpioWritePump, Call
  <2>3. IsPump(ValueEvent("GPIO", CONTROL, "PUMP", Bit(PumpOutput)))
    BY DEF IsPump, ValueEvent
  <2> QED
    BY <2>1, <2>2, <2>3 DEF FanStep
<1>4. CASE t = CONTROL /\ ~PwmSet /\ ~GpioWritePump
  BY <1>4, ControlPlaces, ThreadOutputs, TurnsAside DEF FanStep
<1> QED
  BY <1>1, <1>2, <1>3, <1>4

LEMMA CreationIsFanStep ==
  ASSUME WhereTypeOK, NEW t \in Tasks, Spawn(t) \/ SpawnFails(t)
  PROVE  FanStep
<1>1. PICK p \in Places \ {"gpio_pump"} :
        place[t] = "unspawned" /\ place' = [place EXCEPT ![t] = p] /\ queue' = queue
  BY DEF Spawn, SpawnFails, Creation, Goto, Start, Places, Shared
<1>2. PumpsTurn' <=> PumpsTurn
  BY <1>1, FirmwareAssumption DEF PumpsTurn, WhereTypeOK
<1> QED
  BY <1>1, <1>2 DEF FanStep, Aside

FanInv == pending_pump = {} /\ Paired(Stream, pending_fan # {}, PumpsTurn)

(* The events of the threads keep the turns.                               *)
LEMMA FanStepKeepsTurns ==
  ASSUME {"PWM", "GPIO"} \subseteq Registered, FanInv, FanStep,
         batch \in Seq(Events), queue \in Seq(Events), queue' \in Seq(Events),
         UNCHANGED dutBridgeVars
  PROVE  FanInv'
<1>1. UNCHANGED <<batch, pending_fan, pending_pump>>
  BY DEF dutBridgeVars, scoreboardVars
<1>2. Stream \in Seq(Events)
  BY StreamOf DEF Stream
<1>3. ASSUME UNCHANGED queue, PumpsTurn' <=> PumpsTurn
      PROVE  FanInv'
  <2>1. Stream' = Stream
    BY <1>1, <1>3 DEF Stream
  <2> QED
    BY <1>1, <1>3, <2>1 DEF FanInv, Paired
<1>4. ASSUME NEW e, Push(e), e.type \in Registered, Turns(e, PumpsTurn, PumpsTurn')
      PROVE  FanInv'
  <2>1. e \in Events /\ Stream' = Append(Stream, e)
    BY <1>1, <1>4, PushedIsEvent, StreamOf DEF Stream
  <2>2. PumpsTurn' \in BOOLEAN
    BY DEF PumpsTurn
  <2> DEFINE waits == pending_fan # {}
             writes == PumpsTurn
             next == PumpsTurn'
             s == Stream
  <2>3. Paired(s, waits, writes) /\ s \in Seq(Events) /\ next \in BOOLEAN
        /\ Turns(e, writes, next)
    BY <1>2, <1>4, <2>2 DEF FanInv
  <2> HIDE DEF waits, writes, next, s
  <2>4. Paired(Append(s, e), waits, next)
    BY <2>1, <2>3, PairedAppend
  <2>5. Paired(Stream', pending_fan # {}, PumpsTurn')
    BY <2>1, <2>4 DEF s, waits, next
  <2> QED
    BY <1>1, <2>5 DEF FanInv, Paired
<1>5. CASE Aside /\ (PumpsTurn' <=> PumpsTurn)
  <2>1. ASSUME NEW e, Push(e), ~IsFan(e), ~IsPump(e)
        PROVE  FanInv'
    <3>1. CASE e.type \in Registered
      BY <1>4, <1>5, <2>1, <3>1 DEF Turns
    <3>2. CASE e.type \notin Registered
      BY <1>3, <1>5, <2>1, <3>2 DEF Push
    <3> QED
      BY <3>1, <3>2
  <2> QED
    BY <1>3, <1>5, <2>1 DEF Aside
<1>6. CASE ~PumpsTurn /\ PumpsTurn' /\ \E e : Push(e) /\ IsFan(e)
  <2>1. PICK e : Push(e) /\ IsFan(e)
    BY <1>6
  <2>2. e.type \in Registered /\ Turns(e, PumpsTurn, PumpsTurn')
    BY <1>6, <2>1 DEF Turns, IsFan
  <2> QED
    BY <1>4, <2>1, <2>2
<1>7. CASE PumpsTurn /\ ~PumpsTurn' /\ \E e : Push(e) /\ IsPump(e)
  <2>1. PICK e : Push(e) /\ IsPump(e)
    BY <1>7
  <2>2. e.type \in Registered /\ Turns(e, PumpsTurn, PumpsTurn')
    BY <1>7, <2>1 DEF Turns, IsFan, IsPump
  <2> QED
    BY <1>4, <2>1, <2>2
<1> QED
  BY <1>5, <1>6, <1>7 DEF FanStep

(* The scoreboard takes the turns in the same order: a fan waits until its *)
(* pump comes, and no pump waits.                                          *)
LEMMA WriteTakesTurn ==
  ASSUME NEW e, WriteEvent(e), NEW next \in BOOLEAN, pending_pump = {},
         Turns(e, pending_fan # {}, next)
  PROVE  pending_pump' = {} /\ (pending_fan' # {} <=> next)
<1>1. CASE IsFan(e)
  <2>1. WritePwm(e.value) /\ next
    BY <1>1 DEF WriteEvent, IsFan, Turns
  <2> QED
    BY <2>1 DEF WritePwm
<1>2. CASE IsPump(e)
  <2>1. WriteGpioPump(e.value) /\ ~next /\ pending_fan # {}
    BY <1>2 DEF WriteEvent, IsPump, IsFan, Turns
  <2> QED
    BY <2>1 DEF WriteGpioPump
<1>3. CASE ~IsFan(e) /\ ~IsPump(e)
  <2>1. next <=> pending_fan # {}
    BY <1>3 DEF Turns
  <2>2. UNCHANGED <<pending_fan, pending_pump>>
    BY <1>3 DEF IsFan, IsPump, WriteEvent, WriteSensor, WriteControlInput,
       WriteGpioLed, WriteComm, WriteOther, scoreboardVars
  <2> QED
    BY <2>1, <2>2
<1> QED
  BY <1>1, <1>2, <1>3

LEMMA DeliverKeepsTurns ==
  ASSUME FanInv, Deliver, batch \in Seq(Events), queue \in Seq(Events),
         UNCHANGED <<where, globals, locals>>
  PROVE  FanInv'
<1>1. /\ Stream \in Seq(Events) /\ Stream # <<>> /\ Head(Stream) = Head(batch)
      /\ Stream' = Tail(Stream) /\ WriteEvent(Head(Stream))
  BY StreamOf DEF Deliver, Stream, bridgeVars
<1>2. PumpsTurn' <=> PumpsTurn
  BY DEF where, PumpsTurn
<1> DEFINE waits == pending_fan # {}
           writes == PumpsTurn
           s == Stream
<1>3. Paired(s, waits, writes) /\ s \in Seq(Events) /\ s # <<>>
  BY <1>1 DEF FanInv
<1> HIDE DEF waits, writes, s
<1>4. PICK next \in BOOLEAN : Turns(Head(s), waits, next) /\ Paired(Tail(s), next, writes)
  BY <1>3, PairedTail
<1>5. Turns(Head(Stream), pending_fan # {}, next)
  BY <1>4 DEF waits, s
<1>6. pending_pump' = {} /\ (pending_fan' # {} <=> next)
  BY <1>1, <1>5, WriteTakesTurn DEF FanInv
<1>7. Paired(Stream', next, PumpsTurn)
  BY <1>1, <1>4 DEF writes, s
<1> QED
  BY <1>2, <1>6, <1>7 DEF FanInv, Paired

(* Every other step of the testbench leaves the stream and the wait alone. *)
LEMMA IdleKeepsTurns ==
  ASSUME FanInv, UNCHANGED <<where, Stream, scoreboardVars>>
  PROVE  FanInv'
<1>1. UNCHANGED <<pending_fan, pending_pump>> /\ Stream' = Stream
      /\ (PumpsTurn' <=> PumpsTurn)
  BY DEF where, scoreboardVars, PumpsTurn
<1> QED
  BY <1>1 DEF FanInv, Paired

LEMMA FanInvInit == SystemBInit => FanInv
<1> SUFFICES ASSUME SystemBInit
             PROVE  FanInv
  OBVIOUS
<1>1. queue = <<>> /\ batch = <<>> /\ pending_fan = {} /\ pending_pump = {}
  BY DEF SystemBInit, GroupBInit, FirmwareInit, BridgeInit, DutBridgeInit, ScoreboardInit
<1>2. ~PumpsTurn
  BY DEF SystemBInit, GroupBInit, FirmwareInit, PumpsTurn, AllTasks, CONTROL, LOGGER, ALARM
<1>3. Stream = <<>> /\ Len(<<>>) = 0
  BY <1>1, StreamOf DEF Stream
<1>4. Paired(<<>>, FALSE, FALSE)
  <2>1. [n \in 0 .. 0 |-> FALSE] \in [0 .. Len(<<>>) -> BOOLEAN]
    BY <1>3
  <2>2. 0 \in 0 .. 0 /\ 1 .. Len(<<>>) = {}
    BY <1>3
  <2> QED
    BY <1>3, <2>1, <2>2 DEF Paired
<1> QED
  BY <1>1, <1>2, <1>3, <1>4 DEF FanInv, Paired

LEMMA FanInvNext ==
  ASSUME {"PWM", "GPIO"} \subseteq Registered, RunInv, FanInv,
         [SystemBNext]_systemBVars
  PROVE  FanInv'
<1>0. /\ RunInv' /\ WhereTypeOK
      /\ batch \in Seq(Events) /\ queue \in Seq(Events) /\ queue' \in Seq(Events)
      /\ poller \notin {"deliver", "final_deliver"} => batch = <<>>
  <2>1. RunInv'
    BY RunInvNext
  <2>2. BridgeTypeOK' /\ BridgeTypeOK
    BY <2>1 DEF RunInv, FullInv, IInv, DataInv
  <2> QED
    BY <2>1, <2>2, RunInvTypes DEF ChannelTypes, BridgeTypeOK, ChannelInv
<1>1. ASSUME NEW t \in Tasks, Dut(t)
      PROVE  FanInv'
  BY <1>0, <1>1, ThreadIsFanStep, FanStepKeepsTurns DEF Dut
<1>2. ASSUME NEW t \in Tasks, Spawn(t) \/ SpawnFails(t), UNCHANGED dutBridgeVars
      PROVE  FanInv'
  BY <1>0, <1>2, CreationIsFanStep, FanStepKeepsTurns
<1>3. CASE Deliver /\ UNCHANGED <<where, globals, locals>>
  BY <1>0, <1>3, DeliverKeepsTurns
<1>4. CASE DrainSwap /\ UNCHANGED <<where, globals, locals>>
  <2>1. Stream' = Stream
    BY <1>0, <1>4, StreamOf DEF DrainSwap, Stream
  <2> QED
    BY <1>4, <2>1, IdleKeepsTurns DEF DrainSwap
<1>5. CASE /\ StartPolling \/ CheckActive \/ EndDrain
           /\ UNCHANGED <<where, globals, locals>>
  BY <1>5, IdleKeepsTurns DEF StartPolling, CheckActive, EndDrain, Stream, bridgeVars
<1>6. CASE Driver \/ UNCHANGED systemBVars
  BY <1>6, IdleKeepsTurns DEF Driver, CommDriver, InjectType, InjectValue, systemBVars,
     groupBVars, firmwareVars, bridgeVars, dutBridgeVars, Stream
<1> QED
  BY <1>1, <1>2, <1>3, <1>4, <1>5, <1>6
     DEF SystemBNext, Bridge, RunPhase, CreateThreads, Poller, Joined

(***************************************************************************)
(* For every set of readings, of tasks, any number of loops and any        *)
(* script: the scoreboard pairs the fan duty of an iteration with the pump *)
(* state of the same iteration, because no pump state ever comes first.    *)
(***************************************************************************)
THEOREM PairsAreOfOneIteration ==
  ASSUME {"PWM", "GPIO"} \subseteq Registered
  PROVE  SystemBSpec => []FanComesFirst
<1>1. SystemBInit => RunInv /\ FanInv
  BY RunInvInit, FanInvInit
<1>2. RunInv /\ FanInv /\ [SystemBNext]_systemBVars => RunInv' /\ FanInv'
  BY RunInvNext, FanInvNext
<1>3. FanInv => FanComesFirst
  BY DEF FanInv, FanComesFirst
<1> QED
  BY <1>1, <1>2, <1>3, PTL DEF SystemBSpec

-----------------------------------------------------------------------------
(***************************************************************************)
(* The mailbox.  Between the check that finds a command and the clearing   *)
(* of the mailbox the driver may replace the command, never remove it.     *)
(***************************************************************************)
InUart(stages) == place[COMM] = "uart" /\ stage[COMM] \in stages

(* A COMM event that names a command, or an event of another type.         *)
Named(e) == e.type = "COMM" => e.of # "NONE"

Full == dvr_command_type # "NONE"
Given == command.type # "NONE"
Told == event_type # "NONE"

MailInv ==
  /\ InUart({"type", "value", "event", "push", "consume"}) => Full
  /\ InUart({"value", "event", "push", "consume"}) => Given
  /\ InUart({"push", "consume"}) => Told
  /\ place[COMM] = "target_temp" => Given
  /\ \A i \in 1 .. Len(queue) : Named(queue[i])

Posted == UNCHANGED queue \/ \E e : Push(e) /\ Named(e)
NoCommand == UNCHANGED queue \/ \E e : Push(e) /\ e.type # "COMM"

LEMMA PostedKeepsNames ==
  ASSUME queue \in Seq(Events), queue' \in Seq(Events), Posted,
         \A i \in 1 .. Len(queue) : Named(queue[i])
  PROVE  \A i \in 1 .. Len(queue') : Named(queue'[i])
<1>1. CASE UNCHANGED queue
  BY <1>1
<1>2. ASSUME NEW e, Push(e), Named(e)
      PROVE  \A i \in 1 .. Len(queue') : Named(queue'[i])
  <2>1. CASE e.type \notin Registered
    BY <1>2, <2>1 DEF Push
  <2>2. CASE e.type \in Registered
    <3>1. e \in Events /\ queue' = Append(queue, e)
      BY <1>2, <2>2, PushedIsEvent
    <3>2. /\ Len(queue) \in Nat /\ Len(queue') = Len(queue) + 1
          /\ queue'[Len(queue) + 1] = e
          /\ \A i \in 1 .. Len(queue) : queue'[i] = queue[i]
      BY <3>1, AppendProperties, LenProperties
    <3>3. ASSUME NEW i \in 1 .. Len(queue')
          PROVE  Named(queue'[i])
      <4>1. CASE i \in 1 .. Len(queue)
        BY <3>2, <4>1
      <4>2. CASE i = Len(queue) + 1
        BY <1>2, <3>2, <4>2
      <4> QED
        BY <3>2, <4>1, <4>2
    <3> QED
      BY <3>3
  <2> QED
    BY <2>1, <2>2
<1> QED
  BY <1>1, <1>2 DEF Posted

(* The other tasks push no COMM event and leave the mailbox, comm_task's   *)
(* command and the callback's copy of it alone.                            *)
MailVars == <<dvr_command_type, dvr_command_value, injected, command, event_type>>

LEMMA SectionPosts ==
  ASSUME NEW t \in Tasks, NEW m \in Shared, Section(t, m)
  PROVE  UNCHANGED MailVars /\ NoCommand
<1>1. UNCHANGED MailVars
  BY DEF Section, ReadHolder, Lock, MarkAcquired, ReportWait, MarkReleased, MailVars,
     locals, bridgeVars, mailbox
<1>2. CASE ReportWait(t, m)
  <2>1. ValueEvent("MUTEX_WAIT", t, m, holder_before[t]).type # "COMM"
    BY DEF ValueEvent
  <2> QED
    BY <1>1, <1>2, <2>1 DEF ReportWait, NoCommand
<1>3. CASE ~ReportWait(t, m)
  BY <1>1, <1>3 DEF Section, ReadHolder, Lock, MarkAcquired, MarkReleased, NoCommand, bridgeVars
<1> QED
  BY <1>2, <1>3

LEMMA CallPosts ==
  ASSUME NEW e, e.type # "COMM", Call(e)
  PROVE  UNCHANGED MailVars /\ NoCommand
BY DEF Call, NoCommand, MailVars, locals, mailbox

LEMMA OthersPost ==
  ASSUME NEW t \in Tasks, t # COMM, Thread(t)
  PROVE  UNCHANGED MailVars /\ NoCommand
<1> USE DEF Access, Shared, Unlock
<1>1. UNCHANGED <<locals, bridgeVars>> => UNCHANGED MailVars /\ NoCommand
  BY DEF locals, bridgeVars, MailVars, NoCommand
<1>2. UNCHANGED <<command, event_type, bridgeVars>> => UNCHANGED MailVars /\ NoCommand
  BY DEF bridgeVars, MailVars, NoCommand
<1>3. /\ \A type, task, pair : PairEvent(type, task, pair).type = type
      /\ \A type, task, of, v : ValueEvent(type, task, of, v).type = type
      /\ \A type, task : SignalEvent(type, task).type = type
  BY DEF PairEvent, ValueEvent, SignalEvent
<1>4. CASE t = SENSOR /\ sensor_task_safe
  <2>1. CASE SampleHumidity
    BY <1>3, <2>1 DEF SampleHumidity, NoCommand, MailVars, locals, mailbox
  <2> QED
    BY <1>1, <1>2, <1>4, <2>1, SectionPosts
       DEF sensor_task_safe, StoreTemperature, StoreHumidity
<1>5. CASE t = CONTROL /\ control_task_safe
  <2>1. CASE ReportControlInputs \/ PwmSet \/ GpioWritePump
    BY <1>3, <2>1, CallPosts DEF ReportControlInputs, PwmSet, GpioWritePump
  <2> QED
    BY <1>1, <1>2, <1>5, <2>1, SectionPosts
       DEF control_task_safe, ReadSensorData, LoadTemperature, LoadHumidity, LoadTarget,
           StorePump, StoreFan
<1>6. CASE t = ALARM /\ alarm_task_safe
  <2>1. CASE GpioWriteLed
    BY <1>3, <2>1, CallPosts DEF GpioWriteLed
  <2> QED
    BY <1>1, <1>2, <1>6, <2>1, SectionPosts
       DEF alarm_task_safe, ReadSensorData, LoadTemperature, LoadHumidity, StoreAlarm
<1>7. CASE t = LOGGER /\ logger_task_safe
  <2>1. CASE LogWrite
    BY <1>1, <1>3, <2>1, CallPosts DEF LogWrite
  <2> QED
    BY <1>1, <1>2, <1>7, <2>1, SectionPosts
       DEF logger_task_safe, ReadSensorData, LoadTemperature, LoadHumidity,
           LogPump, LogFan, LogAlarm
<1>8. CASE Finish(t)
  BY <1>3, <1>8, CallPosts DEF Finish, SignalDone, Exit, MailVars, NoCommand, locals, mailbox
<1> QED
  BY <1>4, <1>5, <1>6, <1>7, <1>8 DEF Thread

LEMMA OthersKeepMail ==
  ASSUME MailInv, UNCHANGED <<place[COMM], stage[COMM], MailVars>>, NoCommand,
         queue \in Seq(Events), queue' \in Seq(Events)
  PROVE  MailInv'
<1>1. Posted
  BY DEF Posted, NoCommand, Named
<1> QED
  BY <1>1, PostedKeepsNames DEF MailInv, MailVars, InUart, Full, Given, Told

(* comm_task itself.                                                       *)
LEMMA CommKeepsMail ==
  ASSUME WhereTypeOK, DataTypeOK, MailInv, COMM \in Tasks, Thread(COMM),
         queue \in Seq(Events), queue' \in Seq(Events)
  PROVE  MailInv'
<1>0. COMM \in AllTasks /\ place \in [AllTasks -> Places] /\ stage \in [AllTasks -> Stages]
      /\ "uart" \notin Shared /\ command \in [type : CommandTypes, value : Int]
  BY DEF WhereTypeOK, DataTypeOK, AllTasks, COMM, LOGGER, ALARM, Shared, Commands
<1>1. Posted => \A i \in 1 .. Len(queue') : Named(queue'[i])
  BY PostedKeepsNames DEF MailInv
<1>2. ASSUME \/ EndIteration(COMM)
             \/ Given' /\ Dispatch(command'.type),
             Posted
      PROVE  MailInv'
  BY <1>0, <1>1, <1>2 DEF MailInv, Dispatch, Goto, EndIteration, Entry, Start, InUart,
     Given, Shared
<1>3. ASSUME NEW s, Stay(COMM, s), Posted,
             place[COMM] = "uart",
             s \in {"type", "value", "event", "push", "consume"} => Full',
             s \in {"value", "event", "push", "consume"} => Given',
             s \in {"push", "consume"} => Told'
      PROVE  MailInv'
  BY <1>0, <1>1, <1>3 DEF MailInv, Stay, InUart
<1>4. ASSUME UNCHANGED MailVars, Posted, place[COMM] \in Shared,
             \/ \E s : Stay(COMM, s)
             \/ Goto(COMM, "system_enabled")
             \/ EndIteration(COMM)
      PROVE  MailInv'
  <2>1. Given' = Given
    BY <1>4 DEF MailVars, Given
  <2>2. CASE \E s : Stay(COMM, s)
    BY <1>0, <1>1, <1>4, <2>1, <2>2 DEF MailInv, Stay, InUart
  <2>3. CASE Goto(COMM, "system_enabled")
    BY <1>0, <1>1, <1>4, <2>3 DEF MailInv, Goto, InUart
  <2>4. CASE EndIteration(COMM)
    BY <1>2, <1>4, <2>4
  <2> QED
    BY <1>4, <2>2, <2>3, <2>4
<1>5. UNCHANGED bridgeVars => Posted
  BY DEF bridgeVars, Posted
<1>6. UNCHANGED <<locals, bridgeVars>> => UNCHANGED MailVars /\ Posted
  BY DEF locals, bridgeVars, MailVars, Posted
<1>7. CASE UartRx
  <2>1. CASE UartStub
    <3>1. \A c \in StubCommands : c.type # "NONE"
      BY DEF StubCommands
    <3> QED
      BY <1>2, <1>5, <2>1, <3>1 DEF UartStub, Given
  <2>2. CASE UartPoll
    <3>1. Named(SignalEvent("HEARTBEAT", COMM))
      BY DEF Named, SignalEvent, ValueEvent
    <3>2. Posted
      BY <1>6, <2>2, <3>1 DEF UartPoll, Call, Posted
    <3> QED
      BY <1>3, <2>2, <3>2 DEF UartPoll, At
  <2>3. CASE UartCheck
    <3>1. UNCHANGED MailVars /\ Posted /\ place[COMM] = "uart"
      BY <1>6, <2>3 DEF UartCheck, At
    <3>2. CASE EndIteration(COMM)
      BY <1>2, <3>1, <3>2
    <3>3. CASE Full /\ Stay(COMM, "type")
      BY <1>3, <3>1, <3>3 DEF MailVars, Full
    <3> QED
      BY <2>3, <3>2, <3>3 DEF UartCheck, Full
  <2>4. CASE UartCopyType
    <3>1. Posted /\ place[COMM] = "uart" /\ Full /\ Full' /\ Stay(COMM, "value")
      BY <1>5, <2>4 DEF UartCopyType, At, MailInv, InUart, Full, bridgeVars
    <3>2. Given'
      BY <1>0, <2>4, <3>1 DEF UartCopyType, Given, Full
    <3> QED
      BY <1>3, <3>1, <3>2
  <2>5. CASE UartCopyValue
    <3>1. Posted /\ place[COMM] = "uart" /\ Full' /\ Given /\ Stay(COMM, "event")
      BY <1>5, <2>5 DEF UartCopyValue, At, MailInv, InUart, Full, bridgeVars
    <3>2. Given'
      BY <1>0, <2>5, <3>1 DEF UartCopyValue, Given
    <3> QED
      BY <1>3, <3>1, <3>2
  <2>6. CASE UartEventType
    <3>1. /\ Posted /\ place[COMM] = "uart" /\ Full /\ Full' /\ Given /\ Given'
          /\ Stay(COMM, "push")
      BY <1>5, <2>6 DEF UartEventType, At, MailInv, InUart, Full, Given, bridgeVars
    <3>2. Told'
      BY <2>6, <3>1 DEF UartEventType, Told, Full
    <3> QED
      BY <1>3, <3>1, <3>2
  <2>7. CASE UartEvent
    <3>1. /\ place[COMM] = "uart" /\ Full' /\ Given' /\ Told /\ Told'
          /\ Stay(COMM, "consume")
      BY <2>7 DEF UartEvent, Call, At, MailInv, InUart, Full, Given, Told, locals, mailbox
    <3>2. Named(ValueEvent("COMM", COMM, event_type, dvr_command_value))
      BY <3>1 DEF Named, ValueEvent, Told
    <3>3. Posted
      BY <2>7, <3>2 DEF UartEvent, Call, Posted
    <3> QED
      BY <1>3, <3>1, <3>3
  <2>8. CASE UartConsume
    <3>1. /\ Given /\ Given' /\ command' = command /\ UNCHANGED queue
      BY <2>8 DEF UartConsume, At, MailInv, InUart, Given, locals
    <3>2. Given' /\ Dispatch(command'.type) /\ Posted
      BY <2>8, <3>1 DEF UartConsume, Posted
    <3> QED
      BY <1>2, <3>2
  <2> QED
    BY <1>7, <2>1, <2>2, <2>3, <2>4, <2>5, <2>6, <2>7, <2>8 DEF UartRx
<1>8. ASSUME NEW m \in Shared, Section(COMM, m)
      PROVE  MailInv'
  <2>1. UNCHANGED MailVars /\ Posted
    BY <1>8, SectionPosts DEF NoCommand, Posted, Named
  <2>2. place[COMM] \in Shared /\ \E s : Stay(COMM, s)
    BY <1>8 DEF Section, ReadHolder, Lock, MarkAcquired, ReportWait, MarkReleased, At
  <2> QED
    BY <1>4, <2>1, <2>2
<1>9. CASE comm_task_safe /\ ~UartRx
  <2>1. CASE \E m \in Shared : Section(COMM, m)
    BY <1>8, <2>1
  <2>2. CASE ~\E m \in Shared : Section(COMM, m)
    <3>1. UNCHANGED <<locals, bridgeVars>> /\ place[COMM] \in Shared
          /\ \/ \E s : Stay(COMM, s)
             \/ Goto(COMM, "system_enabled")
             \/ EndIteration(COMM)
      BY <1>9, <2>2 DEF comm_task_safe, Access, Unlock, At, AfterTarget, StoreTarget,
         StoreEnabled, Shared
    <3> QED
      BY <1>4, <1>6, <3>1
  <2> QED
    BY <2>1, <2>2
<1>10. CASE Finish(COMM)
  <2>1. Named(SignalEvent("TASK_DONE", COMM))
    BY DEF Named, SignalEvent, ValueEvent
  <2>2. Posted
    BY <1>10, <2>1 DEF Finish, SignalDone, Exit, Call, Posted
  <2>3. place'[COMM] \in {"exit", "returned"}
    BY <1>0, <1>10 DEF Finish, SignalDone, Exit, Goto
  <2> QED
    BY <1>1, <2>2, <2>3 DEF MailInv, InUart
<1> QED
  BY <1>7, <1>9, <1>10 DEF Thread, CONTROL, SENSOR, ALARM, LOGGER, COMM

LEMMA CreationKeepsMail ==
  ASSUME WhereTypeOK, MailInv, NEW t \in Tasks, Spawn(t) \/ SpawnFails(t)
  PROVE  MailInv'
<1>1. PICK p \in {"uart", "sensor_data", "failed"} :
        /\ place' = [place EXCEPT ![t] = p]
        /\ stage' = [stage EXCEPT ![t] = Entry(p)]
        /\ UNCHANGED <<locals, queue, mailbox>>
  BY DEF Spawn, SpawnFails, Creation, Goto, Start
<1>2. t \in AllTasks /\ COMM \in AllTasks
      /\ place \in [AllTasks -> Places] /\ stage \in [AllTasks -> Stages]
  BY FirmwareAssumption DEF WhereTypeOK, AllTasks, COMM, LOGGER, ALARM
<1>3. UNCHANGED MailVars
  BY <1>1 DEF MailVars, locals, mailbox
<1>4. CASE t = COMM
  <2>1. place'[COMM] # "target_temp"
        /\ (place'[COMM] = "uart" => stage'[COMM] = "call")
    BY <1>1, <1>2, <1>4 DEF Entry, Shared
  <2> QED
    BY <1>1, <2>1 DEF MailInv, InUart
<1>5. CASE t # COMM
  <2>1. place'[COMM] = place[COMM] /\ stage'[COMM] = stage[COMM]
    BY <1>1, <1>2, <1>5
  <2> QED
    BY <1>1, <1>3, <2>1 DEF MailInv, MailVars, InUart, Full, Given, Told
<1> QED
  BY <1>4, <1>5

(* The driver writes commands that are not empty, and the drain takes      *)
(* events out of the queue.                                                *)
LEMMA TestbenchKeepsMail ==
  ASSUME MailInv, UNCHANGED <<where, command, event_type>>,
         queue' = queue \/ queue' = <<>>, Full => Full'
  PROVE  MailInv'
<1>1. \A i \in 1 .. Len(queue') : Named(queue'[i])
  <2>1. 1 .. Len(<<>>) = {}
    BY EmptySeq
  <2> QED
    BY <2>1 DEF MailInv
<1> QED
  BY <1>1 DEF MailInv, where, InUart, Given, Told

LEMMA MailInvInit == SystemBInit => MailInv
<1> SUFFICES ASSUME SystemBInit
             PROVE  MailInv
  OBVIOUS
<1>1. queue = <<>> /\ place[COMM] \in {"unspawned", "returned"}
  BY DEF SystemBInit, GroupBInit, FirmwareInit, BridgeInit, AllTasks, COMM, LOGGER, ALARM
<1>2. 1 .. Len(<<>>) = {}
  BY EmptySeq
<1> QED
  BY <1>1, <1>2 DEF MailInv, InUart

NoEmptyItem == \A i \in 1 .. Len(Script) : Script[i].type # "NONE"

LEMMA MailInvNext ==
  ASSUME NoEmptyItem, RunInv, MailInv, [SystemBNext]_systemBVars
  PROVE  MailInv'
<1>0. /\ WhereTypeOK /\ DataTypeOK /\ BridgeTypeOK
      /\ queue \in Seq(Events) /\ queue' \in Seq(Events)
  <2>1. RunInv'
    BY RunInvNext
  <2>2. BridgeTypeOK' /\ BridgeTypeOK
    BY <2>1 DEF RunInv, FullInv, IInv, DataInv
  <2> QED
    BY <2>2, RunInvTypes DEF IInv, WhereInv, DataInv, BridgeTypeOK
<1>1. ASSUME NEW t \in Tasks, Dut(t)
      PROVE  MailInv'
  <2>1. CASE t = COMM
    BY <1>0, <1>1, <2>1, CommKeepsMail DEF Dut
  <2>2. CASE t # COMM
    <3>1. LockStep(t) /\ UNCHANGED MailVars /\ NoCommand
      BY <1>1, <2>2, ThreadIsLockStep, OthersPost DEF Dut
    <3>2. COMM \in AllTasks
      BY DEF AllTasks, COMM, LOGGER, ALARM
    <3>3. place'[COMM] = place[COMM] /\ stage'[COMM] = stage[COMM]
      BY <1>0, <2>2, <3>1, <3>2, OthersStay DEF WhereTypeOK
    <3> QED
      BY <1>0, <3>1, <3>3, OthersKeepMail
  <2> QED
    BY <2>1, <2>2
<1>2. ASSUME NEW t \in Tasks, Spawn(t) \/ SpawnFails(t)
      PROVE  MailInv'
  BY <1>0, <1>2, CreationKeepsMail
<1>3. CASE (StartPolling \/ Poller) /\ UNCHANGED <<where, globals, locals>>
  BY <1>3, TestbenchKeepsMail DEF StartPolling, Poller, CheckActive, DrainSwap, Deliver,
     EndDrain, bridgeVars, mailbox, locals, Full
<1>4. CASE Driver
  <2>1. InjectType => Full'
    <3>1. ASSUME InjectType
          PROVE  injected + 1 \in 1 .. Len(Script)
      BY <1>0, <3>1 DEF InjectType, BridgeTypeOK
    <3> QED
      BY <3>1 DEF InjectType, NoEmptyItem, Full
  <2>2. UNCHANGED <<where, command, event_type, queue>> /\ (Full => Full')
    BY <1>4, <2>1 DEF Driver, CommDriver, InjectType, InjectValue, locals, Full
  <2> QED
    BY <2>2, TestbenchKeepsMail
<1>5. CASE UNCHANGED systemBVars
  BY <1>5, TestbenchKeepsMail DEF systemBVars, groupBVars, firmwareVars, locals, bridgeVars,
     Full
<1> QED
  BY <1>1, <1>2, <1>3, <1>4, <1>5
     DEF SystemBNext, Bridge, RunPhase, CreateThreads, Joined

(***************************************************************************)
(* For every set of tasks and of readings, any number of loops and any     *)
(* script of commands that are not empty: the race between the driver and  *)
(* the callback mixes commands but makes up no empty one, neither for the  *)
(* firmware nor for the scoreboard.                                        *)
(***************************************************************************)
THEOREM RaceInventsNoCommand ==
  ASSUME NoEmptyItem
  PROVE  SystemBSpec => []NoEmptyCommand
<1>1. SystemBInit => RunInv /\ MailInv
  BY RunInvInit, MailInvInit
<1>2. RunInv /\ MailInv /\ [SystemBNext]_systemBVars => RunInv' /\ MailInv'
  BY RunInvNext, MailInvNext
<1>3. MailInv => NoEmptyCommand
  BY DEF MailInv, NoEmptyCommand, InUart, Given, Named, At
<1> QED
  BY <1>1, <1>2, <1>3, PTL DEF SystemBSpec

-----------------------------------------------------------------------------
(***************************************************************************)
(* A command is taken once: counting the COMM events on their way.         *)
(***************************************************************************)
LEMMA CommEventsSent == \A s : CommEvents(s) = Sent("COMM", s)
BY DEF CommEvents, Sent

(* A command is in the mailbox, or about to be reported, and its event has *)
(* not been pushed: what is neither counted in PendingCommands nor taken.  *)
Unposted ==
  /\ ~InUart({"consume"})
  /\ Full \/ InUart({"type", "value", "event", "push"})

TakenInv ==
  /\ PendingCommands \in Nat
  /\ PendingCommands <= injected
  /\ Unposted => PendingCommands < injected

(* What a thread does to it: nothing, or comm_task pushes the event.       *)
TakenStep ==
  /\ UNCHANGED injected
  /\ \/ NoCommand /\ (Unposted' => Unposted)
     \/ Unposted /\ ~Unposted' /\ \E e : Push(e)

LEMMA PushedPending ==
  ASSUME NEW e, Push(e), UNCHANGED batch, batch \in Seq(Events),
         queue \in Seq(Events), queue' \in Seq(Events)
  PROVE  /\ PendingCommands \in Nat /\ PendingCommands' \in Nat
         /\ PendingCommands' <= PendingCommands + 1
         /\ e.type # "COMM" => PendingCommands' = PendingCommands
<1>1. Stream \in Seq(Events) /\ Stream' \in Seq(Events)
  BY StreamOf DEF Stream
<1>2. PendingCommands \in Nat /\ PendingCommands' \in Nat
  BY <1>1, CommEventsSent, SentFinite DEF PendingCommands
<1>3. CASE e.type \notin Registered
  <2>1. PendingCommands' = PendingCommands
    BY <1>3 DEF Push, Stream, PendingCommands
  <2> QED
    BY <1>2, <2>1
<1>4. CASE e.type \in Registered
  <2>1. e \in Events /\ queue' = Append(queue, e)
    BY <1>4, PushedIsEvent
  <2>2. Stream' = Append(Stream, e)
    BY <2>1, StreamOf DEF Stream
  <2> HIDE DEF Stream
  <2>3. PendingCommands' = PendingCommands + (IF e.type = "COMM" THEN 1 ELSE 0)
    BY <1>1, <2>1, <2>2, CommEventsSent, SentAppend DEF PendingCommands
  <2> QED
    BY <1>2, <2>3
<1> QED
  BY <1>3, <1>4

LEMMA TakenStepCounts ==
  ASSUME TakenInv, TakenStep, UNCHANGED batch, batch \in Seq(Events),
         queue \in Seq(Events), queue' \in Seq(Events), injected \in Nat
  PROVE  TakenInv'
<1>1. CASE NoCommand /\ (Unposted' => Unposted)
  <2>1. PendingCommands' = PendingCommands /\ PendingCommands \in Nat
    <3>1. CASE UNCHANGED queue
      <4>1. Stream \in Seq(Events)
        BY StreamOf DEF Stream
      <4> QED
        BY <3>1, <4>1, CommEventsSent, SentFinite DEF PendingCommands, Stream
    <3>2. CASE \E e : Push(e) /\ e.type # "COMM"
      BY <3>2, PushedPending
    <3> QED
      BY <1>1, <3>1, <3>2 DEF NoCommand
  <2> QED
    BY <1>1, <2>1 DEF TakenInv, TakenStep
<1>2. CASE Unposted /\ ~Unposted' /\ \E e : Push(e)
  <2>1. /\ PendingCommands \in Nat /\ PendingCommands' \in Nat
        /\ PendingCommands' <= PendingCommands + 1
    BY <1>2, PushedPending
  <2>2. PendingCommands < injected /\ injected' = injected
    BY <1>2 DEF TakenInv, TakenStep
  <2>3. PendingCommands' <= injected'
    BY <2>1, <2>2
  <2> QED
    BY <1>2, <2>1, <2>3 DEF TakenInv
<1> QED
  BY <1>1, <1>2 DEF TakenStep

LEMMA OthersTake ==
  ASSUME WhereTypeOK, NEW t \in Tasks, t # COMM, Thread(t), LockStep(t)
  PROVE  TakenStep
<1>1. UNCHANGED MailVars /\ NoCommand
  BY OthersPost
<1>2. place'[COMM] = place[COMM] /\ stage'[COMM] = stage[COMM]
  <2>1. COMM \in AllTasks
    BY DEF AllTasks, COMM, LOGGER, ALARM
  <2> QED
    BY <2>1, OthersStay DEF WhereTypeOK
<1> QED
  BY <1>1, <1>2 DEF TakenStep, MailVars, Unposted, InUart, Full

LEMMA CommTakes ==
  ASSUME WhereTypeOK, COMM \in Tasks, Thread(COMM)
  PROVE  TakenStep
<1>0. COMM \in AllTasks /\ place \in [AllTasks -> Places] /\ stage \in [AllTasks -> Stages]
  BY DEF WhereTypeOK, AllTasks, COMM, LOGGER, ALARM
(* A step that leaves the callback, or comes no nearer to the push than    *)
(* the stage before it.                                                    *)
<1>1. ASSUME UNCHANGED <<injected, dvr_command_type>>, NoCommand,
             stage[COMM] # "consume",
             \/ \E p \in Places : Goto(COMM, p)
             \/ EndIteration(COMM)
             \/ Stay(COMM, "check")
             \/ place[COMM] # "uart" /\ \E s \in Stages : Stay(COMM, s)
      PROVE  TakenStep
  <2>1. ~InUart({"type", "value", "event", "push"})'
    BY <1>0, <1>1 DEF InUart, Goto, EndIteration, Stay, Entry, Start
  <2>2. ~InUart({"consume"})
    BY <1>1 DEF InUart
  <2> QED
    BY <1>1, <2>1, <2>2 DEF TakenStep, Unposted, Full
<1>2. ASSUME NEW s \in {"type", "value", "event", "push"}, Unposted,
             UNCHANGED <<injected, queue>>, Stay(COMM, s)
      PROVE  TakenStep
  BY <1>2 DEF TakenStep, NoCommand
<1>3. UNCHANGED bridgeVars => UNCHANGED <<injected, dvr_command_type>> /\ NoCommand
  BY DEF bridgeVars, NoCommand
<1>4. \A type : Dispatch(type) => EndIteration(COMM) \/ \E p \in Places : Goto(COMM, p)
  BY DEF Dispatch, Places, Shared
<1>5. CASE UartRx
  <2>1. CASE UartStub
    BY <1>1, <1>3, <1>4, <2>1 DEF UartStub, At
  <2>2. CASE UartPoll
    <3>1. SignalEvent("HEARTBEAT", COMM).type # "COMM"
      BY DEF SignalEvent, ValueEvent
    <3>2. UNCHANGED <<injected, dvr_command_type>> /\ NoCommand
      BY <1>3, <2>2, <3>1 DEF UartPoll, Call, NoCommand, mailbox
    <3> QED
      BY <1>1, <2>2, <3>2 DEF UartPoll, At
  <2>3. CASE UartCheck
    <3>1. CASE EndIteration(COMM)
      BY <1>1, <1>3, <2>3, <3>1 DEF UartCheck, At
    <3>2. CASE Full /\ Stay(COMM, "type")
      BY <1>2, <2>3, <3>2 DEF UartCheck, At, Unposted, InUart, bridgeVars
    <3> QED
      BY <2>3, <3>1, <3>2 DEF UartCheck, Full
  <2>4. CASE UartCopyType \/ UartCopyValue \/ UartEventType
    BY <1>2, <2>4 DEF UartCopyType, UartCopyValue, UartEventType, At, Unposted, InUart,
       bridgeVars
  <2>5. CASE UartEvent
    <3>1. InUart({"consume"})'
      BY <1>0, <2>5 DEF UartEvent, At, Stay, InUart
    <3> QED
      BY <2>5, <3>1 DEF UartEvent, At, Call, mailbox, TakenStep, Unposted, InUart
  <2>6. CASE UartConsume
    <3>1. ~InUart({"type", "value", "event", "push"})'
      BY <1>0, <1>4, <2>6 DEF UartConsume, InUart, Goto, EndIteration, Entry, Start
    <3>2. ~Unposted'
      BY <2>6, <3>1 DEF UartConsume, Unposted, Full
    <3> QED
      BY <2>6, <3>2 DEF UartConsume, TakenStep, NoCommand
  <2> QED
    BY <1>5, <2>1, <2>2, <2>3, <2>4, <2>5, <2>6 DEF UartRx
<1>6. ASSUME NEW m \in Shared, Section(COMM, m)
      PROVE  TakenStep
  <2>1. UNCHANGED MailVars /\ NoCommand
    BY <1>6, SectionPosts
  <2>2. /\ place[COMM] # "uart" /\ stage[COMM] # "consume"
        /\ \E s \in Stages : Stay(COMM, s)
    BY <1>6 DEF Section, ReadHolder, Lock, MarkAcquired, ReportWait, MarkReleased, At, Stages,
       Shared
  <2> QED
    BY <1>1, <2>1, <2>2 DEF MailVars
<1>7. CASE comm_task_safe /\ ~UartRx
  <2>1. CASE \E m \in Shared : Section(COMM, m)
    BY <1>6, <2>1
  <2>2. CASE ~\E m \in Shared : Section(COMM, m)
    <3>1. /\ UNCHANGED bridgeVars /\ place[COMM] # "uart" /\ stage[COMM] # "consume"
          /\ \/ \E p \in Places : Goto(COMM, p)
             \/ EndIteration(COMM)
             \/ \E s \in Stages : Stay(COMM, s)
      BY <1>7, <2>2 DEF comm_task_safe, Access, Unlock, At, AfterTarget, StoreTarget,
         StoreEnabled, Shared, Places, Stages
    <3> QED
      BY <1>1, <1>3, <3>1
  <2> QED
    BY <2>1, <2>2
<1>8. CASE Finish(COMM)
  <2>1. SignalEvent("TASK_DONE", COMM).type # "COMM"
    BY DEF SignalEvent, ValueEvent
  <2>2. /\ UNCHANGED <<injected, dvr_command_type>> /\ NoCommand /\ stage[COMM] # "consume"
        /\ \E p \in Places : Goto(COMM, p)
    BY <1>8, <2>1 DEF Finish, SignalDone, Exit, Call, NoCommand, mailbox, At, Places
  <2> QED
    BY <1>1, <2>2
<1> QED
  BY <1>5, <1>7, <1>8 DEF Thread, CONTROL, SENSOR, ALARM, LOGGER, COMM

LEMMA CreationTakes ==
  ASSUME WhereTypeOK, NEW t \in Tasks, Spawn(t) \/ SpawnFails(t)
  PROVE  TakenStep
<1>1. PICK p \in {"uart", "sensor_data", "failed"} :
        /\ place[t] = "unspawned"
        /\ place' = [place EXCEPT ![t] = p]
        /\ stage' = [stage EXCEPT ![t] = Entry(p)]
        /\ UNCHANGED <<queue, mailbox>>
  BY DEF Spawn, SpawnFails, Creation, Goto, Start
<1>2. t \in AllTasks /\ COMM \in AllTasks
      /\ place \in [AllTasks -> Places] /\ stage \in [AllTasks -> Stages]
  BY FirmwareAssumption DEF WhereTypeOK, AllTasks, COMM, LOGGER, ALARM
<1>3. /\ InUart({"type", "value", "event", "push"})'
           <=> InUart({"type", "value", "event", "push"})
      /\ InUart({"consume"}) => InUart({"consume"})'
  BY <1>1, <1>2 DEF InUart, Entry
<1> QED
  BY <1>1, <1>3 DEF TakenStep, NoCommand, mailbox, Unposted, Full

LEMMA TakenInvInit == SystemBInit => TakenInv
<1> SUFFICES ASSUME SystemBInit
             PROVE  TakenInv
  OBVIOUS
<1>1. Stream = <<>> /\ injected = 0 /\ dvr_command_type = "NONE"
  BY StreamOf DEF SystemBInit, GroupBInit, FirmwareInit, BridgeInit, DutBridgeInit, Stream
<1>2. place[COMM] \in {"unspawned", "returned"}
  BY DEF SystemBInit, GroupBInit, FirmwareInit, AllTasks, COMM, LOGGER, ALARM
<1>3. ~Unposted
  BY <1>1, <1>2 DEF Unposted, InUart, Full
<1>4. CommEvents(<<>>) = {}
  BY EmptySeq DEF CommEvents
<1>5. PendingCommands = 0
  BY <1>1, <1>4, FS_EmptySet DEF PendingCommands
<1> QED
  BY <1>1, <1>3, <1>5 DEF TakenInv

LEMMA TakenInvNext ==
  ASSUME RunInv, TakenInv, [SystemBNext]_systemBVars
  PROVE  TakenInv'
<1>0. /\ WhereTypeOK /\ injected \in Nat /\ batch \in Seq(Events)
      /\ queue \in Seq(Events) /\ queue' \in Seq(Events)
  <2>1. RunInv'
    BY RunInvNext
  <2>2. BridgeTypeOK' /\ BridgeTypeOK
    BY <2>1 DEF RunInv, FullInv, IInv, DataInv
  <2>3. Len(Script) \in Nat
    BY BridgeAssumption, LenProperties
  <2> QED
    BY <2>2, <2>3, RunInvTypes DEF IInv, WhereInv, BridgeTypeOK, ChannelInv
<1>1. ASSUME TakenStep, UNCHANGED dutBridgeVars
      PROVE  TakenInv'
  BY <1>0, <1>1, TakenStepCounts DEF dutBridgeVars
<1>2. ASSUME NEW t \in Tasks, Dut(t)
      PROVE  TakenInv'
  BY <1>0, <1>1, <1>2, ThreadIsLockStep, OthersTake, CommTakes DEF Dut
<1>3. ASSUME NEW t \in Tasks, Spawn(t) \/ SpawnFails(t), UNCHANGED dutBridgeVars
      PROVE  TakenInv'
  BY <1>0, <1>1, <1>3, CreationTakes
<1>4. ASSUME UNCHANGED <<where, injected, dvr_command_type>>,
             PendingCommands' \in Nat, PendingCommands' <= PendingCommands
      PROVE  TakenInv'
  <2>1. Unposted' <=> Unposted
    BY <1>4 DEF Unposted, InUart, Full, where
  <2>2. injected' = injected /\ PendingCommands \in Nat /\ PendingCommands <= injected
    BY <1>4 DEF TakenInv
  <2>3. PendingCommands' <= injected'
    BY <1>0, <1>4, <2>2
  <2>4. ASSUME Unposted
        PROVE  PendingCommands' < injected'
    <3>1. PendingCommands < injected
      BY <2>4 DEF TakenInv
    <3> QED
      BY <1>0, <1>4, <2>2, <3>1
  <2> QED
    BY <1>4, <2>1, <2>3, <2>4 DEF TakenInv
<1>5. ASSUME UNCHANGED <<where, mailbox>>, UNCHANGED Stream
      PROVE  TakenInv'
  BY <1>4, <1>5 DEF PendingCommands, mailbox, TakenInv
<1>6. CASE (StartPolling \/ CheckActive \/ EndDrain) /\ UNCHANGED where
  BY <1>5, <1>6 DEF StartPolling, CheckActive, EndDrain, bridgeVars, mailbox, Stream
<1>7. CASE DrainSwap /\ UNCHANGED where
  <2>1. batch = <<>>
    BY <1>7, RunInvTypes DEF DrainSwap, ChannelInv
  <2>2. UNCHANGED Stream
    BY <1>0, <1>7, <2>1, StreamOf DEF DrainSwap, Stream
  <2> QED
    BY <1>5, <1>7, <2>2 DEF DrainSwap
<1>8. CASE Deliver /\ UNCHANGED where
  <2>1. Stream \in Seq(Events) /\ Stream # <<>> /\ Stream' = Tail(Stream)
    BY <1>0, <1>8, StreamOf DEF Deliver, Stream, bridgeVars
  <2>2. Stream' \in Seq(Events)
    BY <2>1, HeadTailProperties
  <2> HIDE DEF Stream
  <2>3. PendingCommands' \in Nat /\ PendingCommands' <= PendingCommands
    BY <2>1, <2>2, CommEventsSent, SentFinite, SentTail DEF PendingCommands
  <2> QED
    BY <1>4, <1>8, <2>3 DEF Deliver, bridgeVars
<1>9. CASE Driver
  <2>1. PendingCommands' = PendingCommands
    BY <1>9 DEF Driver, CommDriver, InjectType, InjectValue, dutBridgeVars, PendingCommands,
       Stream
  <2>2. CASE InjectType
    BY <1>0, <2>1, <2>2 DEF InjectType, TakenInv
  <2>3. CASE InjectValue
    BY <1>4, <1>9, <2>1, <2>3 DEF InjectValue, Driver, TakenInv
  <2> QED
    BY <1>9, <2>2, <2>3 DEF Driver, CommDriver
<1>10. CASE UNCHANGED systemBVars
  BY <1>5, <1>10 DEF systemBVars, groupBVars, firmwareVars, dutBridgeVars, bridgeVars, mailbox,
     Stream
<1> QED
  BY <1>2, <1>3, <1>6, <1>7, <1>8, <1>9, <1>10
     DEF SystemBNext, Bridge, RunPhase, CreateThreads, Poller, Joined

(***************************************************************************)
(* For every script, empty commands included, any tasks, loops and         *)
(* readings: comm_task takes a command from the mailbox at most once,      *)
(* however the driver's stores fall between the callback's.                *)
(***************************************************************************)
THEOREM CommandsAreNotRepeated == SystemBSpec => []CommandTakenOnce
<1>1. SystemBInit => RunInv /\ TakenInv
  BY RunInvInit, TakenInvInit
<1>2. RunInv /\ TakenInv /\ [SystemBNext]_systemBVars => RunInv' /\ TakenInv'
  BY RunInvNext, TakenInvNext
<1>3. RunInv /\ TakenInv => CommandTakenOnce
  <2> SUFFICES ASSUME RunInv, TakenInv
               PROVE  CommandTakenOnce
    OBVIOUS
  <2>1. Full /\ stage[COMM] # "consume" => Unposted
    BY DEF Unposted, InUart
  <2>2. injected \in Int
    BY RunInvTypes, BridgeAssumption, LenProperties DEF ChannelTypes, BridgeTypeOK
  <2> QED
    BY <2>1, <2>2 DEF TakenInv, CommandTakenOnce, Full
<1> QED
  BY <1>1, <1>2, <1>3, PTL DEF SystemBSpec

-----------------------------------------------------------------------------
(***************************************************************************)
(* A mixed command keeps up.  The driver's value is never further behind   *)
(* its type than one command, and between the check and the clearing of    *)
(* the mailbox the type is the one that the driver stored last.            *)
(***************************************************************************)
Loading == InUart({"type", "value", "event", "push", "consume"})

TypeTaken == \E i \in 1 .. injected : command.type = Script[i].type

Mixed == \E i \in 1 .. injected :
  /\ command.type = Script[i].type
  /\ \E j \in i - 1 .. injected : command.value = ValueAfter(j)

KeepInv ==
  /\ \E j \in injected - 1 .. injected : 0 <= j /\ dvr_command_value = ValueAfter(j)
  /\ Full \/ Loading => 0 < injected /\ dvr_command_type = Script[injected].type
  /\ InUart({"value"}) => TypeTaken
  /\ InUart({"event", "push", "consume"}) => Mixed

(* A step that comes no nearer to the command.                             *)
LEMMA LeavingKeepsUp ==
  ASSUME KeepInv, UNCHANGED <<dvr_command_value, injected>>, ~Loading',
         Full' => Full /\ dvr_command_type' = dvr_command_type
  PROVE  KeepInv'
<1>1. ~InUart({"value"})' /\ ~InUart({"event", "push", "consume"})'
  BY DEF Loading, InUart
<1> QED
  BY <1>1 DEF KeepInv, ValueAfter

LEMMA OthersKeepUp ==
  ASSUME KeepInv, UNCHANGED <<place[COMM], stage[COMM], MailVars>>
  PROVE  KeepInv'
BY DEF KeepInv, MailVars, Loading, InUart, Full, TypeTaken, Mixed, ValueAfter

LEMMA CommKeepsUp ==
  ASSUME WhereTypeOK, DataTypeOK, KeepInv, injected \in Nat, COMM \in Tasks, Thread(COMM)
  PROVE  KeepInv'
<1>0. COMM \in AllTasks /\ place \in [AllTasks -> Places] /\ stage \in [AllTasks -> Stages]
      /\ "uart" \notin Shared /\ command \in [type : CommandTypes, value : Int]
  BY DEF WhereTypeOK, DataTypeOK, AllTasks, COMM, LOGGER, ALARM, Shared, Commands
<1>1. ASSUME UNCHANGED mailbox,
             \/ \E p \in Places : Goto(COMM, p)
             \/ EndIteration(COMM)
             \/ Stay(COMM, "check")
             \/ place[COMM] # "uart" /\ \E s \in Stages : Stay(COMM, s)
      PROVE  KeepInv'
  <2>1. ~Loading'
    BY <1>0, <1>1 DEF Loading, InUart, Goto, EndIteration, Stay, Entry, Start
  <2> QED
    BY <1>1, <2>1, LeavingKeepsUp DEF mailbox, Full
<1>2. UNCHANGED bridgeVars => UNCHANGED mailbox
  BY DEF bridgeVars, mailbox
<1>3. \A type : Dispatch(type) => EndIteration(COMM) \/ \E p \in Places : Goto(COMM, p)
  BY DEF Dispatch, Places, Shared
<1>4. CASE UartRx
  <2>1. CASE UartStub
    BY <1>1, <1>2, <1>3, <2>1 DEF UartStub
  <2>2. CASE UartPoll
    BY <1>1, <1>2, <2>2 DEF UartPoll, Call
  <2>3. CASE UartCheck
    <3>1. CASE EndIteration(COMM)
      BY <1>1, <1>2, <2>3, <3>1 DEF UartCheck
    <3>2. CASE Full /\ Stay(COMM, "type")
      <4>1. ~InUart({"value"})' /\ ~InUart({"event", "push", "consume"})'
        BY <1>0, <3>2 DEF InUart, Stay
      <4> QED
        BY <2>3, <3>2, <4>1 DEF UartCheck, bridgeVars, KeepInv, ValueAfter
    <3> QED
      BY <2>3, <3>1, <3>2 DEF UartCheck, Full
  <2>4. CASE UartCopyType
    <3>1. Loading /\ InUart({"value"})' /\ ~InUart({"event", "push", "consume"})'
      BY <1>0, <2>4 DEF UartCopyType, At, Stay, InUart, Loading
    <3>2. command'.type = Script[injected].type /\ injected \in 1 .. injected
      BY <1>0, <2>4, <3>1 DEF UartCopyType, KeepInv
    <3>3. TypeTaken'
      BY <2>4, <3>2 DEF UartCopyType, bridgeVars, TypeTaken
    <3> QED
      BY <2>4, <3>1, <3>3 DEF UartCopyType, bridgeVars, KeepInv, ValueAfter
  <2>5. CASE UartCopyValue
    <3>1. /\ Loading /\ InUart({"value"})
          /\ ~InUart({"value"})' /\ InUart({"event", "push", "consume"})'
      BY <1>0, <2>5 DEF UartCopyValue, At, Stay, InUart, Loading
    <3>2. PICK i \in 1 .. injected : command.type = Script[i].type
      BY <3>1 DEF KeepInv, TypeTaken
    <3>3. PICK j \in injected - 1 .. injected : dvr_command_value = ValueAfter(j)
      BY DEF KeepInv
    <3>4. j \in i - 1 .. injected
      BY <3>2, <3>3
    <3>5. command'.type = Script[i].type /\ command'.value = ValueAfter(j)
      BY <1>0, <2>5, <3>2, <3>3 DEF UartCopyValue
    <3>6. Mixed'
      BY <2>5, <3>2, <3>4, <3>5 DEF UartCopyValue, bridgeVars, Mixed, ValueAfter
    <3> QED
      BY <2>5, <3>1, <3>6 DEF UartCopyValue, bridgeVars, KeepInv, ValueAfter
  <2>6. CASE UartEventType \/ UartEvent
    <3>1. /\ Loading /\ ~InUart({"value"})' /\ InUart({"event", "push", "consume"})
      BY <1>0, <2>6 DEF UartEventType, UartEvent, At, Stay, InUart, Loading
    <3>2. UNCHANGED <<mailbox, command>>
      BY <2>6 DEF UartEventType, UartEvent, Call, locals, bridgeVars, mailbox
    <3> QED
      BY <3>1, <3>2 DEF mailbox, KeepInv, Mixed, ValueAfter
  <2>7. CASE UartConsume
    <3>1. ~Loading'
      BY <1>0, <1>3, <2>7 DEF UartConsume, Loading, InUart, Goto, EndIteration, Entry, Start
    <3> QED
      BY <2>7, <3>1, LeavingKeepsUp DEF UartConsume, Full
  <2> QED
    BY <1>4, <2>1, <2>2, <2>3, <2>4, <2>5, <2>6, <2>7 DEF UartRx
<1>5. ASSUME NEW m \in Shared, Section(COMM, m)
      PROVE  KeepInv'
  <2>1. UNCHANGED MailVars
    BY <1>5, SectionPosts
  <2>2. place[COMM] # "uart" /\ \E s \in Stages : Stay(COMM, s)
    BY <1>5 DEF Section, ReadHolder, Lock, MarkAcquired, ReportWait, MarkReleased, At, Stages,
       Shared
  <2> QED
    BY <1>1, <2>1, <2>2 DEF MailVars, mailbox
<1>6. CASE comm_task_safe /\ ~UartRx
  <2>1. CASE \E m \in Shared : Section(COMM, m)
    BY <1>5, <2>1
  <2>2. CASE ~\E m \in Shared : Section(COMM, m)
    <3>1. /\ UNCHANGED bridgeVars /\ place[COMM] # "uart"
          /\ \/ \E p \in Places : Goto(COMM, p)
             \/ EndIteration(COMM)
             \/ \E s \in Stages : Stay(COMM, s)
      BY <1>6, <2>2 DEF comm_task_safe, Access, Unlock, At, AfterTarget, StoreTarget,
         StoreEnabled, Shared, Places, Stages
    <3> QED
      BY <1>1, <1>2, <3>1
  <2> QED
    BY <2>1, <2>2
<1>7. CASE Finish(COMM)
  <2>1. UNCHANGED mailbox /\ \E p \in Places : Goto(COMM, p)
    BY <1>7 DEF Finish, SignalDone, Exit, Call, mailbox, Places
  <2> QED
    BY <1>1, <2>1
<1> QED
  BY <1>4, <1>6, <1>7 DEF Thread, CONTROL, SENSOR, ALARM, LOGGER, COMM

LEMMA CreationKeepsUp ==
  ASSUME WhereTypeOK, KeepInv, NEW t \in Tasks, Spawn(t) \/ SpawnFails(t)
  PROVE  KeepInv'
<1>1. PICK p \in {"uart", "sensor_data", "failed"} :
        /\ place' = [place EXCEPT ![t] = p]
        /\ stage' = [stage EXCEPT ![t] = Entry(p)]
        /\ UNCHANGED <<locals, mailbox>>
  BY DEF Spawn, SpawnFails, Creation, Goto, Start
<1>2. t \in AllTasks /\ COMM \in AllTasks
      /\ place \in [AllTasks -> Places] /\ stage \in [AllTasks -> Stages]
  BY FirmwareAssumption DEF WhereTypeOK, AllTasks, COMM, LOGGER, ALARM
<1>3. CASE t = COMM
  <2>1. ~Loading'
    BY <1>1, <1>2, <1>3 DEF Loading, InUart, Entry
  <2> QED
    BY <1>1, <2>1, LeavingKeepsUp DEF mailbox, Full
<1>4. CASE t # COMM
  BY <1>1, <1>2, <1>4, OthersKeepUp DEF MailVars, mailbox, locals
<1> QED
  BY <1>3, <1>4

(* The driver begins a command only when it has written the value of the   *)
(* one before.                                                             *)
LEMMA DriverKeepsUp ==
  ASSUME KeepInv, injected \in Nat, CommDriver, UNCHANGED <<where, locals>>
  PROVE  KeepInv'
<1>1. UNCHANGED command
      /\ (InUart({"value"})' <=> InUart({"value"}))
      /\ (InUart({"event", "push", "consume"})' <=> InUart({"event", "push", "consume"}))
  BY DEF where, locals, InUart
<1>2. injected' \in Nat /\ injected <= injected'
  BY DEF CommDriver, InjectType, InjectValue
<1>3. TypeTaken => TypeTaken'
  BY <1>1, <1>2 DEF TypeTaken
<1>4. Mixed => Mixed'
  <2> SUFFICES ASSUME Mixed
               PROVE  Mixed'
    OBVIOUS
  <2>1. PICK i \in 1 .. injected : /\ command.type = Script[i].type
                                   /\ \E j \in i - 1 .. injected : command.value = ValueAfter(j)
    BY DEF Mixed
  <2>2. PICK j \in i - 1 .. injected : command.value = ValueAfter(j)
    BY <2>1
  <2>3. i \in 1 .. injected' /\ j \in i - 1 .. injected'
    BY <1>2, <2>1, <2>2
  <2> QED
    BY <1>1, <2>1, <2>2, <2>3 DEF Mixed, ValueAfter
<1>5. CASE InjectType
  <2>1. injected' = injected + 1 /\ dvr_command_type' = Script[injected'].type
        /\ UNCHANGED dvr_command_value
    BY <1>5 DEF InjectType
  <2>2. dvr_command_value = ValueAfter(injected)
    <3>1. CASE injected = 0
      BY <3>1 DEF KeepInv
    <3>2. CASE injected # 0
      BY <1>5, <3>2 DEF InjectType, ValueWritten, ValueAfter
    <3> QED
      BY <3>1, <3>2
  <2>3. injected \in injected' - 1 .. injected' /\ 0 <= injected /\ 0 < injected'
    BY <2>1
  <2> QED
    BY <1>1, <1>3, <1>4, <2>1, <2>2, <2>3 DEF KeepInv, ValueAfter
<1>6. CASE InjectValue
  <2>1. /\ UNCHANGED <<injected, dvr_command_type>> /\ injected > 0
        /\ dvr_command_value' = ValueAfter(injected)
    BY <1>6 DEF InjectValue, ValueWritten, ValueAfter
  <2>2. injected \in injected' - 1 .. injected' /\ 0 <= injected
    BY <2>1
  <2>3. Full' \/ Loading' => 0 < injected' /\ dvr_command_type' = Script[injected'].type
    BY <2>1 DEF KeepInv, Full, Loading, InUart, where
  <2> QED
    BY <1>1, <1>3, <1>4, <2>1, <2>2, <2>3 DEF KeepInv, ValueAfter
<1> QED
  BY <1>5, <1>6 DEF CommDriver

LEMMA KeepInvInit == SystemBInit => KeepInv
<1> SUFFICES ASSUME SystemBInit
             PROVE  KeepInv
  OBVIOUS
<1>1. injected = 0 /\ dvr_command_type = "NONE" /\ dvr_command_value = 0
      /\ place[COMM] \in {"unspawned", "returned"}
  BY DEF SystemBInit, GroupBInit, FirmwareInit, BridgeInit, AllTasks, COMM, LOGGER, ALARM
<1>2. 0 \in injected - 1 .. injected
  BY <1>1
<1> QED
  BY <1>1, <1>2 DEF KeepInv, ValueAfter, Full, Loading, InUart

LEMMA KeepInvNext ==
  ASSUME RunInv, KeepInv, [SystemBNext]_systemBVars
  PROVE  KeepInv'
<1>0. WhereTypeOK /\ DataTypeOK /\ injected \in Nat
  <2>1. Len(Script) \in Nat
    BY BridgeAssumption, LenProperties
  <2> QED
    BY <2>1, RunInvTypes DEF IInv, WhereInv, DataInv, BridgeTypeOK
<1>1. ASSUME NEW t \in Tasks, Dut(t)
      PROVE  KeepInv'
  <2>1. CASE t = COMM
    BY <1>0, <1>1, <2>1, CommKeepsUp DEF Dut
  <2>2. CASE t # COMM
    <3>1. LockStep(t) /\ UNCHANGED MailVars
      BY <1>1, <2>2, ThreadIsLockStep, OthersPost DEF Dut
    <3>2. COMM \in AllTasks
      BY DEF AllTasks, COMM, LOGGER, ALARM
    <3>3. place'[COMM] = place[COMM] /\ stage'[COMM] = stage[COMM]
      BY <1>0, <2>2, <3>1, <3>2, OthersStay DEF WhereTypeOK
    <3> QED
      BY <3>1, <3>3, OthersKeepUp
  <2> QED
    BY <2>1, <2>2
<1>2. ASSUME NEW t \in Tasks, Spawn(t) \/ SpawnFails(t)
      PROVE  KeepInv'
  BY <1>0, <1>2, CreationKeepsUp
<1>3. CASE (StartPolling \/ Poller) /\ UNCHANGED <<where, globals, locals>>
  BY <1>3, OthersKeepUp DEF StartPolling, Poller, CheckActive, DrainSwap, Deliver, EndDrain,
     bridgeVars, mailbox, locals, where, MailVars
<1>4. CASE Driver
  BY <1>0, <1>4, DriverKeepsUp DEF Driver
<1>5. CASE UNCHANGED systemBVars
  BY <1>5, OthersKeepUp DEF systemBVars, groupBVars, firmwareVars, locals, bridgeVars, where,
     MailVars
<1> QED
  BY <1>1, <1>2, <1>3, <1>4, <1>5
     DEF SystemBNext, Bridge, RunPhase, CreateThreads, Joined

(***************************************************************************)
(* For every script, any tasks, loops and readings: however the driver's   *)
(* two stores fall between the callback's two loads, the value comm_task   *)
(* is given is at most one command older than the type that came with it.  *)
(***************************************************************************)
THEOREM MixedCommandKeepsUp == SystemBSpec => []CommandKeepsUp
<1>1. SystemBInit => RunInv /\ KeepInv
  BY RunInvInit, KeepInvInit
<1>2. RunInv /\ KeepInv /\ [SystemBNext]_systemBVars => RunInv' /\ KeepInv'
  BY RunInvNext, KeepInvNext
<1>3. KeepInv => CommandKeepsUp
  BY DEF KeepInv, CommandKeepsUp, InUart, Mixed, At
<1> QED
  BY <1>1, <1>2, <1>3, PTL DEF SystemBSpec

-----------------------------------------------------------------------------
(***************************************************************************)
(* The setpoint is tracked, but for the race on the mailbox and for the    *)
(* value that comm_task stores on a reset.                                 *)
(***************************************************************************)
NoItem(types) == \A i \in 1 .. Len(Script) : Script[i].type \notin types

Spares(types) ==
  dvr_command_type \notin types /\ command.type \notin types /\ event_type \notin types

NoReset == Spares({"RESET"})

(* MonitorSeesCommand of one step.                                         *)
SeesCommand ==
  At(COMM, "uart", "push") /\ stage'[COMM] = "consume" =>
    LET event == queue'[Len(queue')] IN
    event.of = command.type /\ event.value = command.value

LEMMA SeenIsHeard ==
  ASSUME "COMM" \in Registered, queue \in Seq(Events), queue' \in Seq(Events), UartRx,
         SeesCommand
  PROVE  CommandHeard
<1> SUFFICES ASSUME At(COMM, "uart", "push"), stage'[COMM] = "consume"
             PROVE  event_type = command.type /\ dvr_command_value = command.value
  BY DEF CommandHeard
<1>1. UartEvent
  BY DEF UartRx, UartStub, UartPoll, UartCheck, UartCopyType, UartCopyValue, UartEventType,
     UartConsume, At
<1> DEFINE e == ValueEvent("COMM", COMM, event_type, dvr_command_value)
<1>2. Push(e) /\ e.type = "COMM" /\ e.of = event_type /\ e.value = dvr_command_value
  BY <1>1 DEF UartEvent, Call, ValueEvent
<1> HIDE DEF e
<1>3. e \in Events /\ queue' = Append(queue, e)
  BY <1>2, PushedIsEvent
<1>4. queue'[Len(queue')] = e
  BY <1>3, AppendProperties
<1> QED
  BY <1>2, <1>4 DEF SeesCommand

LEMMA CommTracks ==
  ASSUME "COMM" \in Registered, RunInv, NoReset, queue' \in Seq(Events), SeesCommand,
         COMM \in Tasks, comm_task_safe
  PROVE  TrackStep
<1>0. /\ WhereTypeOK /\ DataTypeOK /\ queue \in Seq(Events)
      /\ COMM \in AllTasks /\ place \in [AllTasks -> Places] /\ stage \in [AllTasks -> Stages]
  <2>1. WhereTypeOK /\ DataTypeOK /\ BridgeTypeOK
    BY RunInvTypes DEF IInv, WhereInv, DataInv, ChannelTypes
  <2> QED
    BY <2>1 DEF WhereTypeOK, BridgeTypeOK, AllTasks, COMM, LOGGER, ALARM
<1>1. CASE UartRx
  BY <1>0, <1>1, SeenIsHeard, UartTracks
<1>2. ASSUME NEW m \in Shared, Section(COMM, m)
      PROVE  TrackStep
  <2>1. NoCommand /\ UNCHANGED <<command, target_temp>>
    <3>1. NoCommand
      BY <1>2, SectionPosts
    <3>2. UNCHANGED <<globals, locals>>
      BY <1>2 DEF Section, ReadHolder, Lock, MarkAcquired, ReportWait, MarkReleased
    <3> QED
      BY <3>1, <3>2 DEF globals, locals
  <2>2. Owing' <=> Owing
    BY <1>0, <1>2, <2>1 DEF Section, ReadHolder, Lock, MarkAcquired, ReportWait, MarkReleased,
       At, Stay, Owing, Shared
  <2>3. Due' = Due
    BY <2>1, <2>2 DEF Due
  <2> QED
    BY <2>1, <2>3 DEF TrackStep, NoCommand, Tells
<1>3. CASE /\ Access(COMM, "target_temp", "first", "unmark")
           /\ StoreTarget(CommandTarget)
  <2>1. Owing /\ Setpoint(command.type, command.value) = CommandTarget
    BY <1>3 DEF Access, At, Owing, Setpoint, CommandTarget, NoReset, Spares
  <2>2. ~Owing'
    BY <1>0, <1>3 DEF Access, At, Stay, Owing
  <2>3. Due' = Due
    BY <1>3, <2>1, <2>2 DEF StoreTarget, Due
  <2> QED
    BY <1>3, <2>3 DEF StoreTarget, bridgeVars, TrackStep
<1>4. CASE Unlock(COMM, "target_temp") /\ AfterTarget
  <2>1. EndIteration(COMM) /\ UNCHANGED <<target_temp, queue>> /\ ~Owing
    BY <1>4 DEF AfterTarget, NoReset, Spares, Unlock, At, globals, bridgeVars, Owing
  <2> QED
    BY <1>0, <2>1, NothingOwed DEF TrackStep
<1>5. CASE \/ Access(COMM, "system_enabled", "first", "unmark") /\ StoreEnabled
           \/ Unlock(COMM, "system_enabled") /\ EndIteration(COMM)
  <2>1. UNCHANGED <<target_temp, queue>> /\ ~Owing
    BY <1>5 DEF Access, StoreEnabled, Unlock, At, globals, bridgeVars, Owing
  <2>2. Due' = Due
    BY <1>0, <1>5, <2>1, NothingOwed DEF Access, At, Unlock, Stages
  <2> QED
    BY <2>1, <2>2 DEF TrackStep
<1> QED
  BY <1>1, <1>2, <1>3, <1>4, <1>5 DEF comm_task_safe, Shared

(* The target is comm_task's alone.                                        *)
LEMMA OthersKeepTarget ==
  ASSUME NEW t \in Tasks, t # COMM, Thread(t)
  PROVE  UNCHANGED target_temp
<1>1. \A m \in Shared : Section(t, m) => UNCHANGED target_temp
  BY DEF Section, ReadHolder, Lock, MarkAcquired, ReportWait, MarkReleased, globals
<1>2. \A m \in Shared : Unlock(t, m) => UNCHANGED target_temp
  BY DEF Unlock, globals
<1>3. CASE t = SENSOR /\ sensor_task_safe
  BY <1>1, <1>2, <1>3 DEF sensor_task_safe, StoreTemperature, SampleHumidity, StoreHumidity,
     globals, Shared
<1>4. CASE t = CONTROL /\ control_task_safe
  BY <1>1, <1>2, <1>4 DEF control_task_safe, ReadSensorData, LoadTemperature, LoadHumidity,
     LoadTarget, StorePump, StoreFan, ReportControlInputs, PwmSet, GpioWritePump, Call,
     globals, Shared
<1>5. CASE t = ALARM /\ alarm_task_safe
  BY <1>1, <1>2, <1>5 DEF alarm_task_safe, ReadSensorData, LoadTemperature, LoadHumidity,
     StoreAlarm, GpioWriteLed, Call, globals, Shared
<1>6. CASE t = LOGGER /\ logger_task_safe
  BY <1>1, <1>2, <1>6 DEF logger_task_safe, ReadSensorData, LoadTemperature, LoadHumidity,
     LogPump, LogFan, LogAlarm, LogWrite, Call, globals, Shared
<1>7. CASE Finish(t)
  BY <1>7 DEF Finish, SignalDone, Exit, Call, globals
<1> QED
  BY <1>3, <1>4, <1>5, <1>6, <1>7 DEF Thread

LEMMA OthersTrack ==
  ASSUME RunInv, NEW t \in Tasks, t # COMM, Thread(t)
  PROVE  TrackStep
<1>1. LockStep(t) /\ UNCHANGED MailVars /\ NoCommand /\ WhereTypeOK
  BY RunInvTypes, ThreadIsLockStep, OthersPost DEF IInv, WhereInv
<1>2. UNCHANGED <<place[COMM], stage[COMM]>>
  <2>1. COMM \in AllTasks
    BY DEF AllTasks, COMM, LOGGER, ALARM
  <2> QED
    BY <1>1, <2>1, OthersStay DEF WhereTypeOK
<1>3. UNCHANGED target_temp
  BY OthersKeepTarget
<1> QED
  BY <1>1, <1>2, <1>3, ElsewhereTracks DEF MailVars, NoCommand

LEMMA SparesNext ==
  ASSUME COMM \in Tasks => "COMM" \in Registered, NEW types, "NONE" \notin types,
         NoItem(types), RunInv, Spares(types), [SystemBNext]_systemBVars
  PROVE  Spares(types)'
<1>0. BridgeTypeOK /\ command \in [type : CommandTypes, value : Int]
  BY RunInvTypes DEF IInv, DataInv, DataTypeOK, Commands
<1>1. UNCHANGED <<dvr_command_type, command, event_type>> => Spares(types)'
  BY DEF Spares
<1>2. ASSUME NEW t \in Tasks, Dut(t)
      PROVE  Spares(types)'
  <2>1. CASE t # COMM
    BY <1>1, <1>2, <2>1, OthersPost DEF Dut, MailVars
  <2>2. CASE t = COMM
    <3>1. CASE UartRx
      <4>1. CASE UartCopyType
        BY <1>0, <4>1 DEF UartCopyType, Spares, bridgeVars
      <4>2. CASE UartCopyValue
        BY <1>0, <4>2 DEF UartCopyValue, Spares, bridgeVars
      <4>3. CASE UartEventType
        BY <4>3 DEF UartEventType, Spares, bridgeVars
      <4>4. CASE UartPoll \/ UartCheck \/ UartEvent
        BY <1>1, <4>4 DEF UartPoll, UartCheck, UartEvent, Call, locals, bridgeVars, mailbox
      <4>5. CASE UartConsume
        BY <4>5 DEF UartConsume, Spares, locals
      <4> QED
        BY <2>2, <3>1, <4>1, <4>2, <4>3, <4>4, <4>5 DEF UartRx, UartStub
    <3>2. CASE \E m \in Shared : Section(COMM, m)
      BY <1>1, <2>2, <3>2, SectionPosts DEF MailVars
    <3>3. CASE comm_task_safe /\ ~UartRx /\ ~\E m \in Shared : Section(COMM, m)
      BY <1>1, <3>3 DEF comm_task_safe, Access, Unlock, StoreTarget, StoreEnabled, Shared,
         locals, bridgeVars
    <3>4. CASE Finish(COMM)
      BY <1>1, <3>4 DEF Finish, SignalDone, Exit, Call, locals, mailbox
    <3> QED
      BY <1>2, <2>2, <3>1, <3>2, <3>3, <3>4 DEF Dut, Thread, SENSOR, CONTROL, ALARM, LOGGER,
         COMM
  <2> QED
    BY <2>1, <2>2
<1>3. ASSUME NEW t \in Tasks, Spawn(t) \/ SpawnFails(t)
      PROVE  Spares(types)'
  BY <1>1, <1>3 DEF Spawn, SpawnFails, Creation, locals, mailbox
<1>4. CASE (StartPolling \/ Poller) /\ UNCHANGED <<where, globals, locals>>
  BY <1>1, <1>4 DEF StartPolling, Poller, CheckActive, DrainSwap, Deliver, EndDrain,
     bridgeVars, mailbox, locals
<1>5. CASE Driver
  <2>1. CASE InjectType
    <3>1. injected + 1 \in 1 .. Len(Script)
      BY <1>0, <2>1 DEF InjectType, BridgeTypeOK
    <3> QED
      BY <1>5, <2>1, <3>1 DEF InjectType, NoItem, Spares, Driver, locals
  <2>2. CASE InjectValue
    BY <1>1, <1>5, <2>2 DEF InjectValue, Driver, locals
  <2> QED
    BY <1>5, <2>1, <2>2 DEF Driver, CommDriver
<1>6. CASE UNCHANGED systemBVars
  BY <1>1, <1>6 DEF systemBVars, groupBVars, firmwareVars, locals, bridgeVars
<1> QED
  BY <1>2, <1>3, <1>4, <1>5, <1>6 DEF SystemBNext, Bridge, RunPhase, CreateThreads, Joined

LEMMA TrackInvNext ==
  ASSUME "COMM" \in Registered, RunInv, NoReset, TrackInv, [SystemBNext]_systemBVars,
         [SeesCommand]_systemBVars
  PROVE  TrackInv'
<1>0. /\ WhereTypeOK /\ ChannelInv /\ batch \in Seq(Events)
      /\ queue \in Seq(Events) /\ queue' \in Seq(Events)
  <2>1. RunInv'
    BY RunInvNext
  <2>2. BridgeTypeOK' /\ BridgeTypeOK
    BY <2>1 DEF RunInv, FullInv, IInv, DataInv
  <2> QED
    BY <2>2, RunInvTypes DEF IInv, WhereInv, BridgeTypeOK, ChannelInv
<1>1. ASSUME UNCHANGED systemBVars
      PROVE  TrackInv'
  BY <1>1, IdleTracks DEF systemBVars, groupBVars, firmwareVars, dutBridgeVars,
     scoreboardVars, globals, locals, bridgeVars
<1>2. ASSUME NEW t \in Tasks, Dut(t), SeesCommand
      PROVE  TrackInv'
  <2>1. TrackStep
    <3>1. CASE t = COMM /\ Finish(t)
      BY <1>0, <3>1, LifeTracks
    <3>2. CASE t = COMM /\ ~Finish(t)
      BY <1>0, <1>2, <3>2, CommTracks DEF Dut, Thread, COMM, LOGGER, ALARM, SENSOR, CONTROL
    <3>3. CASE t # COMM
      BY <1>2, <3>3, OthersTrack DEF Dut
    <3> QED
      BY <3>1, <3>2, <3>3
  <2> QED
    BY <1>0, <1>2, <2>1, TrackStepTracks DEF Dut
<1>3. ASSUME NEW t \in Tasks, Spawn(t) \/ SpawnFails(t), UNCHANGED dutBridgeVars
      PROVE  TrackInv'
  BY <1>0, <1>3, LifeTracks, TrackStepTracks
<1>4. CASE (StartPolling \/ Poller) /\ UNCHANGED <<where, globals, locals>>
  BY <1>0, <1>4, BridgeTracks
<1>5. CASE Driver
  BY <1>5, IdleTracks DEF Driver, CommDriver, InjectType, InjectValue, dutBridgeVars,
     scoreboardVars, globals, locals
<1> QED
  BY <1>1, <1>2, <1>3, <1>4, <1>5 DEF SystemBNext, Bridge, RunPhase, CreateThreads, Joined

(***************************************************************************)
(* For every script without a reset, any tasks, loops and readings: if the *)
(* monitor sees the commands that comm_task is given, the scoreboard ends  *)
(* with the protected firmware's setpoint.  The race on the mailbox and    *)
(* the value stored on a reset are the only ways to lose it.               *)
(***************************************************************************)
THEOREM SetpointIsTracked ==
  ASSUME "COMM" \in Registered, NoItem({"RESET"})
  PROVE  SystemBSpec /\ MonitorSeesCommand => []SetpointTracked
<1>1. SystemBInit => RunInv /\ NoReset /\ TrackInv
  <2>1. SystemBInit => NoReset
    BY DEF SystemBInit, GroupBInit, FirmwareInit, BridgeInit, NoReset, Spares
  <2> QED
    BY <2>1, RunInvInit, TrackInvInit DEF SystemBInit, GroupBInit
<1>2. RunInv /\ NoReset /\ TrackInv /\ [SystemBNext]_systemBVars /\ [SeesCommand]_systemBVars
        => RunInv' /\ NoReset' /\ TrackInv'
  <2>1. RunInv /\ NoReset /\ [SystemBNext]_systemBVars => NoReset'
    BY SparesNext DEF NoReset
  <2> QED
    BY <2>1, RunInvNext, TrackInvNext
<1>3. RunInv /\ TrackInv => SetpointTracked
  BY RunInvTypes, TrackedAtTheEnd DEF SetpointTracked
<1> QED
  BY <1>1, <1>2, <1>3, PTL DEF SystemBSpec, MonitorSeesCommand, SeesCommand

-----------------------------------------------------------------------------
(***************************************************************************)
(* The types of the testbench: what a thread pushes is an output that its  *)
(* actuator can have, or an event with no output in it.                    *)
(***************************************************************************)
LEMMA SectionUtters ==
  ASSUME NEW t \in Tasks, NEW m \in Shared, Section(t, m)
  PROVE  Utters
BY BridgeIsQuiet, OnlyOutputsHaveRange DEF Section, ReadHolder, Lock, MarkAcquired, ReportWait,
   MarkReleased, Utters

LEMMA ThreadUtters ==
  ASSUME DataInv, NEW t \in Tasks, Thread(t)
  PROVE  Utters
<1> USE DEF Access, Unlock, Shared
<1>1. CASE t = SENSOR /\ sensor_task_safe
  BY <1>1, BridgeIsQuiet, OnlyOutputsHaveRange, SectionUtters
     DEF sensor_task_safe, StoreTemperature, SampleHumidity, StoreHumidity, Utters
<1>2. CASE t = CONTROL /\ control_task_safe
  BY <1>2, BridgeIsQuiet, HalCallsUtter, SectionUtters
     DEF control_task_safe, ReadSensorData, LoadTemperature, LoadHumidity, LoadTarget, StorePump, StoreFan
<1>3. CASE t = ALARM /\ alarm_task_safe
  BY <1>3, BridgeIsQuiet, HalCallsUtter, SectionUtters
     DEF alarm_task_safe, ReadSensorData, LoadTemperature, LoadHumidity, StoreAlarm
<1>4. CASE t = LOGGER /\ logger_task_safe
  BY <1>4, BridgeIsQuiet, HalCallsUtter, SectionUtters
     DEF logger_task_safe, ReadSensorData, LoadTemperature, LoadHumidity, LogPump, LogFan, LogAlarm
<1>5. CASE t = COMM /\ comm_task_safe
  BY <1>5, BridgeIsQuiet, UartUtters, SectionUtters DEF comm_task_safe, StoreTarget, StoreEnabled
<1>6. CASE Finish(t)
  BY <1>6, LifeUtters
<1> QED
  BY <1>1, <1>2, <1>3, <1>4, <1>5, <1>6 DEF Thread

LEMMA BoardInvNext ==
  ASSUME RunInv, BoardInv, [SystemBNext]_systemBVars
  PROVE  BoardInv'
<1>0. ChannelInv /\ DataInv /\ queue \in Seq(Events) /\ queue' \in Seq(Events)
  <2>1. RunInv'
    BY RunInvNext
  <2>2. DataInv /\ BridgeTypeOK /\ BridgeTypeOK' /\ ChannelInv
    BY <2>1 DEF RunInv, FullInv, IInv, DataInv
  <2> QED
    BY <2>2 DEF BridgeTypeOK
<1>1. ASSUME NEW t \in Tasks, Dut(t)
      PROVE  BoardInv'
  BY <1>0, <1>1, ThreadUtters, UtteranceKeepsBoard DEF Dut
<1>2. ASSUME NEW t \in Tasks, Spawn(t) \/ SpawnFails(t), UNCHANGED dutBridgeVars
      PROVE  BoardInv'
  BY <1>0, <1>2, LifeUtters, UtteranceKeepsBoard
<1>3. CASE StartPolling \/ Poller
  BY <1>0, <1>3, PollerKeepsBoard
<1>4. CASE Driver \/ UNCHANGED systemBVars
  <2>1. UNCHANGED <<queue, batch, scoreboardVars>>
    BY <1>4 DEF Driver, CommDriver, InjectType, InjectValue, systemBVars, groupBVars, firmwareVars,
       bridgeVars, dutBridgeVars
  <2> QED
    BY <2>1, IdleKeepsBoard
<1> QED
  BY <1>1, <1>2, <1>3, <1>4 DEF SystemBNext, Bridge, RunPhase, CreateThreads, Joined

(***************************************************************************)
(* For every set of callbacks, of tasks and of readings, any script, any   *)
(* number of loops: the testbench's variables have their types - what is   *)
(* drained are events, the duties and pins judged are in range, and at     *)
(* most one output waits for its other half.                               *)
(***************************************************************************)
THEOREM TestbenchTyped == SystemBSpec => []DutBridgeTypeOK
<1>1. SystemBInit => RunInv /\ BoardInv
  BY RunInvInit, BoardInvInit DEF SystemBInit, GroupBInit
<1>2. RunInv /\ BoardInv /\ [SystemBNext]_systemBVars => RunInv' /\ BoardInv'
  BY RunInvNext, BoardInvNext
<1>3. RunInv /\ BoardInv => DutBridgeTypeOK
  BY BoardInvImplies DEF RunInv
<1> QED
  BY <1>1, <1>2, <1>3, PTL DEF SystemBSpec

-----------------------------------------------------------------------------
(***************************************************************************)
(* What the reference model will make of the outputs.  An output on its    *)
(* way is explained when the scoreboard will know, by the time it comes, a *)
(* pair that gives it: for the LED's state the pair alone, for the pump's  *)
(* also the duty that waits then.                                          *)
(***************************************************************************)
IsLed(e) == e.type = "GPIO" /\ e.of = "LED"

Duty(p) == CalculatedFanDuty(p.temperature, TEMP_TARGET_DEFAULT)
Watered(p) == Bit(ShouldPumpOn(p.humidity))
Lit(p) == Bit(AlarmLedActive(p.temperature, p.humidity))

KnownBy(s, seen, k) == {p \in Pairs : KnownAt(s, seen, p, k)}

Judged(e, known, before, after) ==
  /\ IsFan(e) => after = {e.value}
  /\ IsPump(e) => /\ after = {}
                  /\ \E p \in known : before = {Duty(p)} /\ e.value = Watered(p)
  /\ ~IsFan(e) /\ ~IsPump(e) => after = before
  /\ IsLed(e) => \E p \in known : e.value = Lit(p)

Judgeable(s, seen, waits, writes) == \E fan \in [0 .. Len(s) -> SUBSET Int] :
  /\ fan[0] = waits
  /\ fan[Len(s)] = writes
  /\ \A n \in 1 .. Len(s) : Judged(s[n], KnownBy(s, seen, n - 1), fan[n - 1], fan[n])

LEMMA MoreIsKnown ==
  ASSUME NEW e, NEW known, NEW more, known \subseteq more, NEW before, NEW after,
         Judged(e, known, before, after)
  PROVE  Judged(e, more, before, after)
BY DEF Judged

LEMMA JudgeableAppend ==
  ASSUME NEW s \in Seq(Events), NEW e \in Events, NEW seen, NEW waits, NEW writes,
         NEW next \in SUBSET Int, Judgeable(s, seen, waits, writes),
         Judged(e, KnownBy(s, seen, Len(s)), writes, next)
  PROVE  Judgeable(Append(s, e), seen, waits, next)
<1> DEFINE a == Append(s, e)
<1>1. /\ Len(s) \in Nat /\ Len(a) = Len(s) + 1 /\ a[Len(s) + 1] = e
      /\ \A n \in 1 .. Len(s) : a[n] = s[n]
  BY AppendProperties, LenProperties
<1> HIDE DEF a
<1>2. PICK fan \in [0 .. Len(s) -> SUBSET Int] :
        /\ fan[0] = waits
        /\ fan[Len(s)] = writes
        /\ \A n \in 1 .. Len(s) : Judged(s[n], KnownBy(s, seen, n - 1), fan[n - 1], fan[n])
  BY DEF Judgeable
<1> DEFINE more == [n \in 0 .. Len(a) |-> IF n = Len(a) THEN next ELSE fan[n]]
<1>3. /\ more \in [0 .. Len(a) -> SUBSET Int]
      /\ more[Len(a)] = next
      /\ \A n \in 0 .. Len(s) : more[n] = fan[n]
  BY <1>1
<1> HIDE DEF more
<1>4. \A n \in 0 .. Len(s) : KnownBy(s, seen, n) \subseteq KnownBy(a, seen, n)
  BY <1>1 DEF KnownBy, KnownAt
<1>5. ASSUME NEW n \in 1 .. Len(a)
      PROVE  Judged(a[n], KnownBy(a, seen, n - 1), more[n - 1], more[n])
  <2>1. CASE n \in 1 .. Len(s)
    <3>1. a[n] = s[n] /\ more[n] = fan[n] /\ more[n - 1] = fan[n - 1] /\ n - 1 \in 0 .. Len(s)
      BY <1>1, <1>3, <2>1
    <3>2. Judged(s[n], KnownBy(s, seen, n - 1), fan[n - 1], fan[n])
      BY <1>2, <2>1
    <3> QED
      BY <1>4, <3>1, <3>2, MoreIsKnown
  <2>2. CASE n = Len(a)
    <3>1. /\ a[n] = e /\ more[n] = next /\ more[n - 1] = writes
          /\ n - 1 = Len(s) /\ Len(s) \in 0 .. Len(s)
      BY <1>1, <1>2, <1>3, <2>2
    <3> QED
      BY <1>4, <3>1, MoreIsKnown
  <2> QED
    BY <1>1, <2>1, <2>2
<1>6. more[0] = waits
  BY <1>1, <1>2, <1>3
<1>7. Judgeable(a, seen, waits, next)
  BY <1>3, <1>5, <1>6 DEF Judgeable
<1> QED
  BY <1>7 DEF a

LEMMA JudgeableTail ==
  ASSUME NEW s \in Seq(Events), s # <<>>, NEW seen, NEW now, seen \subseteq now,
         Head(s).type = "SENSOR" => Head(s).pair \in now,
         NEW waits, NEW writes, Judgeable(s, seen, waits, writes)
  PROVE  \E next \in SUBSET Int :
           Judged(Head(s), seen, waits, next) /\ Judgeable(Tail(s), now, next, writes)
<1> DEFINE r == Tail(s)
<1>1. /\ Len(s) \in Nat /\ Len(s) >= 1 /\ Len(r) = Len(s) - 1
      /\ Head(s) = s[1]
      /\ \A n \in 1 .. Len(r) : r[n] = s[n + 1]
  BY HeadTailProperties, LenProperties, EmptySeq
<1> HIDE DEF r
<1>2. PICK fan \in [0 .. Len(s) -> SUBSET Int] :
        /\ fan[0] = waits
        /\ fan[Len(s)] = writes
        /\ \A n \in 1 .. Len(s) : Judged(s[n], KnownBy(s, seen, n - 1), fan[n - 1], fan[n])
  BY DEF Judgeable
<1> DEFINE rest == [n \in 0 .. Len(r) |-> fan[n + 1]]
<1>3. /\ rest \in [0 .. Len(r) -> SUBSET Int]
      /\ rest[0] = fan[1] /\ rest[Len(r)] = fan[Len(s)]
      /\ \A n \in 0 .. Len(r) : rest[n] = fan[n + 1]
  BY <1>1
<1> HIDE DEF rest
<1>4. ASSUME NEW n \in 1 .. Len(s)
      PROVE  KnownBy(s, seen, n) \subseteq KnownBy(r, now, n - 1)
  <2> SUFFICES ASSUME NEW p \in Pairs, KnownAt(s, seen, p, n)
               PROVE  KnownAt(r, now, p, n - 1)
    BY DEF KnownBy
  <2>1. CASE p \in seen
    BY <2>1 DEF KnownAt
  <2>2. ASSUME NEW i \in 1 .. n, s[i].type = "SENSOR", s[i].pair = p
        PROVE  KnownAt(r, now, p, n - 1)
    <3>1. CASE i = 1
      BY <1>1, <2>2, <3>1 DEF KnownAt
    <3>2. CASE i # 1
      <4>1. i - 1 \in 1 .. n - 1 /\ r[i - 1] = s[i]
        BY <1>1, <3>2
      <4> QED
        BY <2>2, <4>1 DEF KnownAt
    <3> QED
      BY <3>1, <3>2
  <2> QED
    BY <2>1, <2>2 DEF KnownAt
<1>5. ASSUME NEW n \in 1 .. Len(r)
      PROVE  Judged(r[n], KnownBy(r, now, n - 1), rest[n - 1], rest[n])
  <2>1. n + 1 \in 1 .. Len(s) /\ n \in 1 .. Len(s) /\ n - 1 \in 0 .. Len(r)
        /\ n \in 0 .. Len(r) /\ (n - 1) + 1 = n /\ (n + 1) - 1 = n
    BY <1>1
  <2>2. r[n] = s[n + 1] /\ rest[n - 1] = fan[n] /\ rest[n] = fan[n + 1]
    BY <1>1, <1>3, <2>1
  <2>3. Judged(s[n + 1], KnownBy(s, seen, (n + 1) - 1), fan[(n + 1) - 1], fan[n + 1])
    BY <1>2, <2>1
  <2>4. Judged(s[n + 1], KnownBy(s, seen, n), fan[n], fan[n + 1])
    BY <2>1, <2>3
  <2> QED
    BY <1>4, <2>1, <2>2, <2>4, MoreIsKnown
<1>6. Judgeable(r, now, fan[1], writes)
  <2>1. rest[0] = fan[1] /\ rest[Len(r)] = writes
    BY <1>2, <1>3
  <2> QED
    BY <1>3, <1>5, <2>1 DEF Judgeable
<1>7. Judged(Head(s), seen, waits, fan[1])
  <2>1. Judged(s[1], KnownBy(s, seen, 1 - 1), fan[1 - 1], fan[1]) /\ 1 - 1 = 0
    BY <1>1, <1>2
  <2>2. KnownBy(s, seen, 0) \subseteq seen
    BY DEF KnownBy, KnownAt
  <2> QED
    BY <1>1, <1>2, <2>1, <2>2, MoreIsKnown
<1>8. fan[1] \in SUBSET Int
  BY <1>1
<1> QED
  BY <1>6, <1>7, <1>8 DEF r
-----------------------------------------------------------------------------
(* A thread only writes its own copies of what it reads.                   *)
LEMMA OwnCopies ==
  ASSUME DataTypeOK, NEW t \in Tasks, Thread(t)
  PROVE  /\ \A u \in Readers \ {t} : view'[u] = view[u]
         /\ t # CONTROL => setpoint' = setpoint
         /\ setpoint' \in {setpoint, target_temp}
<1> USE DEF Access, Unlock, locals, Shared
<1>1. view \in [Readers -> Pairs]
  BY DEF DataTypeOK
<1>2. \A m \in Shared : Section(t, m) => UNCHANGED locals
  BY DEF Section, ReadHolder, Lock, MarkAcquired, ReportWait, MarkReleased
<1>3. CASE UNCHANGED <<view, setpoint>>
  BY <1>3
<1>4. CASE t \in Readers /\ (LoadTemperature(t) \/ LoadHumidity(t))
  BY <1>1, <1>4 DEF LoadTemperature, LoadHumidity
<1>5. CASE t = CONTROL /\ LoadTarget
  BY <1>5 DEF LoadTarget
<1>6. LOGGER \in Readers /\ CONTROL \in Readers /\ ALARM \in Readers
  BY DEF Readers
<1>7. CASE t = SENSOR /\ sensor_task_safe
  BY <1>2, <1>3, <1>7 DEF sensor_task_safe, StoreTemperature, SampleHumidity, StoreHumidity
<1>8. CASE t = CONTROL /\ control_task_safe
  BY <1>2, <1>3, <1>4, <1>5, <1>6, <1>8 DEF control_task_safe, ReadSensorData, StorePump,
     StoreFan, ReportControlInputs, PwmSet, GpioWritePump, Call
<1>9. CASE t = ALARM /\ alarm_task_safe
  BY <1>2, <1>3, <1>4, <1>6, <1>9 DEF alarm_task_safe, ReadSensorData, StoreAlarm,
     GpioWriteLed, Call
<1>10. CASE t = LOGGER /\ logger_task_safe
  BY <1>2, <1>3, <1>4, <1>6, <1>10 DEF logger_task_safe, ReadSensorData, LogPump, LogFan,
     LogAlarm, LogWrite, Call
<1>11. CASE t = COMM /\ comm_task_safe
  <2>1. CASE UartRx
    BY <1>3, <2>1 DEF UartRx, UartStub, UartPoll, UartCheck, UartCopyType, UartCopyValue,
       UartEventType, UartEvent, UartConsume, Call
  <2> QED
    BY <1>2, <1>3, <1>11, <2>1 DEF comm_task_safe, StoreTarget, StoreEnabled
<1>12. CASE Finish(t)
  BY <1>3, <1>12 DEF Finish, SignalDone, Exit, Call
<1> QED
  BY <1>7, <1>8, <1>9, <1>10, <1>11, <1>12 DEF Thread

-----------------------------------------------------------------------------
(* A task that has copied sensor_data and not yet put out what follows     *)
(* from it.                                                                *)
Informed(t) ==
  \/ place[t] \in {"target_temp", "report", "actuators", "pwm", "gpio_pump",
                   "alarm_state", "gpio_led"}
  \/ place[t] = "sensor_data" /\ stage[t] \in {"unmark", "unlock"}

Judges == {CONTROL, ALARM}

InformStep(t) ==
  \/ (Informed(t)' => Informed(t)) /\ view'[t] = view[t]
  \/ ~Informed(t)'
  \/ Access(t, "sensor_data", "second", "unmark") /\ LoadHumidity(t)

LEMMA JudgeInforms ==
  ASSUME IInv, NEW t \in Judges, t \in Tasks, Thread(t)
  PROVE  InformStep(t)
<1> USE DEF InformStep
<1>0. /\ place \in [AllTasks -> Places] /\ stage \in [AllTasks -> Stages]
      /\ t \in AllTasks /\ Start(t) = "sensor_data" /\ Entry("sensor_data") = "holder"
  BY GroupBAssumption DEF IInv, WhereInv, WhereTypeOK, AllTasks, Judges, CONTROL, ALARM,
     LOGGER, COMM, Start, Entry, Shared
<1>1. ASSUME NEW m \in Shared, Section(t, m)
      PROVE  InformStep(t)
  <2>1. view' = view
    BY <1>1 DEF Section, ReadHolder, Lock, MarkAcquired, ReportWait, MarkReleased, locals
  <2>2. Informed(t)' => Informed(t)
    BY <1>0, <1>1 DEF Section, ReadHolder, Lock, MarkAcquired, ReportWait, MarkReleased,
       At, Stay, Informed
  <2> QED
    BY <2>1, <2>2
<1>2. ASSUME EndIteration(t)
      PROVE  ~Informed(t)'
  BY <1>0, <1>2 DEF EndIteration, Informed, Entry, Shared
<1>3. ASSUME UNCHANGED view, Informed(t)
      PROVE  InformStep(t)
  BY <1>3
<1>4. CASE ReadSensorData(t)
  <2>1. CASE Access(t, "sensor_data", "first", "second")
    BY <1>0, <2>1 DEF Access, At, Stay, Informed
  <2> QED
    BY <1>1, <1>4, <2>1 DEF ReadSensorData, Shared
<1>5. ASSUME NEW m \in {"sensor_data", "target_temp", "actuators", "alarm_state"}, Unlock(t, m)
      PROVE  InformStep(t)
  BY <1>3, <1>5 DEF Unlock, At, Informed, locals
<1>6. ASSUME NEW m \in {"target_temp", "actuators", "alarm_state"}, NEW s, NEW next,
             Access(t, m, s, next), LoadTarget \/ StorePump \/ StoreFan \/ StoreAlarm
      PROVE  InformStep(t)
  BY <1>3, <1>6 DEF Access, At, Informed, LoadTarget, StorePump, StoreFan, StoreAlarm, locals
<1>7. CASE t = CONTROL /\ control_task_safe
  <2>1. CASE ReportControlInputs \/ PwmSet
    BY <1>3, <1>7, <2>1 DEF ReportControlInputs, PwmSet, At, Informed, Call, locals
  <2>2. CASE GpioWritePump
    BY <1>2, <1>7, <2>2 DEF GpioWritePump
  <2> QED
    BY <1>1, <1>4, <1>5, <1>6, <1>7, <2>1, <2>2 DEF control_task_safe, Shared
<1>8. CASE t = ALARM /\ alarm_task_safe
  <2>1. CASE GpioWriteLed
    BY <1>2, <1>8, <2>1 DEF GpioWriteLed
  <2> QED
    BY <1>1, <1>4, <1>5, <1>6, <1>8, <2>1 DEF alarm_task_safe, Shared
<1>9. CASE Finish(t)
  BY <1>0, <1>9 DEF Finish, SignalDone, Exit, Goto, Informed
<1> QED
  BY <1>7, <1>8, <1>9 DEF Thread, Judges, CONTROL, ALARM, SENSOR, LOGGER, COMM

InformedInv == \A t \in Judges : Informed(t) => Known(view[t])

(* A pair that is known stays known, whatever is pushed.                   *)
LEMMA KnownStays ==
  ASSUME batch \in Seq(Events), queue \in Seq(Events), queue' \in Seq(Events),
         UNCHANGED <<batch, seen_pairs>>, UNCHANGED queue \/ \E e : Push(e),
         NEW pair, Known(pair)
  PROVE  KnownAt(Stream', seen_pairs', pair, Len(Stream'))
<1>1. CASE UNCHANGED queue
  <2>1. Stream' = Stream /\ seen_pairs' = seen_pairs
    BY <1>1 DEF Stream
  <2> QED
    BY <2>1 DEF Known
<1>2. ASSUME NEW e, Push(e)
      PROVE  KnownAt(Stream', seen_pairs', pair, Len(Stream'))
  <2>1. InOrder(Stream, seen_pairs, {})
    BY DEF InOrder
  <2> QED
    BY <1>2, <2>1, PushedEvent
<1> QED
  BY <1>1, <1>2

(* Every step of a thread pushes at most one event.                        *)
LEMMA ThreadPushes ==
  ASSUME WhereTypeOK, NEW t \in Tasks, Thread(t)
  PROVE  UNCHANGED queue \/ \E e : Push(e)
BY ThreadIsFanStep DEF FanStep, Aside

LEMMA ThreadKeepsInformed ==
  ASSUME SystemInv, InformedInv, NEW u \in Tasks, Thread(u), queue' \in Seq(Events),
         UNCHANGED dutBridgeVars
  PROVE  InformedInv'
<1>0. /\ FullInv /\ IInv /\ WhereTypeOK /\ DataTypeOK
      /\ place \in [AllTasks -> Places] /\ stage \in [AllTasks -> Stages]
      /\ batch \in Seq(Events) /\ queue \in Seq(Events)
      /\ UNCHANGED <<batch, seen_pairs>>
  BY DEF SystemInv, FullInv, CoherenceInv, IInv, WhereInv, WhereTypeOK, DataInv,
     BridgeTypeOK, dutBridgeVars, scoreboardVars
<1>1. \A pair : Known(pair) => KnownAt(Stream', seen_pairs', pair, Len(Stream'))
  BY <1>0, ThreadPushes, KnownStays
<1> SUFFICES ASSUME NEW t \in Judges, Informed(t)'
             PROVE  Known(view[t])'
  BY DEF InformedInv
<1>2. t \in AllTasks /\ t \in Readers /\ t # SENSOR /\ SENSOR \in AllTasks
  BY DEF Judges, AllTasks, Readers, CONTROL, ALARM, LOGGER, SENSOR
<1>3. CASE Informed(t) /\ view'[t] = view[t]
  <2>1. Known(view[t])
    BY <1>3 DEF InformedInv
  <2> QED
    BY <1>1, <1>3, <2>1 DEF Known
<1>4. CASE u # t
  <2>1. place'[t] = place[t] /\ stage'[t] = stage[t]
    BY <1>0, <1>2, <1>4, ThreadIsLockStep, OthersStay
  <2>2. view'[t] = view[t]
    BY <1>0, <1>2, <1>4, OwnCopies
  <2> QED
    BY <1>3, <2>1, <2>2 DEF Informed
<1>5. CASE u = t /\ Access(t, "sensor_data", "second", "unmark") /\ LoadHumidity(t)
  <2>1. /\ Between(t, "sensor_data") /\ InSection(t)
    BY <1>5 DEF Access, At, Between, InSection, Shared
  <2>2. ~Between(SENSOR, "sensor_data")
    <3>1. MutualExclusion
      BY <1>0, LockInvImplies DEF IInv
    <3> QED
      BY <1>2, <2>1, <3>1 DEF MutualExclusion, InSection, Between, Shared
  <2>3. view[t].temperature = sensor_data.temperature
    BY <1>0, <1>2, <2>1 DEF FullInv, HalfInv
  <2>4. view'[t] = sensor_data /\ UNCHANGED sensor_data
    BY <1>0, <1>2, <1>5, <2>3 DEF LoadHumidity, globals, DataTypeOK, Pairs
  <2>5. Known(sensor_data)
    BY <2>2 DEF SystemInv, CoherenceInv
  <2> QED
    BY <1>1, <2>4, <2>5 DEF Known
<1>6. CASE u = t /\ (Informed(t)' => Informed(t)) /\ view'[t] = view[t]
  BY <1>3, <1>6
<1> QED
  BY <1>0, <1>4, <1>5, <1>6, JudgeInforms DEF InformStep

(* The creation of a thread and the steps of the testbench.                *)
LEMMA IdleKeepsInformed ==
  ASSUME InformedInv, \A t \in Judges : Informed(t)' => Informed(t), UNCHANGED view,
         \A pair : Known(pair) => KnownAt(Stream', seen_pairs', pair, Len(Stream'))
  PROVE  InformedInv'
<1> SUFFICES ASSUME NEW t \in Judges, Informed(t)'
             PROVE  Known(view[t])'
  BY DEF InformedInv
<1>1. Known(view[t])
  BY DEF InformedInv
<1> QED
  BY <1>1 DEF Known

LEMMA CreationInforms ==
  ASSUME WhereTypeOK, NEW t \in Tasks, Spawn(t) \/ SpawnFails(t)
  PROVE  \A u \in Judges : Informed(u)' => Informed(u)
<1>1. PICK p \in {"failed", "sensor_data", "uart"} :
        /\ place' = [place EXCEPT ![t] = p]
        /\ stage' = [stage EXCEPT ![t] = Entry(p)]
  BY DEF Spawn, SpawnFails, Creation, Goto, Start
<1>2. Entry(p) \notin {"unmark", "unlock"}
  BY DEF Entry
<1> QED
  BY <1>1, <1>2 DEF Informed, WhereTypeOK, Judges, AllTasks, CONTROL, ALARM, LOGGER
-----------------------------------------------------------------------------
(***************************************************************************)
(* A setpoint that stays: no command that moves it is sent, so that        *)
(* firmware and scoreboard keep the default.                               *)
(***************************************************************************)
Settings == {"TARGET", "RESET"}

SettledInv ==
  /\ place[COMM] # "target_temp"
  /\ target_temp = TEMP_TARGET_DEFAULT
  /\ setpoint = TEMP_TARGET_DEFAULT
  /\ modeled_target_temp = TEMP_TARGET_DEFAULT
  /\ \A k \in 1 .. Len(Stream) : ~Tells(Stream[k])

Untold == UNCHANGED queue \/ \E e : Push(e) /\ ~Tells(e)

SettledStep ==
  /\ UNCHANGED target_temp /\ setpoint' \in {setpoint, target_temp}
  /\ place'[COMM] = "target_temp" => place[COMM] = "target_temp"
  /\ Untold

LEMMA CommSettles ==
  ASSUME "COMM" \in Registered, WhereTypeOK, Spares(Settings), COMM \in Tasks,
         place[COMM] # "target_temp", comm_task_safe
  PROVE  /\ UNCHANGED target_temp
         /\ place'[COMM] # "target_temp"
         /\ Untold
<1>0. COMM \in AllTasks /\ place \in [AllTasks -> Places]
  BY DEF WhereTypeOK, AllTasks, COMM, LOGGER, ALARM
<1>1. EndIteration(COMM) => place'[COMM] # "target_temp"
  BY <1>0 DEF EndIteration, Start
<1>2. \A s : Stay(COMM, s) => place'[COMM] # "target_temp"
  BY DEF Stay
<1>3. CASE UartRx
  <2>1. UNCHANGED target_temp
    BY <1>3 DEF UartRx, UartStub, UartPoll, UartCheck, UartCopyType, UartCopyValue,
       UartEventType, UartEvent, UartConsume, Call, globals
  <2>2. Dispatch(command.type) => place'[COMM] # "target_temp"
    BY <1>0, <1>1 DEF Dispatch, Goto, Spares, Settings
  <2>3. place'[COMM] # "target_temp"
    BY <1>1, <1>2, <1>3, <2>2 DEF UartRx, UartStub, UartPoll, UartCheck, UartCopyType,
       UartCopyValue, UartEventType, UartEvent, UartConsume
  <2>4. ~Tells(ValueEvent("COMM", COMM, event_type, dvr_command_value))
        /\ ~Tells(SignalEvent("HEARTBEAT", COMM))
    BY DEF Tells, ValueEvent, SignalEvent, Spares, Settings
  <2>5. Untold
    BY <1>3, <2>4 DEF UartRx, UartStub, UartPoll, UartCheck, UartCopyType, UartCopyValue,
       UartEventType, UartEvent, UartConsume, Call, bridgeVars, Untold
  <2> QED
    BY <2>1, <2>3, <2>5
<1>4. ASSUME NEW m \in Shared, Section(COMM, m)
      PROVE  /\ UNCHANGED target_temp
             /\ place'[COMM] # "target_temp"
             /\ Untold
  <2>1. NoCommand
    BY <1>4, SectionPosts
  <2> QED
    BY <1>2, <1>4, <2>1 DEF Section, ReadHolder, Lock, MarkAcquired, ReportWait, MarkReleased,
       globals, NoCommand, Untold, Tells
<1>5. CASE Access(COMM, "system_enabled", "first", "unmark") /\ StoreEnabled
  BY <1>2, <1>5 DEF Access, StoreEnabled, bridgeVars, Untold
<1>6. CASE Unlock(COMM, "system_enabled") /\ EndIteration(COMM)
  BY <1>1, <1>6 DEF Unlock, globals, bridgeVars, Untold
<1> QED
  BY <1>3, <1>4, <1>5, <1>6 DEF comm_task_safe, Access, Unlock, At, Shared

LEMMA ThreadSettles ==
  ASSUME COMM \in Tasks => "COMM" \in Registered, RunInv, Spares(Settings),
         place[COMM] # "target_temp", NEW t \in Tasks, Thread(t)
  PROVE  SettledStep
<1>0. WhereTypeOK /\ DataTypeOK
  BY RunInvTypes DEF IInv, WhereInv, DataInv
<1>1. setpoint' \in {setpoint, target_temp}
  BY <1>0, OwnCopies
<1>2. COMM \in AllTasks /\ place \in [AllTasks -> Places] /\ stage \in [AllTasks -> Stages]
  BY <1>0 DEF WhereTypeOK, AllTasks, COMM, LOGGER, ALARM
<1>3. NoCommand => Untold
  BY DEF NoCommand, Untold, Tells
<1>4. CASE t # COMM
  BY <1>0, <1>1, <1>2, <1>3, <1>4, OthersKeepTarget, OthersPost, OthersStay, ThreadIsLockStep
     DEF SettledStep
<1>5. CASE t = COMM /\ comm_task_safe
  BY <1>0, <1>1, <1>5, CommSettles DEF SettledStep
<1>6. CASE t = COMM /\ Finish(t)
  <2>1. place'[COMM] # "target_temp"
    BY <1>2, <1>6 DEF Finish, SignalDone, Exit, Goto
  <2>2. ~Tells(SignalEvent("TASK_DONE", COMM))
    BY DEF Tells, SignalEvent, ValueEvent
  <2> QED
    BY <1>1, <1>6, <2>1, <2>2 DEF Finish, SignalDone, Exit, Call, SettledStep, Untold, globals
<1> QED
  BY <1>4, <1>5, <1>6 DEF Thread, COMM, LOGGER, SENSOR, CONTROL, ALARM

LEMMA StepKeepsSettled ==
  ASSUME SettledInv, SettledStep, batch \in Seq(Events), queue \in Seq(Events),
         queue' \in Seq(Events), UNCHANGED dutBridgeVars
  PROVE  SettledInv'
<1>1. UNCHANGED <<batch, modeled_target_temp>>
  BY DEF dutBridgeVars, scoreboardVars
<1>2. \A k \in 1 .. Len(Stream') : ~Tells(Stream'[k])
  <2>1. CASE UNCHANGED queue
    <3>1. Stream' = Stream
      BY <1>1, <2>1 DEF Stream
    <3> QED
      BY <3>1 DEF SettledInv
  <2>2. ASSUME NEW e, Push(e), ~Tells(e), e.type \in Registered
        PROVE  \A k \in 1 .. Len(Stream') : ~Tells(Stream'[k])
    <3>1. e \in Events /\ queue' = Append(queue, e)
      BY <2>2, PushedIsEvent
    <3>2. Stream \in Seq(Events) /\ Stream' = Append(Stream, e)
      BY <1>1, <3>1, StreamOf DEF Stream
    <3> HIDE DEF Stream
    <3>3. /\ Len(Stream) \in Nat /\ Len(Stream') = Len(Stream) + 1
          /\ Stream'[Len(Stream) + 1] = e
          /\ \A k \in 1 .. Len(Stream) : Stream'[k] = Stream[k]
      BY <3>1, <3>2, AppendProperties, LenProperties
    <3> QED
      BY <2>2, <3>3 DEF SettledInv
  <2>3. ASSUME NEW e, Push(e), e.type \notin Registered
        PROVE  UNCHANGED queue
    BY <2>3 DEF Push
  <2> QED
    BY <2>1, <2>2, <2>3 DEF SettledStep, Untold
<1> QED
  BY <1>1, <1>2 DEF SettledInv, SettledStep

LEMMA DeliverKeepsSettled ==
  ASSUME SettledInv, Deliver, batch \in Seq(Events), queue \in Seq(Events),
         UNCHANGED <<where, globals, locals>>
  PROVE  SettledInv'
<1>1. /\ Stream \in Seq(Events) /\ Stream # <<>> /\ Head(Stream) = Head(batch)
      /\ Stream' = Tail(Stream) /\ WriteEvent(Head(Stream))
  BY StreamOf DEF Deliver, Stream, bridgeVars
<1>2. UNCHANGED <<place, target_temp, setpoint>>
  BY DEF where, globals, locals
<1>3. \A k \in 1 .. Len(Stream) : ~Tells(Stream[k])
  BY DEF SettledInv
<1> HIDE DEF Stream
<1>4. /\ Len(Stream) \in Nat /\ Len(Stream) >= 1 /\ Len(Stream') = Len(Stream) - 1
      /\ Head(Stream) = Stream[1]
      /\ \A k \in 1 .. Len(Stream') : Stream'[k] = Stream[k + 1]
  BY <1>1, HeadTailProperties, LenProperties, EmptySeq
<1>5. \A k \in 1 .. Len(Stream') : ~Tells(Stream'[k])
  BY <1>3, <1>4
<1>6. ~Tells(Head(Stream))
  BY <1>3, <1>4
<1>7. modeled_target_temp' = modeled_target_temp
  BY <1>1, <1>6 DEF WriteEvent, Tells, WriteSensor, WriteControlInput, WritePwm,
     WriteGpioPump, WriteGpioLed, WriteComm, WriteOther, scoreboardVars
<1> QED
  BY <1>2, <1>5, <1>7 DEF SettledInv

LEMMA IdleKeepsSettled ==
  ASSUME SettledInv, UNCHANGED <<target_temp, setpoint, Stream, scoreboardVars>>,
         place'[COMM] = "target_temp" => place[COMM] = "target_temp"
  PROVE  SettledInv'
<1>1. UNCHANGED modeled_target_temp /\ Stream' = Stream
  BY DEF scoreboardVars
<1> QED
  BY <1>1 DEF SettledInv
-----------------------------------------------------------------------------
(***************************************************************************)
(* The outputs.  While the pump's turn lasts the duty that was put out is  *)
(* the one control_task's copies give.                                     *)
(***************************************************************************)
Waiting == IF PumpsTurn THEN {FanOutput} ELSE {}

JudgeInv == Judgeable(Stream, seen_pairs, pending_fan, Waiting)

JudgeStep ==
  \/ UNCHANGED queue /\ Waiting' = Waiting
  \/ \E e : Push(e) /\ Judged(e, KnownBy(Stream, seen_pairs, Len(Stream)), Waiting, Waiting')

LEMMA WaitingStays ==
  ASSUME WhereTypeOK, DataTypeOK, NEW t \in Tasks, Thread(t),
         t = CONTROL => ~PwmSet /\ ~GpioWritePump
  PROVE  Waiting' = Waiting
<1>0. CONTROL \in AllTasks /\ CONTROL \in Readers
      /\ place \in [AllTasks -> Places] /\ stage \in [AllTasks -> Stages]
  BY DEF WhereTypeOK, AllTasks, Readers, CONTROL, LOGGER, ALARM
<1>1. CASE t # CONTROL
  <2>1. place'[CONTROL] = place[CONTROL]
    BY <1>0, <1>1, OthersStay, ThreadIsLockStep
  <2>2. view'[CONTROL] = view[CONTROL] /\ setpoint' = setpoint
    BY <1>0, <1>1, OwnCopies
  <2> QED
    BY <2>1, <2>2 DEF Waiting, PumpsTurn, FanOutput
<1>2. CASE t = CONTROL
  <2>1. PumpsTurn' <=> PumpsTurn
    BY <1>2, ControlPlaces
  <2>2. ~PumpsTurn
    <3>1. CASE control_task_safe
      BY <1>2, <3>1 DEF control_task_safe, ReadSensorData, Section, ReadHolder, Lock,
         MarkAcquired, ReportWait, MarkReleased, Access, Unlock, ReportControlInputs, At, PumpsTurn
    <3>2. CASE Finish(CONTROL)
      BY <3>2 DEF Finish, SignalDone, Exit, At, PumpsTurn
    <3> QED
      BY <1>2, <3>1, <3>2 DEF Thread, CONTROL, SENSOR, ALARM, LOGGER, COMM
  <2> QED
    BY <2>1, <2>2 DEF Waiting
<1> QED
  BY <1>1, <1>2

LEMMA ThreadIsJudged ==
  ASSUME IInv, SettledInv, InformedInv, NEW t \in Tasks, Thread(t)
  PROVE  JudgeStep
<1>0. /\ WhereTypeOK /\ DataTypeOK /\ CONTROL \in AllTasks
      /\ place \in [AllTasks -> Places]
      /\ view \in [Readers -> Pairs] /\ ALARM \in Readers /\ CONTROL \in Readers
  BY DEF IInv, WhereInv, WhereTypeOK, DataInv, DataTypeOK, AllTasks, Readers, CONTROL,
     LOGGER, ALARM
<1> DEFINE known == KnownBy(Stream, seen_pairs, Len(Stream))
<1>1. \A p \in Pairs : Known(p) => p \in known
  BY DEF Known, KnownBy
<1> HIDE DEF known
<1>2. CASE PwmSet
  <2> DEFINE e == ValueEvent("PWM", CONTROL, "FAN", FanOutput)
  <2>1. Push(e) /\ UNCHANGED <<view, setpoint>> /\ PumpsTurn'
    BY <1>0, <1>2 DEF PwmSet, Call, Goto, PumpsTurn, locals
  <2>2. Waiting' = {FanOutput}
    BY <2>1 DEF Waiting, FanOutput
  <2>3. Judged(e, known, Waiting, Waiting')
    BY <2>2 DEF Judged, IsFan, IsPump, IsLed, ValueEvent
  <2> HIDE DEF e
  <2> QED
    BY <2>1, <2>3 DEF JudgeStep, known
<1>3. CASE GpioWritePump
  <2> DEFINE e == ValueEvent("GPIO", CONTROL, "PUMP", Bit(PumpOutput))
             p == view[CONTROL]
  <2>1. Push(e) /\ PumpsTurn /\ ~PumpsTurn'
    BY <1>0, <1>3 DEF GpioWritePump, Call, EndIteration, Start, PumpsTurn, At
  <2>2. p \in known
    <3>1. Informed(CONTROL) /\ CONTROL \in Judges
      BY <2>1 DEF Informed, PumpsTurn, Judges
    <3> QED
      BY <1>0, <1>1, <3>1 DEF InformedInv
  <2>3. Waiting = {Duty(p)} /\ Waiting' = {} /\ Bit(PumpOutput) = Watered(p)
    BY <2>1 DEF Waiting, FanOutput, Duty, Watered, PumpOutput, SettledInv
  <2>4. e.type = "GPIO" /\ e.of = "PUMP" /\ e.value = Bit(PumpOutput)
    BY DEF ValueEvent
  <2> HIDE DEF e, p
  <2>5. Judged(e, known, Waiting, Waiting')
    BY <2>2, <2>3, <2>4 DEF Judged, IsFan, IsPump, IsLed
  <2> QED
    BY <2>1, <2>5 DEF JudgeStep, known
<1>4. CASE t = ALARM /\ GpioWriteLed
  <2> DEFINE p == view[ALARM]
             e == ValueEvent("GPIO", ALARM, "LED", Bit(AlarmLedActive(p.temperature, p.humidity)))
  <2>1. Push(e)
    BY <1>4 DEF GpioWriteLed, Call
  <2>2. p \in known
    <3>1. Informed(ALARM) /\ ALARM \in Judges
      BY <1>4 DEF GpioWriteLed, At, Informed, Judges
    <3> QED
      BY <1>0, <1>1, <3>1 DEF InformedInv
  <2>3. Waiting' = Waiting
    BY <1>0, <1>4, WaitingStays DEF ALARM, CONTROL
  <2>4. e.type = "GPIO" /\ e.of = "LED" /\ e.value = Lit(p)
    BY DEF ValueEvent, Lit
  <2> HIDE DEF e, p
  <2>5. Judged(e, known, Waiting, Waiting')
    BY <2>2, <2>3, <2>4 DEF Judged, IsFan, IsPump, IsLed
  <2> QED
    BY <2>1, <2>5 DEF JudgeStep, known
<1>5. CASE NoOutput /\ (t = CONTROL => ~PwmSet /\ ~GpioWritePump)
  <2>1. Waiting' = Waiting
    BY <1>0, <1>5, WaitingStays
  <2>2. \A e : e.type \notin {"PWM", "GPIO"} => Judged(e, known, Waiting, Waiting')
    BY <2>1 DEF Judged, IsFan, IsPump, IsLed
  <2> QED
    BY <1>5, <2>1, <2>2 DEF NoOutput, JudgeStep, known
<1> QED
  BY <1>2, <1>3, <1>4, <1>5, ThreadOutputs

LEMMA StepKeepsJudge ==
  ASSUME {"PWM", "GPIO"} \subseteq Registered, JudgeInv, JudgeStep,
         batch \in Seq(Events), queue \in Seq(Events), queue' \in Seq(Events),
         UNCHANGED <<batch, seen_pairs, pending_fan>>, DataTypeOK'
  PROVE  JudgeInv'
<1>1. Stream \in Seq(Events)
  BY StreamOf DEF Stream
<1>2. ASSUME UNCHANGED queue, Waiting' = Waiting
      PROVE  JudgeInv'
  <2>1. Stream' = Stream
    BY <1>2 DEF Stream
  <2> QED
    BY <1>2, <2>1 DEF JudgeInv
<1>3. Waiting' \in SUBSET Int
  <2>1. FanOutput' \in Int
    <3>1. /\ view'[CONTROL].temperature \in Int /\ setpoint' \in Int
      BY DEF DataTypeOK, Pairs, Readers
    <3>2. CalculatedFanDuty(view'[CONTROL].temperature, setpoint') \in 0 .. 100
      BY <3>1, FanDutyRange DEF FAN_SPEED_MAX
    <3>3. FanOutput' = CalculatedFanDuty(view'[CONTROL].temperature, setpoint')
      BY DEF FanOutput
    <3> QED
      BY <3>2, <3>3
  <2> QED
    BY <2>1 DEF Waiting
<1>4. ASSUME NEW e, Push(e),
             Judged(e, KnownBy(Stream, seen_pairs, Len(Stream)), Waiting, Waiting')
      PROVE  JudgeInv'
  <2>1. CASE e.type \notin Registered
    <3>1. ~IsFan(e) /\ ~IsPump(e)
      BY <2>1 DEF IsFan, IsPump
    <3> QED
      BY <1>2, <1>4, <2>1, <3>1 DEF Judged, Push
  <2>2. CASE e.type \in Registered
    <3>1. queue' = Append(queue, e) /\ e \in Events
      BY <1>4, <2>2, PushedIsEvent
    <3>2. Stream' = Append(Stream, e)
      BY <3>1, StreamOf DEF Stream
    <3> HIDE DEF Stream
    <3>3. Judgeable(Append(Stream, e), seen_pairs, pending_fan, Waiting')
      BY <1>1, <1>3, <1>4, <3>1, JudgeableAppend DEF JudgeInv
    <3> QED
      BY <3>2, <3>3 DEF JudgeInv
  <2> QED
    BY <2>1, <2>2
<1> QED
  BY <1>2, <1>4 DEF JudgeStep

(* What waits at the scoreboard is what the stream says will wait.         *)
LEMMA WriteIsJudged ==
  ASSUME NEW e, WriteEvent(e), NEW known, NEW next, pending_pump = {},
         Judged(e, known, pending_fan, next)
  PROVE  pending_fan' = next
<1>1. CASE IsFan(e)
  BY <1>1 DEF WriteEvent, IsFan, Judged, WritePwm
<1>2. CASE IsPump(e)
  <2>1. WriteGpioPump(e.value) /\ next = {}
    BY <1>2 DEF WriteEvent, IsPump, Judged
  <2> QED
    BY <2>1 DEF WriteGpioPump
<1>3. CASE ~IsFan(e) /\ ~IsPump(e)
  <2>1. UNCHANGED pending_fan
    BY <1>3 DEF IsFan, IsPump, WriteEvent, WriteSensor, WriteControlInput,
       WriteGpioLed, WriteComm, WriteOther, scoreboardVars
  <2> QED
    BY <1>3, <2>1 DEF Judged
<1> QED
  BY <1>1, <1>2, <1>3

LEMMA DeliverKeepsJudge ==
  ASSUME JudgeInv, pending_pump = {}, Deliver, batch \in Seq(Events), queue \in Seq(Events),
         UNCHANGED <<where, globals, locals>>
  PROVE  /\ JudgeInv'
         /\ Judged(Head(batch), seen_pairs, pending_fan, pending_fan')
<1>1. /\ Stream \in Seq(Events) /\ Stream # <<>> /\ Head(Stream) = Head(batch)
      /\ Stream' = Tail(Stream) /\ WriteEvent(Head(batch))
  BY StreamOf DEF Deliver, Stream, bridgeVars
<1>2. Waiting' = Waiting
  BY DEF where, locals, Waiting, PumpsTurn, FanOutput
<1>3. seen_pairs \subseteq seen_pairs'
      /\ (Head(Stream).type = "SENSOR" => Head(Stream).pair \in seen_pairs')
  BY <1>1, WriteSeen
<1> HIDE DEF Stream
<1>4. PICK next \in SUBSET Int : /\ Judged(Head(Stream), seen_pairs, pending_fan, next)
                                 /\ Judgeable(Tail(Stream), seen_pairs', next, Waiting)
  BY <1>1, <1>3, JudgeableTail DEF JudgeInv
<1>5. pending_fan' = next
  BY <1>1, <1>4, WriteIsJudged
<1> QED
  BY <1>1, <1>2, <1>4, <1>5 DEF JudgeInv

LEMMA IdleKeepsJudge ==
  ASSUME JudgeInv, UNCHANGED <<Stream, scoreboardVars, view, setpoint>>, PumpsTurn' <=> PumpsTurn
  PROVE  JudgeInv'
<1>1. Waiting' = Waiting /\ UNCHANGED <<seen_pairs, pending_fan>> /\ Stream' = Stream
  BY DEF Waiting, FanOutput, scoreboardVars
<1> QED
  BY <1>1 DEF JudgeInv
-----------------------------------------------------------------------------
(***************************************************************************)
(* The window.  A loop of sensor_task makes one reading, so that the       *)
(* readings on their way and in the window are no more than the loops, and *)
(* a window that holds as many never forgets one.                          *)
(***************************************************************************)
HasRead == place[SENSOR] = "sensor_data" /\ stage[SENSOR] \in {"second", "unmark", "unlock"}

Carried == Cardinality(Sent("SENSOR", Stream))

WindowInv ==
  /\ Len(recent_snapshots) + Carried <= iter[SENSOR] + 1
  /\ ~HasRead => Len(recent_snapshots) + Carried <= iter[SENSOR]
  /\ seen_pairs \subseteq Snapshots \cup {NoPair}

NoReading == UNCHANGED queue \/ \E e : Push(e) /\ e.type # "SENSOR"

WindowStep ==
  \/ NoReading /\ UNCHANGED iter[SENSOR] /\ (HasRead => HasRead')
  \/ NoReading /\ iter'[SENSOR] = iter[SENSOR] + 1
  \/ /\ UNCHANGED iter[SENSOR] /\ ~HasRead /\ HasRead'
     /\ \E e : Push(e)

(* The loop counters.                                                      *)
Counts(t) == UNCHANGED iter \/ iter' = [iter EXCEPT ![t] = @ + 1]

LEMMA ThreadCounts ==
  ASSUME NEW t \in Tasks, Thread(t)
  PROVE  Counts(t)
<1> USE DEF Shared
<1>1. /\ \A s : Stay(t, s) => Counts(t)
      /\ \A p : Goto(t, p) => Counts(t)
      /\ EndIteration(t) => Counts(t)
  BY DEF Stay, Goto, EndIteration, Counts
<1>2. \A m \in Shared : Section(t, m) => Counts(t)
  BY <1>1 DEF Section, ReadHolder, Lock, MarkAcquired, ReportWait, MarkReleased
<1>3. \A m, s, next : Access(t, m, s, next) => Counts(t)
  BY <1>1 DEF Access
<1>4. ReadSensorData(t) => Counts(t)
  BY <1>2, <1>3 DEF ReadSensorData
<1>5. CASE t = SENSOR /\ sensor_task_safe
  BY <1>1, <1>2, <1>3, <1>5 DEF sensor_task_safe
<1>6. CASE t = CONTROL /\ control_task_safe
  BY <1>1, <1>2, <1>3, <1>4, <1>6 DEF control_task_safe, ReportControlInputs, PwmSet,
     GpioWritePump
<1>7. CASE t = ALARM /\ alarm_task_safe
  BY <1>1, <1>2, <1>3, <1>4, <1>7 DEF alarm_task_safe, GpioWriteLed
<1>8. CASE t = LOGGER /\ logger_task_safe
  BY <1>1, <1>2, <1>3, <1>4, <1>8 DEF logger_task_safe, LogWrite
<1>9. CASE t = COMM /\ comm_task_safe
  <2>1. UartRx => Counts(t)
    BY <1>1, <1>9 DEF UartRx, UartStub, UartPoll, UartCheck, UartCopyType, UartCopyValue,
       UartEventType, UartEvent, UartConsume, Dispatch
  <2> QED
    BY <1>1, <1>2, <1>3, <1>9, <2>1 DEF comm_task_safe, AfterTarget
<1>10. CASE Finish(t)
  BY <1>1, <1>10 DEF Finish, SignalDone, Exit
<1> QED
  BY <1>5, <1>6, <1>7, <1>8, <1>9, <1>10 DEF Thread

LEMMA SensorLoops ==
  ASSUME WhereTypeOK, SENSOR \in Tasks, Thread(SENSOR)
  PROVE  \/ UNCHANGED iter[SENSOR] /\ (HasRead => HasRead')
         \/ iter'[SENSOR] = iter[SENSOR] + 1
<1>0. /\ SENSOR \in AllTasks
      /\ place \in [AllTasks -> Places] /\ stage \in [AllTasks -> Stages]
      /\ iter \in [AllTasks -> 0 .. Loops]
  BY DEF WhereTypeOK, AllTasks, SENSOR, LOGGER, ALARM
<1>1. CASE Section(SENSOR, "sensor_data")
  BY <1>0, <1>1 DEF Section, ReadHolder, Lock, MarkAcquired, ReportWait, MarkReleased, At,
     Stay, HasRead
<1>2. CASE \/ Access(SENSOR, "sensor_data", "first", "sample")
           \/ Access(SENSOR, "sensor_data", "sample", "second")
           \/ Access(SENSOR, "sensor_data", "second", "unmark")
  BY <1>0, <1>2 DEF Access, At, Stay, HasRead
<1>3. CASE EndIteration(SENSOR)
  BY <1>0, <1>3 DEF EndIteration
<1>4. CASE Finish(SENSOR)
  BY <1>0, <1>4 DEF Finish, SignalDone, Exit, At, Goto, HasRead
<1> QED
  BY <1>1, <1>2, <1>3, <1>4 DEF Thread, sensor_task_safe, SENSOR, CONTROL, ALARM, LOGGER,
     COMM

LEMMA ThreadIsWindowStep ==
  ASSUME IInv, NEW t \in Tasks, Thread(t)
  PROVE  WindowStep
<1>0. /\ WhereTypeOK /\ SENSOR \in AllTasks
      /\ place \in [AllTasks -> Places] /\ stage \in [AllTasks -> Stages]
      /\ iter \in [AllTasks -> 0 .. Loops]
  BY DEF IInv, WhereInv, WhereTypeOK, AllTasks, SENSOR, LOGGER, ALARM
<1>1. CASE Access(SENSOR, "sensor_data", "sample", "second") /\ SampleHumidity
  BY <1>0, <1>1 DEF Access, At, Stay, SampleHumidity, HasRead, WindowStep
<1>2. CASE NoReading
  <2>1. CASE t = SENSOR
    BY <1>0, <1>2, <2>1, SensorLoops DEF WindowStep
  <2>2. CASE t # SENSOR
    <3>1. place'[SENSOR] = place[SENSOR] /\ stage'[SENSOR] = stage[SENSOR]
      BY <1>0, <2>2, OthersStay, ThreadIsLockStep
    <3>2. iter'[SENSOR] = iter[SENSOR]
      BY <1>0, <2>2, ThreadCounts DEF Counts
    <3> QED
      BY <1>2, <3>1, <3>2 DEF WindowStep, HasRead
  <2> QED
    BY <2>1, <2>2
<1>3. CASE Neutral
  BY <1>2, <1>3 DEF Neutral, NoReading
<1>4. CASE StoreTemperature \/ StoreHumidity \/ LoadTemperature(CONTROL) \/ LoadHumidity(CONTROL)
  BY <1>2, <1>4 DEF StoreTemperature, StoreHumidity, LoadTemperature, LoadHumidity,
     bridgeVars, NoReading
<1>5. CASE ReportControlInputs
  <2>1. PairEvent("CONTROL_IN", CONTROL, view[CONTROL]).type = "CONTROL_IN"
    BY DEF PairEvent
  <2> QED
    BY <1>2, <1>5, <2>1 DEF ReportControlInputs, Call, NoReading
<1> QED
  BY <1>1, <1>3, <1>4, <1>5, ThreadIsCoherenceStep DEF CoherenceStep

LEMMA CreationIsWindowStep ==
  ASSUME WhereTypeOK, NEW t \in Tasks, Spawn(t) \/ SpawnFails(t)
  PROVE  WindowStep
<1>1. PICK p : /\ place[t] = "unspawned" /\ place' = [place EXCEPT ![t] = p]
               /\ stage' = [stage EXCEPT ![t] = Entry(p)]
               /\ UNCHANGED <<iter, queue>>
  BY DEF Spawn, SpawnFails, Creation, Goto
<1>2. HasRead => HasRead'
  BY <1>1 DEF HasRead, WhereTypeOK, AllTasks, SENSOR, LOGGER, ALARM
<1> QED
  BY <1>1, <1>2 DEF WindowStep, NoReading

LEMMA StepKeepsWindow ==
  ASSUME WindowInv, WindowStep, WhereTypeOK, ScoreboardTypeOK,
         batch \in Seq(Events), queue \in Seq(Events), queue' \in Seq(Events),
         UNCHANGED <<batch, recent_snapshots, seen_pairs>>
  PROVE  WindowInv'
<1> DEFINE given == Len(recent_snapshots) + Carried
<1>0. /\ Stream \in Seq(Events) /\ Carried \in Nat /\ Len(recent_snapshots) \in Nat
      /\ iter[SENSOR] \in Int
  <2>1. Stream \in Seq(Events)
    BY StreamOf DEF Stream
  <2> HIDE DEF Stream
  <2>2. iter[SENSOR] \in Int
    BY FirmwareAssumption DEF WhereTypeOK, AllTasks, SENSOR, LOGGER, ALARM
  <2> QED
    BY <2>1, <2>2, SentFinite, LenProperties DEF Carried, ScoreboardTypeOK
<1>1. UNCHANGED queue => Carried' = Carried
  BY DEF Carried, Stream
<1>2. ASSUME NEW e, Push(e)
      PROVE  \/ Carried' = Carried
             \/ e.type = "SENSOR" /\ Carried' = Carried + 1
  <2>1. CASE e.type \notin Registered
    BY <1>1, <1>2, <2>1 DEF Push
  <2>2. CASE e.type \in Registered
    <3>1. queue' = Append(queue, e) /\ e \in Events
      BY <1>2, <2>2, PushedIsEvent
    <3>2. Stream' = Append(Stream, e)
      BY <3>1, StreamOf DEF Stream
    <3> HIDE DEF Stream
    <3>3. Carried' = Cardinality(Sent("SENSOR", Append(Stream, e)))
      BY <3>2 DEF Carried
    <3> QED
      BY <1>0, <3>1, <3>3, SentAppend DEF Carried
  <2> QED
    BY <2>1, <2>2
<1>3. Snapshots' = Snapshots
  BY DEF Snapshots
<1>4. NoReading => Carried' = Carried
  BY <1>1, <1>2 DEF NoReading
<1> HIDE DEF Carried
<1>5. CASE NoReading /\ UNCHANGED iter[SENSOR] /\ (HasRead => HasRead')
  BY <1>0, <1>3, <1>4, <1>5 DEF WindowInv
<1>6. CASE NoReading /\ iter'[SENSOR] = iter[SENSOR] + 1
  BY <1>0, <1>3, <1>4, <1>6 DEF WindowInv
<1>7. CASE /\ UNCHANGED iter[SENSOR] /\ ~HasRead /\ HasRead'
           /\ \E e : Push(e)
  BY <1>0, <1>2, <1>3, <1>7 DEF WindowInv
<1> QED
  BY <1>5, <1>6, <1>7 DEF WindowStep

LEMMA WriteKeepsWindow ==
  ASSUME NEW e \in Events, WriteEvent(e), ScoreboardTypeOK,
         e.type = "SENSOR" => Len(recent_snapshots) < kWindowSize
  PROVE  /\ Len(recent_snapshots') =
              Len(recent_snapshots) + (IF e.type = "SENSOR" THEN 1 ELSE 0)
         /\ seen_pairs \subseteq Snapshots \cup {NoPair}
              => seen_pairs' \subseteq Snapshots' \cup {NoPair}
<1>0. recent_snapshots \in Seq(Pairs) /\ Len(recent_snapshots) \in Nat /\ kWindowSize \in Nat
  BY ScoreboardAssumption, LenProperties DEF ScoreboardTypeOK, Pairs
<1>1. CASE e.type = "SENSOR"
  <2> DEFINE p == e.pair
             longer == Append(recent_snapshots, p)
  <2>1. WriteSensor(p) /\ p \in Pairs
    BY <1>1 DEF WriteEvent, Events
  <2>2. /\ Len(longer) = Len(recent_snapshots) + 1
        /\ longer[Len(recent_snapshots) + 1] = p
        /\ \A i \in 1 .. Len(recent_snapshots) : longer[i] = recent_snapshots[i]
    BY <1>0, <2>1, AppendProperties
  <2>3. recent_snapshots' = longer /\ seen_pairs' = seen_pairs \cup {p}
    BY <1>0, <1>1, <2>1, <2>2 DEF WriteSensor
  <2> HIDE DEF longer, p
  <2>4. Len(recent_snapshots') = Len(recent_snapshots) + 1
    BY <2>2, <2>3
  <2>5. Snapshots \cup {p} \subseteq Snapshots'
    BY <1>0, <2>2, <2>3, <2>4 DEF Snapshots
  <2> QED
    BY <1>1, <2>3, <2>4, <2>5
<1>2. CASE e.type # "SENSOR"
  <2>1. UNCHANGED <<recent_snapshots, seen_pairs>>
    BY <1>2 DEF WriteEvent, WriteControlInput, WritePwm, WriteGpioPump, WriteGpioLed,
       WriteComm, WriteOther, scoreboardVars
  <2> QED
    BY <1>0, <1>2, <2>1 DEF Snapshots
<1> QED
  BY <1>1, <1>2

LEMMA DeliverKeepsWindow ==
  ASSUME kWindowSize >= Loops, WindowInv, WhereInv, ScoreboardTypeOK, Deliver,
         batch \in Seq(Events), queue \in Seq(Events),
         UNCHANGED <<where, globals, locals>>
  PROVE  WindowInv'
<1>1. /\ Stream \in Seq(Events) /\ Stream # <<>> /\ Head(Stream) = Head(batch)
      /\ Stream' = Tail(Stream) /\ WriteEvent(Head(Stream))
  BY StreamOf DEF Deliver, Stream, bridgeVars
<1>2. (HasRead' <=> HasRead) /\ UNCHANGED iter
  BY DEF where, HasRead
<1> HIDE DEF Stream
<1>3. /\ Head(Stream) \in Events /\ Tail(Stream) \in Seq(Events)
      /\ Carried \in Nat /\ Carried' \in Nat /\ Len(recent_snapshots) \in Nat
  BY <1>1, HeadTailProperties, SentFinite, LenProperties DEF Carried, ScoreboardTypeOK
<1>4. /\ Carried' <= Carried
      /\ Head(Stream).type = "SENSOR" => Carried' < Carried
  <2>1. Carried' = Cardinality(Sent("SENSOR", Tail(Stream)))
    BY <1>1 DEF Carried
  <2>2. /\ Cardinality(Sent("SENSOR", Tail(Stream))) <= Carried
        /\ Head(Stream).type = "SENSOR"
             => Cardinality(Sent("SENSOR", Tail(Stream))) + 1 <= Carried
    BY <1>1, SentTail DEF Carried
  <2>3. Cardinality(Sent("SENSOR", Tail(Stream))) \in Nat
    BY <1>3, SentFinite
  <2> QED
    BY <1>3, <2>1, <2>2, <2>3
<1>5. /\ iter[SENSOR] \in Int /\ Loops \in Nat /\ kWindowSize \in Nat
      /\ HasRead => iter[SENSOR] < Loops
      /\ iter[SENSOR] <= Loops
  BY FirmwareAssumption, ScoreboardAssumption
     DEF WhereInv, WhereTypeOK, LoopsLeft, HasRead, AllTasks, SENSOR, LOGGER, ALARM
<1> HIDE DEF Carried
<1>6. Head(Stream).type = "SENSOR" => Len(recent_snapshots) < kWindowSize
  BY <1>3, <1>4, <1>5 DEF WindowInv
<1>7. /\ Len(recent_snapshots') =
           Len(recent_snapshots) + (IF Head(Stream).type = "SENSOR" THEN 1 ELSE 0)
      /\ seen_pairs' \subseteq Snapshots' \cup {NoPair}
  BY <1>1, <1>3, <1>6, WriteKeepsWindow DEF WindowInv
<1>8. Len(recent_snapshots') + Carried' <= Len(recent_snapshots) + Carried
  BY <1>3, <1>4, <1>7
<1>9. /\ Len(recent_snapshots') + Carried' \in Int
      /\ Len(recent_snapshots) + Carried \in Int
  BY <1>3, <1>7
<1>10. /\ Len(recent_snapshots') + Carried' <= iter'[SENSOR] + 1
       /\ ~HasRead' => Len(recent_snapshots') + Carried' <= iter'[SENSOR]
  BY <1>2, <1>5, <1>8, <1>9 DEF WindowInv
<1> QED
  BY <1>7, <1>10 DEF WindowInv

LEMMA IdleKeepsWindow ==
  ASSUME WindowInv, UNCHANGED <<where, Stream, scoreboardVars>>
  PROVE  WindowInv'
<1>1. UNCHANGED <<place, stage, iter, recent_snapshots, seen_pairs>> /\ Stream' = Stream
  BY DEF where, scoreboardVars
<1> QED
  BY <1>1 DEF WindowInv, HasRead, Carried, Snapshots

-----------------------------------------------------------------------------
(***************************************************************************)
(* The verdict.                                                            *)
(***************************************************************************)
VerdictInv ==
  /\ FanInv /\ BoardInv
  /\ Spares(Settings) /\ SettledInv
  /\ InformedInv /\ JudgeInv

(* The readings, or the reset state, that the output check cannot find.    *)
Forgotten == seen_pairs \ Snapshots

(* The event delivered, with the duty that waits, is the right output for  *)
(* a pair.                                                                 *)
RightFor(p) ==
  \/ /\ Head(batch).of = "PUMP"
     /\ pending_fan = {Duty(p)}
     /\ Head(batch).value = Watered(p)
  \/ /\ Head(batch).of = "LED"
     /\ Head(batch).value = Lit(p)

LEMMA RejectedIsForgotten ==
  ASSUME SystemInv, SystemInv', VerdictInv, Deliver,
         batch \in Seq(Events), queue \in Seq(Events),
         Judged(Head(batch), seen_pairs, pending_fan, pending_fan'),
         mismatches' # mismatches
  PROVE  \E p \in Forgotten : RightFor(p)
<1> DEFINE e == Head(batch)
<1>1. WriteEvent(e) /\ e \in Events
  BY HeadTailProperties DEF Deliver
<1>2. /\ pending_pump = {} /\ modeled_target_temp = TEMP_TARGET_DEFAULT
      /\ mismatches \in Nat /\ seen_pairs \subseteq Pairs
  BY DEF VerdictInv, FanInv, SettledInv, BoardInv, ScoreboardTypeOK, Pairs
<1>3. torn_reads = 0 /\ torn_reads' = 0
  BY DEF SystemInv, CoherenceInv
<1>4. Valued(e)
  <2>1. AllValued(Stream) /\ Stream \in Seq(Events) /\ Stream # <<>> /\ Head(Stream) = e
    BY StreamOf DEF VerdictInv, BoardInv, Deliver, Stream
  <2> HIDE DEF Stream, e
  <2>2. 1 \in 1 .. Len(Stream) /\ Stream[1] = e
    BY <2>1, LenProperties, EmptySeq, HeadTailProperties
  <2> QED
    BY <2>1, <2>2 DEF AllValued
<1>5. Judged(e, seen_pairs, pending_fan, pending_fan')
  OBVIOUS
<1> HIDE DEF e
<1>6. CASE IsFan(e)
  <2>1. PICK duty \in 0 .. 100 : WritePwm(duty)
    BY <1>1, <1>4, <1>6 DEF WriteEvent, IsFan, Valued, FAN_SPEED_MAX
  <2> DEFINE over == IF duty > 100 THEN 1 ELSE 0
             unlike == IF \A p \in pending_pump : Explained(duty, p) THEN 0 ELSE 1
  <2>2. over = 0
    OBVIOUS
  <2>3. unlike = 0
    BY <1>2
  <2>4. mismatches' = mismatches + over + unlike
    BY <2>1 DEF WritePwm
  <2> HIDE DEF over, unlike
  <2> QED
    BY <1>2, <2>2, <2>3, <2>4
<1>7. CASE IsPump(e)
  <2>1. WriteGpioPump(e.value) /\ e.of = "PUMP"
    BY <1>1, <1>7 DEF WriteEvent, IsPump
  <2>2. PICK p \in seen_pairs : pending_fan = {Duty(p)} /\ e.value = Watered(p)
    BY <1>5, <1>7 DEF Judged
  <2>3. p \notin Snapshots
    <3>1. ASSUME p \in Snapshots
          PROVE  Explained(Duty(p), Watered(p))
      <4>1. ExpectedFanDuty(p.temperature, TEMP_TARGET_DEFAULT) = Duty(p)
        BY DEF ExpectedFanDuty, Duty, CalculatedFanDuty
      <4>2. ExpectedPumpState(p.humidity) = (Watered(p) = 1)
        BY DEF ExpectedPumpState, Watered, ShouldPumpOn, Bit
      <4> QED
        BY <1>2, <3>1, <4>1, <4>2 DEF Explained
    <3>2. ~Explained(Duty(p), Watered(p))
      BY <1>2, <2>1, <2>2 DEF WriteGpioPump
    <3> QED
      BY <3>1, <3>2
  <2> QED
    BY <2>1, <2>2, <2>3 DEF e, RightFor, Forgotten
<1>8. CASE IsLed(e)
  <2>1. WriteGpioLed(e.value) /\ e.of = "LED"
    BY <1>1, <1>8 DEF WriteEvent, IsLed
  <2>2. PICK p \in seen_pairs : e.value = Lit(p)
    BY <1>5, <1>8 DEF Judged
  <2>3. p \notin Snapshots
    <3>1. ExpectedAlarmLed(p.temperature, p.humidity) = (Lit(p) = 1)
      <4>1. p.temperature \in Int /\ p.humidity \in Int
        BY <1>2 DEF Pairs
      <4>2. AlarmLedActive(p.temperature, p.humidity) <=> (Lit(p) = 1)
        BY DEF Lit, Bit
      <4>3. ExpectedAlarmLed(p.temperature, p.humidity)
              <=> AlarmLedActive(p.temperature, p.humidity)
        BY <4>1 DEF ExpectedAlarmLed, AlarmLedActive, NewAlarmState, ALARM_NORMAL,
           ALARM_WARNING, ALARM_CRITICAL, HUMIDITY_MIN_LIMIT, HUMIDITY_MAX_LIMIT,
           TEMP_ALARM_LIMIT, TEMP_CRITICAL_LIMIT, Eighths
      <4>4. ExpectedAlarmLed(p.temperature, p.humidity) \in BOOLEAN
        BY DEF ExpectedAlarmLed
      <4> QED
        BY <4>2, <4>3, <4>4
    <3> QED
      BY <2>1, <2>2, <3>1 DEF WriteGpioLed
  <2> QED
    BY <2>1, <2>2, <2>3 DEF e, RightFor, Forgotten
<1>9. CASE e.type = "CONTROL_IN"
  <2>1. WriteControlInput(e.pair)
    BY <1>1, <1>9 DEF WriteEvent
  <2> QED
    BY <1>3, <2>1 DEF WriteControlInput
<1>10. CASE ~IsFan(e) /\ ~IsPump(e) /\ ~IsLed(e) /\ e.type # "CONTROL_IN"
  BY <1>1, <1>10 DEF WriteEvent, IsFan, IsPump, IsLed, WriteSensor, WriteComm, WriteOther,
     scoreboardVars
<1> QED
  BY <1>6, <1>7, <1>8, <1>9, <1>10

LEMMA VerdictInvInit == NoItem(Settings) /\ SystemBInit => VerdictInv
<1> SUFFICES ASSUME SystemBInit
             PROVE  VerdictInv
  OBVIOUS
<1>1. /\ queue = <<>> /\ batch = <<>> /\ ScoreboardInit
      /\ place = [t \in AllTasks |-> IF t \in Tasks THEN "unspawned" ELSE "returned"]
      /\ iter = [t \in AllTasks |-> 0]
      /\ target_temp = TEMP_TARGET_DEFAULT /\ setpoint = TEMP_TARGET_DEFAULT
  BY DEF SystemBInit, GroupBInit, FirmwareInit, BridgeInit, DutBridgeInit
<1>2. Stream = <<>> /\ 1 .. Len(<<>>) = {} /\ Len(<<>>) = 0
  BY <1>1, StreamOf DEF Stream
<1>3. FanInv /\ BoardInv
  BY FanInvInit, BoardInvInit DEF SystemBInit, GroupBInit
<1>4. Spares(Settings)
  BY DEF SystemBInit, GroupBInit, FirmwareInit, BridgeInit, Spares, Settings
<1>5. \A t \in AllTasks : place[t] \in {"unspawned", "returned"}
  BY <1>1
<1>6. COMM \in AllTasks /\ CONTROL \in AllTasks /\ ALARM \in AllTasks /\ SENSOR \in AllTasks
  BY DEF AllTasks, COMM, CONTROL, ALARM, SENSOR, LOGGER
<1>7. SettledInv
  <2>1. place[COMM] # "target_temp"
    BY <1>5, <1>6
  <2> QED
    BY <1>1, <1>2, <2>1 DEF SettledInv, ScoreboardInit
<1>8. InformedInv
  BY <1>5, <1>6 DEF InformedInv, Informed, Judges
<1>9. JudgeInv
  <2>1. Waiting = {} /\ pending_fan = {}
    BY <1>1, <1>5, <1>6 DEF Waiting, PumpsTurn, ScoreboardInit
  <2>2. Judgeable(<<>>, seen_pairs, {}, {})
    <3>1. [n \in 0 .. 0 |-> {}] \in [0 .. Len(<<>>) -> SUBSET Int]
      BY <1>2
    <3>2. 0 \in 0 .. 0
      OBVIOUS
    <3> QED
      BY <1>2, <3>1, <3>2 DEF Judgeable
  <2> QED
    BY <1>2, <2>1, <2>2 DEF JudgeInv
<1> QED
  BY <1>3, <1>4, <1>7, <1>8, <1>9 DEF VerdictInv

(* The steps of the threads and their creation.                            *)
LEMMA ThreadKeepsVerdict ==
  ASSUME {"SENSOR", "PWM", "GPIO"} \subseteq Registered,
         COMM \in Tasks => "COMM" \in Registered,
         SystemInv, RunInv, RunInv', VerdictInv,
         \/ \E t \in Tasks : Thread(t)
         \/ \E t \in Tasks : Spawn(t) \/ SpawnFails(t),
         UNCHANGED dutBridgeVars
  PROVE  SettledInv' /\ InformedInv' /\ JudgeInv'
<1>0. /\ IInv /\ WhereTypeOK /\ DataTypeOK /\ DataTypeOK' /\ ScoreboardTypeOK
      /\ place \in [AllTasks -> Places] /\ COMM \in AllTasks
      /\ batch \in Seq(Events) /\ queue \in Seq(Events) /\ queue' \in Seq(Events)
      /\ SettledInv /\ InformedInv /\ JudgeInv /\ Spares(Settings)
      /\ place[COMM] # "target_temp"
  BY RunInvTypes DEF RunInv, FullInv, IInv, WhereInv, WhereTypeOK, DataInv, BridgeTypeOK,
     ChannelInv, VerdictInv, BoardInv, SettledInv, AllTasks, COMM, LOGGER, ALARM
<1>1. UNCHANGED <<batch, recent_snapshots, seen_pairs, pending_fan, scoreboardVars>>
  BY DEF dutBridgeVars, scoreboardVars
<1>2. ASSUME NEW t \in Tasks, Thread(t)
      PROVE  SettledInv' /\ InformedInv' /\ JudgeInv'
  <2>1. SettledInv'
    BY <1>0, <1>2, ThreadSettles, StepKeepsSettled
  <2>2. InformedInv'
    BY <1>0, <1>2, ThreadKeepsInformed
  <2>3. JudgeInv'
    BY <1>0, <1>1, <1>2, ThreadIsJudged, StepKeepsJudge
  <2> QED
    BY <2>1, <2>2, <2>3
<1>3. ASSUME NEW t \in Tasks, Spawn(t) \/ SpawnFails(t)
      PROVE  SettledInv' /\ InformedInv' /\ JudgeInv'
  <2>1. UNCHANGED <<queue, view, setpoint, target_temp>>
    BY <1>3 DEF Spawn, SpawnFails, Creation, globals, locals
  <2>2. UNCHANGED Stream
    BY <1>1, <2>1 DEF Stream
  <2>3. PICK p \in {"failed", "sensor_data", "uart"} :
          place[t] = "unspawned" /\ place' = [place EXCEPT ![t] = p]
    BY <1>3 DEF Spawn, SpawnFails, Creation, Goto, Start
  <2>4. SettledInv'
    BY <1>0, <1>1, <2>1, <2>2, <2>3, IdleKeepsSettled
  <2>5. InformedInv'
    <3>1. \A pair : Known(pair) => KnownAt(Stream', seen_pairs', pair, Len(Stream'))
      BY <1>1, <2>2 DEF Known
    <3> QED
      BY <1>0, <1>3, <2>1, <3>1, CreationInforms, IdleKeepsInformed
  <2>6. JudgeInv'
    <3>1. PumpsTurn' <=> PumpsTurn
      BY <1>0, <2>3 DEF PumpsTurn
    <3> QED
      BY <1>0, <1>1, <2>1, <2>2, <3>1, IdleKeepsJudge
  <2> QED
    BY <2>4, <2>5, <2>6
<1> QED
  BY <1>2, <1>3

(* The steps of the testbench.                                             *)
LEMMA DeliverKeepsVerdict ==
  ASSUME SystemInv, RunInv, VerdictInv, Deliver,
         UNCHANGED <<where, globals, locals>>
  PROVE  SettledInv' /\ InformedInv' /\ JudgeInv'
<1>0. /\ WhereInv /\ ScoreboardTypeOK /\ pending_pump = {}
      /\ batch \in Seq(Events) /\ queue \in Seq(Events)
      /\ SettledInv /\ InformedInv /\ JudgeInv
  BY RunInvTypes DEF RunInv, FullInv, IInv, DataInv, BridgeTypeOK, ChannelInv, VerdictInv,
     BoardInv, FanInv
<1>1. /\ Stream \in Seq(Events) /\ Stream # <<>> /\ Stream' = Tail(Stream)
      /\ WriteEvent(Head(Stream))
  BY <1>0, StreamOf DEF Deliver, Stream, bridgeVars
<1>2. UNCHANGED view /\ \A t \in Judges : Informed(t)' => Informed(t)
  BY DEF where, locals, Informed
<1>3. \A pair : Known(pair) => KnownAt(Stream', seen_pairs', pair, Len(Stream'))
  <2>1. seen_pairs \subseteq seen_pairs'
        /\ (Head(Stream).type = "SENSOR" => Head(Stream).pair \in seen_pairs')
    BY <1>1, WriteSeen
  <2> HIDE DEF Stream
  <2> QED
    BY <1>1, <2>1, DeliveredEvent DEF Known
<1> HIDE DEF Stream
<1>4. InformedInv'
  BY <1>0, <1>2, <1>3, IdleKeepsInformed
<1> QED
  BY <1>0, <1>4, DeliverKeepsSettled, DeliverKeepsJudge

LEMMA IdleKeepsVerdict ==
  ASSUME VerdictInv, UNCHANGED <<where, globals, locals, Stream, scoreboardVars>>
  PROVE  SettledInv' /\ InformedInv' /\ JudgeInv'
<1>1. /\ UNCHANGED <<place, stage, view, setpoint, target_temp, seen_pairs>> /\ Stream' = Stream
      /\ SettledInv /\ InformedInv /\ JudgeInv
  BY DEF where, globals, locals, scoreboardVars, VerdictInv
<1>2. InformedInv'
  BY <1>1 DEF InformedInv, Informed, Known
<1>3. PumpsTurn' <=> PumpsTurn
  BY <1>1 DEF PumpsTurn
<1> QED
  BY <1>1, <1>2, <1>3, IdleKeepsSettled, IdleKeepsJudge

LEMMA VerdictInvNext ==
  ASSUME {"SENSOR", "PWM", "GPIO"} \subseteq Registered,
         COMM \in Tasks => "COMM" \in Registered, NoItem(Settings),
         SystemInv, RunInv, VerdictInv, [SystemBNext]_systemBVars
  PROVE  VerdictInv'
<1>0. /\ RunInv' /\ FanInv' /\ BoardInv' /\ Spares(Settings)'
      /\ batch \in Seq(Events) /\ queue \in Seq(Events)
      /\ poller \notin {"deliver", "final_deliver"} => batch = <<>>
  <2>1. RunInv' /\ FanInv' /\ BoardInv' /\ Spares(Settings)'
    BY RunInvNext, FanInvNext, BoardInvNext, SparesNext DEF VerdictInv, Settings
  <2> QED
    BY <2>1, RunInvTypes DEF ChannelTypes, BridgeTypeOK, ChannelInv
<1> SUFFICES SettledInv' /\ InformedInv' /\ JudgeInv'
  BY <1>0 DEF VerdictInv
<1>1. ASSUME NEW t \in Tasks, Dut(t)
      PROVE  SettledInv' /\ InformedInv' /\ JudgeInv'
  BY <1>0, <1>1, ThreadKeepsVerdict DEF Dut
<1>2. ASSUME NEW t \in Tasks, Spawn(t) \/ SpawnFails(t), UNCHANGED dutBridgeVars
      PROVE  SettledInv' /\ InformedInv' /\ JudgeInv'
  BY <1>0, <1>2, ThreadKeepsVerdict
<1>3. CASE Deliver /\ UNCHANGED <<where, globals, locals>>
  BY <1>3, DeliverKeepsVerdict
<1>4. CASE DrainSwap /\ UNCHANGED <<where, globals, locals>>
  <2>1. Stream' = Stream
    BY <1>0, <1>4, StreamOf DEF DrainSwap, Stream
  <2> QED
    BY <1>4, <2>1, IdleKeepsVerdict DEF DrainSwap
<1>5. CASE /\ StartPolling \/ CheckActive \/ EndDrain
           /\ UNCHANGED <<where, globals, locals>>
  BY <1>5, IdleKeepsVerdict DEF StartPolling, CheckActive, EndDrain, Stream, bridgeVars
<1>6. CASE Driver \/ UNCHANGED systemBVars
  BY <1>6, IdleKeepsVerdict DEF Driver, CommDriver, InjectType, InjectValue, systemBVars,
     groupBVars, firmwareVars, bridgeVars, dutBridgeVars, Stream
<1> QED
  BY <1>1, <1>2, <1>3, <1>4, <1>5, <1>6
     DEF SystemBNext, Bridge, RunPhase, CreateThreads, Poller, Joined

(* Only a delivery can add to the count.                                   *)
LEMMA OnlyDeliveriesCount ==
  ASSUME SystemBNext \/ UNCHANGED systemBVars, mismatches' # mismatches
  PROVE  Deliver /\ UNCHANGED <<where, globals, locals>>
<1>1. ASSUME UNCHANGED scoreboardVars
      PROVE  FALSE
  BY <1>1 DEF scoreboardVars
<1> QED
  BY <1>1 DEF SystemBNext, Bridge, RunPhase, CreateThreads, Poller, Joined, Driver, Dut,
     StartPolling, CheckActive, DrainSwap, EndDrain, systemBVars, dutBridgeVars

LEMMA RejectionIsJudged ==
  ASSUME SystemInv, SystemInv', RunInv, VerdictInv, [SystemBNext]_systemBVars,
         mismatches' # mismatches
  PROVE  \E p \in Forgotten : RightFor(p)
<1>1. Deliver /\ UNCHANGED <<where, globals, locals>>
  BY OnlyDeliveriesCount
<1>2. batch \in Seq(Events) /\ queue \in Seq(Events) /\ JudgeInv /\ pending_pump = {}
  BY RunInvTypes DEF ChannelTypes, BridgeTypeOK, ChannelInv, VerdictInv, FanInv
<1>3. Judged(Head(batch), seen_pairs, pending_fan, pending_fan')
  BY <1>1, <1>2, DeliverKeepsJudge
<1> QED
  BY <1>1, <1>2, <1>3, RejectedIsForgotten

(***************************************************************************)
(* For every window, set of readings, of tasks and number of loops: when   *)
(* no command moves the setpoint, an output of the protected firmware that *)
(* the scoreboard rejects is the right one for the reset state or for a    *)
(* reading it was told, which its window does not hold.  It never rejects  *)
(* an output for being wrong.                                              *)
(***************************************************************************)
THEOREM OnlyForgottenIsRejected ==
  ASSUME {"SENSOR", "PWM", "GPIO"} \subseteq Registered,
         COMM \in Tasks => "COMM" \in Registered, NoItem(Settings)
  PROVE  SystemBSpec =>
           [][mismatches' # mismatches => \E p \in Forgotten : RightFor(p)]_systemBVars
<1> DEFINE Inv == SystemInv /\ RunInv /\ VerdictInv
           Verdict == mismatches' # mismatches => \E p \in Forgotten : RightFor(p)
<1>1. SystemBInit => Inv
  BY SystemInvInit, RunInvInit, VerdictInvInit
<1>2. Inv /\ [SystemBNext]_systemBVars => Inv'
  BY SystemInvNext, RunInvNext, VerdictInvNext
<1>3. Inv /\ Inv' /\ [SystemBNext]_systemBVars => [Verdict]_systemBVars
  BY RejectionIsJudged
<1> QED
  BY <1>1, <1>2, <1>3, PTL DEF SystemBSpec

LEMMA WindowInvInit ==
  ASSUME SystemBInit
  PROVE  WindowInv
<1>1. /\ queue = <<>> /\ batch = <<>> /\ ScoreboardInit
      /\ place = [t \in AllTasks |-> IF t \in Tasks THEN "unspawned" ELSE "returned"]
      /\ iter = [t \in AllTasks |-> 0] /\ SENSOR \in AllTasks
  BY DEF SystemBInit, GroupBInit, FirmwareInit, BridgeInit, DutBridgeInit, AllTasks, SENSOR,
     LOGGER, ALARM
<1>2. Stream = <<>> /\ 1 .. Len(<<>>) = {} /\ Len(<<>>) = 0
  BY <1>1, StreamOf DEF Stream
<1>3. Carried = 0
  BY <1>2, FS_EmptySet DEF Carried, Sent
<1>4. recent_snapshots = <<>> /\ seen_pairs = {NoPair} /\ iter[SENSOR] = 0
  BY <1>1 DEF ScoreboardInit, NoPair
<1> QED
  BY <1>2, <1>3, <1>4 DEF WindowInv

LEMMA WindowInvNext ==
  ASSUME kWindowSize >= Loops, RunInv, BoardInv, WindowInv, [SystemBNext]_systemBVars
  PROVE  WindowInv'
<1>0. /\ RunInv' /\ IInv /\ WhereInv /\ WhereTypeOK /\ ScoreboardTypeOK
      /\ batch \in Seq(Events) /\ queue \in Seq(Events) /\ queue' \in Seq(Events)
      /\ poller \notin {"deliver", "final_deliver"} => batch = <<>>
  <2>1. RunInv'
    BY RunInvNext
  <2>2. /\ IInv /\ WhereInv /\ WhereTypeOK /\ ScoreboardTypeOK
        /\ batch \in Seq(Events) /\ queue \in Seq(Events)
        /\ poller \notin {"deliver", "final_deliver"} => batch = <<>>
    BY RunInvTypes DEF RunInv, FullInv, IInv, WhereInv, BoardInv, ChannelTypes, BridgeTypeOK,
       ChannelInv
  <2>3. queue' \in Seq(Events)
    BY <2>1 DEF RunInv, FullInv, IInv, DataInv, BridgeTypeOK
  <2> QED
    BY <2>1, <2>2, <2>3
<1>1. ASSUME NEW t \in Tasks, Thread(t) \/ Spawn(t) \/ SpawnFails(t), UNCHANGED dutBridgeVars
      PROVE  WindowInv'
  <2>1. UNCHANGED <<batch, recent_snapshots, seen_pairs>>
    BY <1>1 DEF dutBridgeVars, scoreboardVars
  <2>2. WindowStep
    BY <1>0, <1>1, ThreadIsWindowStep, CreationIsWindowStep
  <2> QED
    BY <1>0, <2>1, <2>2, StepKeepsWindow
<1>2. CASE Deliver /\ UNCHANGED <<where, globals, locals>>
  BY <1>0, <1>2, DeliverKeepsWindow
<1>3. CASE DrainSwap /\ UNCHANGED <<where, globals, locals>>
  <2>1. Stream' = Stream
    BY <1>0, <1>3, StreamOf DEF DrainSwap, Stream
  <2> QED
    BY <1>3, <2>1, IdleKeepsWindow DEF DrainSwap
<1>4. CASE /\ StartPolling \/ CheckActive \/ EndDrain
           /\ UNCHANGED <<where, globals, locals>>
  BY <1>4, IdleKeepsWindow DEF StartPolling, CheckActive, EndDrain, Stream, bridgeVars
<1>5. CASE Driver \/ UNCHANGED systemBVars
  BY <1>5, IdleKeepsWindow DEF Driver, CommDriver, InjectType, InjectValue, systemBVars,
     groupBVars, firmwareVars, bridgeVars, dutBridgeVars, Stream
<1> QED
  BY <1>1, <1>2, <1>3, <1>4, <1>5
     DEF SystemBNext, Bridge, RunPhase, CreateThreads, Poller, Joined, Dut

(***************************************************************************)
(* And when the window holds as many readings as there are loops, nothing  *)
(* is rejected but what was computed from the reset state.                 *)
(***************************************************************************)
THEOREM OnlyTheColdStartIsRejected ==
  ASSUME {"SENSOR", "PWM", "GPIO"} \subseteq Registered,
         COMM \in Tasks => "COMM" \in Registered,
         kWindowSize >= Loops, NoItem(Settings)
  PROVE  SystemBSpec => OnlyColdStartRejected
<1> DEFINE Inv == SystemInv /\ RunInv /\ VerdictInv /\ WindowInv
           Cold == mismatches' # mismatches =>
                     \/ /\ Head(batch).of = "PUMP"
                        /\ pending_fan = {CalculatedFanDuty(0, TEMP_TARGET_DEFAULT)}
                        /\ Head(batch).value = Bit(ShouldPumpOn(0))
                     \/ /\ Head(batch).of = "LED"
                        /\ Head(batch).value = Bit(AlarmLedActive(0, 0))
<1>1. SystemBInit => Inv
  BY SystemInvInit, RunInvInit, VerdictInvInit, WindowInvInit
<1>2. Inv /\ [SystemBNext]_systemBVars => Inv'
  BY SystemInvNext, RunInvNext, VerdictInvNext, WindowInvNext DEF VerdictInv
<1>3. Inv /\ Inv' /\ [SystemBNext]_systemBVars => [Cold]_systemBVars
  <2> SUFFICES ASSUME Inv, Inv', [SystemBNext]_systemBVars, mismatches' # mismatches
               PROVE  Cold
    OBVIOUS
  <2>1. PICK p \in Forgotten : RightFor(p)
    BY RejectionIsJudged
  <2>2. p = NoPair
    BY <2>1 DEF WindowInv, Forgotten
  <2> QED
    BY <2>1, <2>2 DEF RightFor, Duty, Watered, Lit, NoPair
<1> QED
  BY <1>1, <1>2, <1>3, PTL DEF SystemBSpec, OnlyColdStartRejected
=============================================================================
