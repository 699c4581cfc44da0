-------------------------------- MODULE GroupB --------------------------------
(***************************************************************************)
(* The protected firmware: every access to a shared variable is inside a   *)
(* critical section of that variable's own mutex, and around each lock the *)
(* task reads and updates the HAL's holder table, which has a lock of its  *)
(* own, so that each table operation is one step.                          *)
(***************************************************************************)
EXTENDS Firmware

ASSUME GroupBAssumption == DUT_GROUP_B

NOBODY == 5            \* (unsigned int)-1 in the holder table
Holders == AllTasks \cup {NOBODY}

VARIABLES
  owner,               \* the thread each pthread mutex belongs to
  mutex_holder,        \* hal.c: the table the priority-inversion check uses
  holder_before        \* each task's local of that name

lockVars == <<owner, mutex_holder, holder_before>>
groupBVars == <<firmwareVars, lockVars>>

GroupBInit ==
  /\ FirmwareInit
  /\ owner = [m \in Shared |-> NOBODY]
  /\ mutex_holder = [m \in Shared |-> NOBODY]
  /\ holder_before = [t \in AllTasks |-> NOBODY]

-----------------------------------------------------------------------------
(***************************************************************************)
(* The critical section of task t on m, around the accesses to m.          *)
(***************************************************************************)
ReadHolder(t, m) ==
  /\ At(t, m, "holder")
  /\ Stay(t, "lock")
  /\ holder_before' = [holder_before EXCEPT ![t] = mutex_holder[m]]
  /\ UNCHANGED <<globals, locals, bridgeVars, owner, mutex_holder>>

(* Mutant: the result of the lock is not waited for.                    *)
LockUnchecked(t, m) ==
  /\ At(t, m, "lock")
  /\ owner' = [owner EXCEPT ![m] = t]
  /\ Stay(t, "mark")
  /\ UNCHANGED <<globals, locals, bridgeVars, mutex_holder, holder_before>>

Lock(t, m) ==
  /\ At(t, m, "lock")
  /\ owner[m] = NOBODY
  /\ owner' = [owner EXCEPT ![m] = t]
  /\ Stay(t, "mark")
  /\ UNCHANGED <<globals, locals, bridgeVars, mutex_holder, holder_before>>

(* Mutant: the holder is looked up after the acquisition.               *)
MarkAcquiredThenRead(t, m) ==
  /\ At(t, m, "mark")
  /\ Stay(t, "report")
  /\ mutex_holder' = [mutex_holder EXCEPT ![m] = t]
  /\ holder_before' = [holder_before EXCEPT ![t] = t]
  /\ UNCHANGED <<globals, locals, bridgeVars, owner>>

MarkAcquired(t, m) ==
  /\ At(t, m, "mark")
  /\ Stay(t, "report")
  /\ mutex_holder' = [mutex_holder EXCEPT ![m] = t]
  /\ UNCHANGED <<globals, locals, bridgeVars, owner, holder_before>>

(* A wait is reported when the microsecond clock moved: a question of time *)
(* that the step leaves open.  holder_before is dead from here on.         *)
ReportWait(t, m) ==
  /\ At(t, m, "report")
  /\ Stay(t, "first")
  /\ holder_before' = [holder_before EXCEPT ![t] = NOBODY]
  /\ \/ Push(ValueEvent("MUTEX_WAIT", t, m, holder_before[t]))
     \/ UNCHANGED queue
  /\ UNCHANGED <<globals, locals, active, mailbox, owner, mutex_holder>>

(* Mutant: the holder table keeps the task's name.                      *)
MarkReleasedForgotten(t, m) ==
  /\ At(t, m, "unmark")
  /\ Stay(t, "unlock")
  /\ UNCHANGED <<globals, locals, bridgeVars, lockVars>>

MarkReleased(t, m) ==
  /\ At(t, m, "unmark")
  /\ Stay(t, "unlock")
  /\ mutex_holder' = [mutex_holder EXCEPT ![m] = NOBODY]
  /\ UNCHANGED <<globals, locals, bridgeVars, owner, holder_before>>

(* Mutant: the section is left with the mutex locked.                   *)
UnlockForgotten(t, m) ==
  /\ At(t, m, "unlock")
  /\ UNCHANGED <<globals, locals, bridgeVars, lockVars>>

Unlock(t, m) ==
  /\ At(t, m, "unlock")
  /\ owner' = [owner EXCEPT ![m] = NOBODY]
  /\ UNCHANGED <<globals, locals, bridgeVars, mutex_holder, holder_before>>

(* What a section does besides its accesses and its unlock.               *)
Section(t, m) == ReadHolder(t, m) \/ Lock(t, m) \/ MarkAcquired(t, m)
                   \/ ReportWait(t, m) \/ MarkReleased(t, m)

(* The access statement at stage s of t's section on m, before stage next. *)
Access(t, m, s, next) ==
  At(t, m, s) /\ Stay(t, next) /\ UNCHANGED lockVars

ReadSensorData(t) ==
  \/ Section(t, "sensor_data")
  \/ Access(t, "sensor_data", "first", "second") /\ LoadTemperature(t)
  \/ Access(t, "sensor_data", "second", "unmark") /\ LoadHumidity(t)

-----------------------------------------------------------------------------
(***************************************************************************)
(* The five task functions.                                                *)
(***************************************************************************)
sensor_task_safe ==
  \/ Section(SENSOR, "sensor_data")
  \/ Access(SENSOR, "sensor_data", "first", "sample") /\ StoreTemperature
  \/ Access(SENSOR, "sensor_data", "sample", "second") /\ SampleHumidity
  \/ Access(SENSOR, "sensor_data", "second", "unmark") /\ StoreHumidity
  \/ Unlock(SENSOR, "sensor_data") /\ EndIteration(SENSOR)

control_task_safe ==
  \/ ReadSensorData(CONTROL)
  \/ Unlock(CONTROL, "sensor_data") /\ Goto(CONTROL, "target_temp")
  \/ Section(CONTROL, "target_temp")
  \/ Access(CONTROL, "target_temp", "first", "unmark") /\ LoadTarget
  \/ Unlock(CONTROL, "target_temp") /\ Goto(CONTROL, "report")
  \/ ReportControlInputs /\ UNCHANGED lockVars
  \/ Section(CONTROL, "actuators")
  \/ Access(CONTROL, "actuators", "first", "second") /\ StorePump
  \/ Access(CONTROL, "actuators", "second", "unmark") /\ StoreFan
  \/ Unlock(CONTROL, "actuators") /\ Goto(CONTROL, "pwm")
  \/ (PwmSet \/ GpioWritePump) /\ UNCHANGED lockVars

alarm_task_safe ==
  \/ ReadSensorData(ALARM)
  \/ Unlock(ALARM, "sensor_data") /\ Goto(ALARM, "alarm_state")
  \/ Section(ALARM, "alarm_state")
  \/ Access(ALARM, "alarm_state", "first", "unmark") /\ StoreAlarm
  \/ Unlock(ALARM, "alarm_state") /\ Goto(ALARM, "gpio_led")
  \/ GpioWriteLed /\ UNCHANGED lockVars

logger_task_safe ==
  \/ ReadSensorData(LOGGER)
  \/ Unlock(LOGGER, "sensor_data") /\ Goto(LOGGER, "actuators")
  \/ Section(LOGGER, "actuators")
  \/ Access(LOGGER, "actuators", "first", "second") /\ LogPump
  \/ Access(LOGGER, "actuators", "second", "unmark") /\ LogFan
  \/ Unlock(LOGGER, "actuators") /\ Goto(LOGGER, "alarm_state")
  \/ Section(LOGGER, "alarm_state")
  \/ Access(LOGGER, "alarm_state", "first", "unmark") /\ LogAlarm
  \/ Unlock(LOGGER, "alarm_state") /\ Goto(LOGGER, "log_write")
  \/ LogWrite /\ UNCHANGED lockVars

(* CMD_RESET stores the value that came with the command, as CMD_TARGET    *)
(* does, and goes on to the second section.                                *)
CommandTarget == command.value
AfterTarget ==
  IF command.type = "RESET" THEN Goto(COMM, "system_enabled")
  ELSE EndIteration(COMM)

comm_task_safe ==
  \/ UartRx /\ UNCHANGED lockVars
  \/ Section(COMM, "target_temp")
  \/ Access(COMM, "target_temp", "first", "unmark") /\ StoreTarget(CommandTarget)
  \/ Unlock(COMM, "target_temp") /\ AfterTarget
  \/ Section(COMM, "system_enabled")
  \/ Access(COMM, "system_enabled", "first", "unmark") /\ StoreEnabled
  \/ Unlock(COMM, "system_enabled") /\ EndIteration(COMM)

Thread(t) ==
  /\ t \in Tasks
  /\ \/ t = SENSOR /\ sensor_task_safe
     \/ t = CONTROL /\ control_task_safe
     \/ t = ALARM /\ alarm_task_safe
     \/ t = LOGGER /\ logger_task_safe
     \/ t = COMM /\ comm_task_safe
     \/ Finish(t) /\ UNCHANGED lockVars

(* main: create the five threads, then join them.  It ignores the result   *)
(* of pthread_create and would join an unset pthread_t; here every         *)
(* creation succeeds.                                                      *)
Main ==
  \/ \E t \in Tasks : Spawn(t) /\ UNCHANGED lockVars
  \/ AllReturned /\ UNCHANGED groupBVars

GroupBNext == Main \/ \E t \in Tasks : Thread(t)

(***************************************************************************)
(* Each thread is scheduled, and a mutex that is released over and over is *)
(* eventually had: the loops are finite, so weak fairness is enough.       *)
(***************************************************************************)
GroupBSpec ==
  /\ GroupBInit /\ [][GroupBNext]_groupBVars
  /\ WF_groupBVars(Main)
  /\ \A t \in AllTasks : WF_groupBVars(Thread(t))

-----------------------------------------------------------------------------
(***************************************************************************)
(* Properties.                                                             *)
(***************************************************************************)

(* The types of the variables.                                             *)
GroupBTypeOK ==
  /\ FirmwareTypeOK
  /\ owner \in [Shared -> Holders]
  /\ mutex_holder \in [Shared -> Holders]
  /\ holder_before \in [AllTasks -> Holders]

(* The stages in which a task is inside its critical section.              *)
InSection(t) == place[t] \in Shared /\ stage[t] \notin {"holder", "lock"}

(* No data race: two tasks are never inside the critical sections of one   *)
(* variable.  The *_task_safe.c files guard each access by the variable's  *)
(* own mutex.                                                              *)
MutualExclusion ==
  \A t, u \in AllTasks :
    t # u /\ InSection(t) /\ InSection(u) => place[t] # place[u]

(* A mutex is owned exactly by the task inside its section, so a task      *)
(* never asks for a mutex while it owns another: no hold-and-wait.         *)
OwnerIsInside ==
  \A t \in AllTasks, m \in Shared :
    owner[m] = t <=> place[t] = m /\ InSection(t)

(* The holder table, kept outside the mutexes, names a task only while the *)
(* task owns the mutex: hal_mutex_mark_released comes before the unlock.   *)
HolderOwnsMutex ==
  \A m \in Shared : mutex_holder[m] # NOBODY => owner[m] = mutex_holder[m]

(* A wait never blames the waiting task itself.                            *)
HolderIsAnother ==
  \A t \in AllTasks : holder_before[t] # t

(* Every task that is started runs all its loops and returns: no deadlock  *)
(* on the mutexes and no iteration is skipped.                             *)
Termination ==
  <>(AllReturned /\ \A t \in Tasks : iter[t] = Loops)
=============================================================================
