-------------------------- MODULE PriorityInversion --------------------------
(***************************************************************************)
(* priority_inversion_checker, fed by the mutex waits that the protected   *)
(* firmware reports: the events of the queue, in order.  How long a task   *)
(* waited is a question of time: the delivery picks it from Waits, in      *)
(* microseconds, the unit of hal_get_tick_us that the field called wait_ms *)
(* is computed in.                                                         *)
(***************************************************************************)
EXTENDS GroupB

CONSTANTS Waits, wait_threshold_ms

ASSUME InversionAssumption ==
  /\ Registered = {"MUTEX_WAIT"}
  /\ Waits \subseteq Nat \ {0}
  /\ wait_threshold_ms \in Nat

VARIABLES
  total_waits, suspicious_waits, confirmed_inversions, max_wait_per_task,
  blame   \* history: the (waiter, mutex, holder, wait) last held suspicious

checkerVars == <<total_waits, suspicious_waits, confirmed_inversions,
                 max_wait_per_task, blame>>
inversionVars == <<groupBVars, checkerVars>>

NoBlame == [task |-> NOBODY, mutex |-> "sensor_data", holder |-> NOBODY, wait |-> 0]

InversionTypeOK ==
  /\ total_waits \in Nat
  /\ suspicious_waits \in 0 .. total_waits
  /\ confirmed_inversions \in 0 .. suspicious_waits
  /\ max_wait_per_task \in [AllTasks -> {0} \cup Waits]
  /\ blame \in [task : Holders, mutex : Shared, holder : Holders,
                wait : {0} \cup Waits]

InversionInit ==
  /\ GroupBInit
  /\ total_waits = 0
  /\ suspicious_waits = 0
  /\ confirmed_inversions = 0
  /\ max_wait_per_task = [t \in AllTasks |-> 0]
  /\ blame = NoBlame

-----------------------------------------------------------------------------
Suspicious(event, wait) == event.task_id = ALARM /\ wait > wait_threshold_ms

(* Mutant: an unknown holder counts as one of lower priority.              *)
HolderIsLowerUnlessHigher(event) == ~(event.value \in event.task_id .. ALARM)

HolderIsLower(event) == event.value # NOBODY /\ event.value < event.task_id

(* record_wait.                                                            *)
RecordWait(event, wait) ==
  /\ total_waits' = total_waits + 1
  /\ max_wait_per_task' =
       [max_wait_per_task EXCEPT ![event.task_id] = IF @ < wait THEN wait ELSE @]
  /\ IF Suspicious(event, wait)
     THEN /\ suspicious_waits' = suspicious_waits + 1
          /\ confirmed_inversions' = confirmed_inversions + Bit(HolderIsLower(event))
          /\ blame' = [task |-> event.task_id, mutex |-> event.of,
                       holder |-> event.value, wait |-> wait]
     ELSE UNCHANGED <<suspicious_waits, confirmed_inversions, blame>>

DeliverWait ==
  /\ queue # <<>>
  /\ \E wait \in Waits : RecordWait(Head(queue), wait)
  /\ queue' = Tail(queue)
  /\ UNCHANGED <<where, globals, locals, active, mailbox, lockVars>>

InversionNext ==
  \/ GroupBNext /\ UNCHANGED checkerVars
  \/ DeliverWait

InversionSpec == InversionInit /\ [][InversionNext]_inversionVars

-----------------------------------------------------------------------------
(* The tasks whose code locks the mutex of m.                              *)
Users(m) ==
  CASE m = "sensor_data" -> Readers \cup {SENSOR}
    [] m = "target_temp" -> {CONTROL, COMM}
    [] m = "actuators" -> {CONTROL, LOGGER}
    [] m = "alarm_state" -> {ALARM, LOGGER}
    [] m = "system_enabled" -> {COMM}

(* A confirmed inversion names, as the holder, a task of lower priority    *)
(* whose code does lock that mutex; the holder table is read outside the   *)
(* mutex, so that the name may be out of date.                             *)
BlamedTaskUsesMutex ==
  [][confirmed_inversions' # confirmed_inversions =>
       blame'.holder \in (Users(blame'.mutex) \cap Tasks) \ {ALARM}]_inversionVars

(* The report calls the suspicious waits "alarm_task > 50ms".              *)
SuspiciousWaitsAreLong ==
  blame.task = ALARM => blame.wait > wait_threshold_ms * 1000
=============================================================================
