------------------------------ MODULE HalBridge ------------------------------
(***************************************************************************)
(* The hand-off between the firmware threads and the testbench: the event  *)
(* queue the HAL callbacks push into, the count of live firmware threads,  *)
(* and the two globals the UART driver leaves a command in.                *)
(*                                                                         *)
(* Registered is the set of event types whose HAL callback is registered:  *)
(* all of them under UVM, none in the stand-alone POSIX build, where       *)
(* hal.c's stubs produce no event.  A check that looks at some types only  *)
(* registers these: a type nobody looks at changes no other event's place. *)
(***************************************************************************)
EXTENDS Integers, Sequences

CONSTANTS
  Registered,   \* event types with a callback, a subset of EventTypes
  Script        \* the commands the UART driver injects, in order

EventTypes == {"SENSOR", "PWM", "GPIO", "COMM", "MUTEX_WAIT", "CONTROL_IN",
               "LOG", "TASK_DONE", "HEARTBEAT"}

CommandTypes == {"NONE", "TARGET", "ENABLE", "DISABLE", "RESET"}

(* The shared variables of the firmware, each with a mutex in Group B.     *)
Shared == {"sensor_data", "target_temp", "actuators", "alarm_state",
           "system_enabled"}
Subjects == Shared \cup CommandTypes \cup {"FAN", "PUMP", "LED"}

Commands == [type : CommandTypes, value : Int]

ASSUME BridgeAssumption ==
  /\ Registered \subseteq EventTypes
  /\ "HEARTBEAT" \in Registered <=> "COMM" \in Registered
  /\ Script \in Seq(Commands)

VARIABLES
  queue,               \* hal_bridge::queue(), guarded by get_mutex()
  active,              \* hal_bridge::active_dut_threads()
  dvr_command_type,    \* comm_driver.h globals: the command waiting for
  dvr_command_value,   \*   the firmware, type "NONE" when there is none
  injected             \* commands of Script comm_driver has begun to write

bridgeVars == <<queue, active, dvr_command_type, dvr_command_value, injected>>
mailbox == <<dvr_command_type, dvr_command_value, injected>>

(***************************************************************************)
(* An event carries what its monitor hands on: the sensor pair, a number   *)
(* (duty, pin state, command value, mutex holder) and what the number is   *)
(* about (channel, pin, command, mutex).  The fields a type does not use   *)
(* keep their defaults, as in struct hal_event.                            *)
(***************************************************************************)
NoPair == [temperature |-> 0, humidity |-> 0]
Pairs == [temperature : Int, humidity : Int]

PairEvent(type, task, pair) ==
  [type |-> type, task_id |-> task, pair |-> pair, of |-> "NONE", value |-> 0]
ValueEvent(type, task, of, value) ==
  [type |-> type, task_id |-> task, pair |-> NoPair, of |-> of, value |-> value]
SignalEvent(type, task) == ValueEvent(type, task, "NONE", 0)

Events == [type : EventTypes, task_id : Int, pair : Pairs, of : Subjects,
           value : Int]

BridgeTypeOK ==
  /\ queue \in Seq(Events)
  /\ active \in Int
  /\ dvr_command_type \in CommandTypes
  /\ dvr_command_value \in Int
  /\ injected \in 0 .. Len(Script)

(* Appended under the queue's mutex; nothing without a callback.           *)
Push(event) ==
  queue' = IF event.type \in Registered THEN Append(queue, event) ELSE queue

BridgeInit ==
  /\ queue = <<>>
  /\ active = 0
  /\ dvr_command_type = "NONE"
  /\ dvr_command_value = 0
  /\ injected = 0

-----------------------------------------------------------------------------
(***************************************************************************)
(* comm_driver::run_phase writes the type of the next item, then its value.*)
(* The stores are plain and nothing orders them with the firmware thread.  *)
(***************************************************************************)
ValueWritten == injected > 0 => dvr_command_value = Script[injected].value

(* Mutant: the next type overtakes this command's value.                   *)
InjectTypeEarly ==
  /\ injected < Len(Script)
  /\ injected' = injected + 1
  /\ dvr_command_type' = Script[injected + 1].type
  /\ UNCHANGED <<queue, active, dvr_command_value>>

InjectType ==
  /\ injected < Len(Script)
  /\ ValueWritten
  /\ injected' = injected + 1
  /\ dvr_command_type' = Script[injected + 1].type
  /\ UNCHANGED <<queue, active, dvr_command_value>>

InjectValue ==
  /\ ~ValueWritten
  /\ dvr_command_value' = Script[injected].value
  /\ UNCHANGED <<queue, active, dvr_command_type, injected>>

CommDriver == InjectType \/ InjectValue
=============================================================================
