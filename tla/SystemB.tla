------------------------------- MODULE SystemB -------------------------------
(***************************************************************************)
(* The protected firmware under the testbench: its threads, the UART       *)
(* driver, the bridge's polling loop and the scoreboard.                   *)
(***************************************************************************)
EXTENDS GroupB, DutBridge

systemBVars == <<groupBVars, dutBridgeVars>>

SystemBInit == GroupBInit /\ DutBridgeInit

Bridge == RunPhase /\ UNCHANGED lockVars

Driver == CommDriver /\ UNCHANGED <<where, globals, locals, lockVars, dutBridgeVars>>

Dut(t) == Thread(t) /\ UNCHANGED dutBridgeVars

Joined == poller = "joined" /\ UNCHANGED systemBVars

SystemBNext == Bridge \/ Driver \/ Joined \/ \E t \in Tasks : Dut(t)

(* The SystemC kernel keeps running run_phase, the operating system the    *)
(* threads; nothing obliges a sequence to send another command.            *)
SystemBSpec ==
  /\ SystemBInit /\ [][SystemBNext]_systemBVars
  /\ WF_systemBVars(Bridge)
  /\ \A t \in AllTasks : WF_systemBVars(Dut(t))

-----------------------------------------------------------------------------
(* The scoreboard never reports a torn read of the protected build: no     *)
(* control input is delivered before the sensor event that explains it,    *)
(* and none mixes two readings (check_control_coherence: Group B can never *)
(* produce an unseen pair), even with no warm-up at all.                   *)
NoTornReads == torn_reads = 0

(* Fan and pump events are paired within one iteration: the pump's event   *)
(* always follows its fan's, so that a pump state never waits.             *)
FanComesFirst == pending_pump = {}

(* With a window that holds every reading and a setpoint that stays, the   *)
(* reference model rejects nothing but outputs computed from the reset     *)
(* state, before the first reading was stored.                             *)
OnlyColdStartRejected ==
  [][mismatches' # mismatches =>
       \/ /\ Head(batch).of = "PUMP"
          /\ pending_fan = {CalculatedFanDuty(0, TEMP_TARGET_DEFAULT)}
          /\ Head(batch).value = Bit(ShouldPumpOn(0))
       \/ /\ Head(batch).of = "LED"
          /\ Head(batch).value = Bit(AlarmLedActive(0, 0))]_systemBVars

(* protected_test.h: no mismatches are expected for group B, and one means *)
(* a deadlock or a lock omission.                                          *)
NoMismatches == mismatches = 0

(* The scoreboard's setpoint follows the firmware's: once everything has   *)
(* been delivered and the driver is idle the two agree.                    *)
SetpointTracked ==
  poller = "joined" /\ ValueWritten => modeled_target_temp = target_temp

(* The commands on their way to the scoreboard.                            *)
CommEvents(events) == {k \in 1 .. Len(events) : events[k].type = "COMM"}
PendingCommands == Cardinality(CommEvents(Stream))

(* A command is taken at most once: hal_bridge_uart_rx clears the mailbox  *)
(* to "avoid re-injecting the same command every poll".                    *)
CommandTakenOnce ==
  PendingCommands
    + (IF dvr_command_type # "NONE" /\ stage[COMM] # "consume" THEN 1 ELSE 0)
    <= injected

(* comm_task is never handed an empty command, and none is reported: only  *)
(* the task itself empties the mailbox, after it has read it for the last  *)
(* time.                                                                   *)
NoEmptyCommand ==
  /\ At(COMM, "uart", "consume") \/ At(COMM, "target_temp", "first") =>
       command.type # "NONE"
  /\ \A i \in 1 .. Len(queue) : queue[i].type = "COMM" => queue[i].of # "NONE"

(* The value the driver leaves behind after its first k commands.          *)
ValueAfter(k) == IF k = 0 THEN 0 ELSE Script[k].value

(* Type and value of a command are two unguarded globals, so comm_task can *)
(* be given a mixture; but its value is never older than the one before    *)
(* its type's, since driver and callback both go to the type first.        *)
CommandKeepsUp ==
  At(COMM, "uart", "event") \/ At(COMM, "uart", "push") \/ At(COMM, "uart", "consume") =>
    \E i \in 1 .. injected :
      /\ command.type = Script[i].type
      /\ \E j \in i - 1 .. injected : command.value = ValueAfter(j)

(* The COMM event tells the scoreboard the command the firmware was given: *)
(* passive monitors bridge every HAL operation (verification_plan.md).     *)
MonitorSeesCommand ==
  [][At(COMM, "uart", "push") /\ stage'[COMM] = "consume" =>
       LET event == queue'[Len(queue')] IN
       event.of = command.type /\ event.value = command.value]_systemBVars
=============================================================================
