------------------------------- MODULE SystemA -------------------------------
(***************************************************************************)
(* The vulnerable firmware under the testbench.                            *)
(***************************************************************************)
EXTENDS GroupA, DutBridge

systemAVars == <<firmwareVars, dutBridgeVars>>

SystemAInit == FirmwareInit /\ DutBridgeInit

Bridge == RunPhase

Driver == CommDriver /\ UNCHANGED <<where, globals, locals, dutBridgeVars>>

Dut(t) == Thread(t) /\ UNCHANGED dutBridgeVars

Joined == poller = "joined" /\ UNCHANGED systemAVars

SystemANext == Bridge \/ Driver \/ Joined \/ \E t \in Tasks : Dut(t)

SystemASpec ==
  /\ SystemAInit /\ [][SystemANext]_systemAVars
  /\ WF_systemAVars(Bridge)
  /\ \A t \in AllTasks : WF_systemAVars(t \in Tasks /\ Dut(t))

-----------------------------------------------------------------------------
(* No false alarm: the scoreboard counts a torn read only for a pair that  *)
(* no reading gave, when readings differ in both components.  The SENSOR   *)
(* event is pushed before the humidity is stored, so a coherent pair is    *)
(* always known by the time its control input is delivered.                *)
OnlyTornReadsCounted ==
  [][torn_reads' # torn_reads =>
       Head(batch).pair \notin Readings \cup {NoPair}]_systemAVars

(* No torn read is missed after the warm-up: a pair no reading gave always *)
(* counts when it is delivered.                                            *)
EveryTornReadCounted ==
  [][/\ batch # <<>> /\ batch' = Tail(batch)
     /\ Head(batch).type = "CONTROL_IN"
     /\ Head(batch).pair \notin Readings \cup {NoPair}
     /\ coherence_warmup_seen = kCoherenceWarmup
     => torn_reads' = torn_reads + 1]_systemAVars

(* Once everything has been delivered and the driver is idle, scoreboard   *)
(* and firmware have the same setpoint.                                    *)
SetpointTracked ==
  poller = "joined" /\ ValueWritten => modeled_target_temp = target_temp

(* The callback loads the mailbox for the firmware, then again for the     *)
(* event: the driver has changed nothing in between.                       *)
ReportsWhatItTook ==
  At(COMM, "uart", "push") =>
    event_type = command.type /\ dvr_command_value = command.value

(* The scoreboard's setpoint follows the firmware's through targets and    *)
(* back at resets, unless the driver stored a command while the callback   *)
(* was loading one.                                                        *)
SetpointFollowed == []ReportsWhatItTook => []SetpointTracked
=============================================================================
