------------------------------ MODULE Supervised ------------------------------
(***************************************************************************)
(* The vulnerable firmware under the testbench with its clock and the two  *)
(* checkers that keep time: dut_bridge publishes the simulated time once   *)
(* per poll, the firmware's threads stamp their events with what was       *)
(* published last, the scoreboard hands each delivered event to the        *)
(* watchdog and the timing checker, and the watchdog probes once a period. *)
(*                                                                         *)
(* SystemC runs one process at a time and moves its clock when all of them *)
(* wait: the poll loop after its drain, the probe after its check.  Which  *)
(* of the two goes first in a period is left open.                         *)
(***************************************************************************)
EXTENDS SystemA, DeadlockDetector, TimingChecker

ASSUME SupervisedAssumption ==
  /\ Monitored = Tasks
  /\ Temperatures = {r.temperature : r \in Readings}
  /\ ~CreationMayFail

VARIABLES
  sim_time,       \* hal_get_sim_time_ns(): the clock published last
  stamps,         \* sim_time_ns of the events in queue,
  batch_stamps    \*   and in batch

stampVars == <<sim_time, stamps, batch_stamps>>
detectorOwn == <<probed, tracked, last_heartbeat_ms, stalled_tasks,
                 finished_tasks, verdict, alive_at, flagged>>
timingOwn == <<previous, last_stamp, checkerVars, crossings>>
supervisedVars == <<systemAVars, stampVars, time, detectorOwn, timingOwn>>

SupervisedInit ==
  /\ SystemAInit /\ DetectorInit /\ TimingInit
  /\ sim_time = 0 /\ stamps = <<>> /\ batch_stamps = <<>>

-----------------------------------------------------------------------------
FirmwareStep ==
  /\ \/ CreateThreads
     \/ \E t \in Tasks : Dut(t)
  /\ stamps' = IF queue' = queue THEN stamps ELSE Append(stamps, sim_time)
  /\ UNCHANGED <<sim_time, batch_stamps, time, detectorOwn, timingOwn>>

(* Mutant: the clock is published after the drain.                         *)
CheckUnpublished ==
  /\ CheckActive
  /\ UNCHANGED <<where, globals, locals, stampVars, time, detectorOwn, timingOwn>>

(* The test of the loop, then hal_set_sim_time_ns.  A thread's step in     *)
(* between could as well have come before the one or after the other.      *)
CheckAndPublish ==
  /\ CheckActive
  /\ sim_time' = time
  /\ UNCHANGED <<where, globals, locals, stamps, batch_stamps, time, detectorOwn,
                 timingOwn>>

Drain ==
  /\ DrainSwap
  /\ batch_stamps' = stamps /\ stamps' = <<>>
  /\ UNCHANGED <<where, globals, locals, sim_time, time, detectorOwn, timingOwn>>

(* What the scoreboard's write() methods tell the two checkers.            *)
TellCheckers(event, stamp) ==
  CASE event.type = "SENSOR" ->
         Observe(event.task_id) /\ OnSensor(event.pair.temperature, stamp)
    [] event.type = "GPIO" /\ event.of = "LED" ->
         Observe(event.task_id) /\ OnActuatorReaction(stamp)
    [] event.type = "TASK_DONE" ->
         MarkFinished(event.task_id) /\ UNCHANGED timingVars
    [] event.type = "CONTROL_IN" ->
         ObserveControlInput(event.task_id) /\ UNCHANGED timingVars
    [] event.type = "MUTEX_WAIT" -> UNCHANGED <<detectorVars, timingVars>>
    [] OTHER -> Observe(event.task_id) /\ UNCHANGED timingVars

DeliverToAll ==
  /\ Deliver
  /\ batch_stamps' = Tail(batch_stamps)
  /\ TellCheckers(Head(batch), Head(batch_stamps))
  /\ UNCHANGED <<where, globals, locals, sim_time, stamps>>

(* The drain in the loop ends in wait(1, SC_MS); the last one does not.    *)
(* Bound: MaxPeriods, after which the clock stands still.                  *)
EndPoll ==
  /\ EndDrain
  /\ \/ poller = "deliver" /\ NextPeriod /\ NextPoll
     \/ poller = "deliver" /\ Bounded /\ UNCHANGED <<detectorVars, timingVars>>
     \/ poller = "final_deliver" /\ UNCHANGED <<detectorVars, timingVars>>
  /\ UNCHANGED <<where, globals, locals, stampVars>>

SilenceProbe == Probe /\ UNCHANGED <<systemAVars, stampVars, timingVars>>

(* After dut_bridge has dropped its objection the run phase may go on for  *)
(* as long as a test holds another; then the report.                       *)
AfterTheRun ==
  /\ poller = "joined"
  /\ \/ NextPeriod /\ NextPoll
     \/ Report /\ UNCHANGED timingVars
     \/ verdict # "running" /\ UNCHANGED <<detectorVars, timingVars>>
  /\ UNCHANGED <<systemAVars, stampVars>>

SupervisedNext ==
  \/ FirmwareStep \/ CheckAndPublish \/ Drain \/ DeliverToAll \/ EndPoll
  \/ SilenceProbe \/ AfterTheRun

SupervisedSpec == SupervisedInit /\ [][SupervisedNext]_supervisedVars

-----------------------------------------------------------------------------
(* The scoreboard uses the watchdog as it is meant to be used: no event of *)
(* a task after its TASK_DONE, no report before the TASK_DONE of all.  So  *)
(* whatever holds of the watchdog on its own holds here.                   *)
FeedsDetector == DetectorSpec

(* The events reach the timing checker in the order of their stamps, and   *)
(* none waits in the queue for more than one poll.                         *)
FeedsTimingChecker == TimingSpec

(* logger_monitor.h: the heartbeats are there "so the deadlock detector     *)
(* tracks all 5 tasks": when run_phase joins, each has been heard of and has*)
(* finished, so that no stall is left to be reported.                      *)
AllTracked ==
  poller = "joined" =>
    tracked = Tasks /\ finished_tasks = Tasks /\ stalled_tasks = {}
=============================================================================
